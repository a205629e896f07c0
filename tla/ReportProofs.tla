---------------------------- MODULE ReportProofs ----------------------------
(***************************************************************************)
(* That the plan is carried out by its change set, that a green headline   *)
(* is backed by the report below it, and that advice which is followed     *)
(* comes to an end, for every zone and whatever lookups are lost.          *)
(***************************************************************************)
EXTENDS ReportProperties, SequenceTheorems, FiniteSetTheorems, TLAPS

-----------------------------------------------------------------------------
(* The sort. *)

\* Where an element goes is a place from 1 to the number of those that are sorted, and
\* what does not come after another goes before it.
LEMMA PlaceIsRank ==
  ASSUME NEW I, IsFiniteSet(I), I \subseteq Nat, NEW key, \A i \in I : key[i] \in Nat
  PROVE  /\ \A i \in I : Place(I, key, i) \in 1..Cardinality(I)
         /\ \A i \in I : \A j \in I : i # j /\ NotAfter(key, i, j) => Place(I, key, i) < Place(I, key, j)
<1>1. ASSUME NEW i \in I
      PROVE  /\ IsFiniteSet({j \in I : NotAfter(key, j, i)})
             /\ Place(I, key, i) \in 1..Cardinality(I)
  <2> DEFINE S == {j \in I : NotAfter(key, j, i)}
  <2>1. IsFiniteSet(S) /\ Cardinality(S) <= Cardinality(I)
    BY FS_Subset
  <2>2. Cardinality(S) \in Nat /\ Cardinality(I) \in Nat
    BY <2>1, FS_CardinalityType
  <2>3. i \in S
    BY DEF NotAfter
  <2>4. Cardinality(S) # 0
    BY <2>1, <2>3, FS_EmptySet
  <2> QED BY <2>1, <2>2, <2>4 DEF Place
<1>2. ASSUME NEW i \in I, NEW j \in I, i # j, NotAfter(key, i, j)
      PROVE  Place(I, key, i) < Place(I, key, j)
  <2> DEFINE S == {k \in I : NotAfter(key, k, i)}
             T == {k \in I : NotAfter(key, k, j)}
  <2>1. S \subseteq T \ {j}
    <3> SUFFICES ASSUME NEW k \in I, NotAfter(key, k, i)
                 PROVE  NotAfter(key, k, j) /\ k # j
      OBVIOUS
    <3>1. key[i] \in Nat /\ key[j] \in Nat /\ key[k] \in Nat /\ i \in Nat /\ j \in Nat /\ k \in Nat
      OBVIOUS
    <3> QED BY <1>2, <3>1 DEF NotAfter
  <2>2. j \in T
    BY DEF NotAfter
  <2>3. IsFiniteSet(T)
    BY <1>1
  <2>4. IsFiniteSet(T \ {j}) /\ Cardinality(T \ {j}) = Cardinality(T) - 1
    BY <2>2, <2>3, FS_RemoveElement
  <2>5. IsFiniteSet(S) /\ Cardinality(S) <= Cardinality(T \ {j})
    BY <2>1, <2>4, FS_Subset
  <2>6. Cardinality(S) \in Nat /\ Cardinality(T) \in Nat
    BY <2>3, <2>5, FS_CardinalityType
  <2> QED BY <2>4, <2>5, <2>6 DEF Place
<1> QED BY <1>1, <1>2

\* The order of a sort names every element once, by key and then by place.
LEMMA OrderSorts ==
  ASSUME NEW I, IsFiniteSet(I), I \subseteq Nat, NEW key, \A i \in I : key[i] \in Nat
  PROVE  LET order == Order(I, key)
         IN /\ \A k \in 1..Cardinality(I) : order[k] \in I
            /\ \A i \in I : \E k \in 1..Cardinality(I) : order[k] = i
            /\ \A k \in 1..Cardinality(I) : \A l \in 1..Cardinality(I) :
                 k < l => order[k] # order[l] /\ NotAfter(key, order[k], order[l])
<1> DEFINE n     == Cardinality(I)
           place == [i \in I |-> Place(I, key, i)]
           order == Order(I, key)
<1>1. n \in Nat /\ IsFiniteSet(1..n) /\ Cardinality(1..n) = n
  BY FS_CardinalityType, FS_Interval
<1>2. /\ place \in [I -> 1..n]
      /\ \A i \in I : \A j \in I : i # j /\ NotAfter(key, i, j) => place[i] < place[j]
  BY PlaceIsRank
<1>3. ASSUME NEW i \in I, NEW j \in I, i # j
      PROVE  NotAfter(key, i, j) \/ NotAfter(key, j, i)
  <2>1. key[i] \in Nat /\ key[j] \in Nat /\ i \in Nat /\ j \in Nat
    OBVIOUS
  <2> QED BY <1>3, <2>1 DEF NotAfter
<1>4. ASSUME NEW i \in I, NEW j \in I, i # j
      PROVE  place[i] # place[j]
  <2> HIDE DEF place
  <2>1. place[i] \in 1..n /\ place[j] \in 1..n
    BY <1>2
  <2> QED BY <1>1, <1>2, <1>3, <1>4, <2>1
<1>5. place \in Injection(I, 1..n)
  <2> HIDE DEF place
  <2> QED BY <1>2, <1>4 DEF Injection, IsInjective
<1>6. place \in Surjection(I, 1..n)
  BY <1>1, <1>5, FS_Injection
<1>7. \A k \in 1..n : \E i \in I : place[i] = k
  <2> HIDE DEF place
  <2> QED BY <1>6 DEF Surjection
<1>8. \A k \in 1..n : order[k] \in I /\ place[order[k]] = k
  <2> TAKE k \in 1..n
  <2>1. order[k] = CHOOSE i \in I : place[i] = k
    BY DEF Order
  <2>2. PICK i \in I : place[i] = k
    BY <1>7
  <2> HIDE DEF place, order
  <2> QED BY <2>1, <2>2
<1>9. \A i \in I : order[place[i]] = i
  <2> HIDE DEF place, order
  <2> QED BY <1>2, <1>4, <1>8
<1>10. ASSUME NEW k \in 1..n, NEW l \in 1..n, k < l
       PROVE  order[k] # order[l] /\ NotAfter(key, order[k], order[l])
  <2> HIDE DEF place, order, n
  <2>1. order[k] # order[l]
    BY <1>8, <1>10
  <2>2. ~(place[order[l]] < place[order[k]])
    BY <1>8, <1>10, <1>1
  <2>3. ~NotAfter(key, order[l], order[k])
    BY <2>1, <2>2, <1>2, <1>8
  <2> QED BY <2>1, <2>3, <1>3, <1>8
<1> QED BY <1>2, <1>8, <1>9, <1>10

\* A list: a function on 1..n.
IsList(s) == \E n \in Nat : DOMAIN s = 1..n

\* What a list has at some of its places, sorted, is a list of just that.
LEMMA TakenIs ==
  ASSUME NEW s, IsList(s), NEW I \in SUBSET DOMAIN s, NEW key, \A i \in I : key[i] \in Nat
  PROVE  LET t == Taken(s, I, key)
             order == Order(I, key)
         IN /\ IsList(t)
            /\ \A k \in DOMAIN t : order[k] \in I /\ t[k] = s[order[k]]
            /\ \A i \in I : \E k \in DOMAIN t : order[k] = i
            /\ \A k \in DOMAIN t : \A l \in DOMAIN t :
                 k < l => order[k] # order[l] /\ NotAfter(key, order[k], order[l])
<1>1. IsFiniteSet(I) /\ I \subseteq Nat
  <2>1. PICK n \in Nat : DOMAIN s = 1..n
    BY DEF IsList
  <2>2. IsFiniteSet(1..n)
    BY FS_Interval
  <2> QED BY <2>1, <2>2, FS_Subset
<1>2. Cardinality(I) \in Nat
  BY <1>1, FS_CardinalityType
<1>3. /\ DOMAIN Taken(s, I, key) = 1..Cardinality(I)
      /\ \A k \in 1..Cardinality(I) : Taken(s, I, key)[k] = s[Order(I, key)[k]]
  BY DEF Taken
<1> DEFINE order == Order(I, key)
           t     == Taken(s, I, key)
           n     == Cardinality(I)
<1>4. /\ \A k \in 1..n : order[k] \in I
      /\ \A i \in I : \E k \in 1..n : order[k] = i
      /\ \A k \in 1..n : \A l \in 1..n : k < l => order[k] # order[l] /\ NotAfter(key, order[k], order[l])
  BY <1>1, OrderSorts, Zenon
<1> HIDE DEF order, t, n
<1>5. IsList(t) /\ DOMAIN t = 1..n
  BY <1>2, <1>3 DEF IsList, t, n
<1>6. \A k \in DOMAIN t : t[k] = s[order[k]]
  BY <1>3, <1>5 DEF t, order, n
<1> QED BY <1>4, <1>5, <1>6 DEF t, order

\* Reordering a list keeps everything on it.
LEMMA ReorderedIs ==
  ASSUME NEW s, IsList(s), NEW key, \A i \in DOMAIN s : key[i] \in Nat
  PROVE  LET t == Reordered(s, key)
             order == Order(DOMAIN s, key)
         IN /\ IsList(t)
            /\ \A k \in DOMAIN t : order[k] \in DOMAIN s /\ t[k] = s[order[k]]
            /\ \A i \in DOMAIN s : \E k \in DOMAIN t : order[k] = i
            /\ \A k \in DOMAIN t : \A l \in DOMAIN t :
                 k < l => order[k] # order[l] /\ NotAfter(key, order[k], order[l])
BY TakenIs DEF Reordered

\* Keeping some of a list keeps them as they stand.
LEMMA KeptIs ==
  ASSUME NEW s, IsList(s), NEW I \in SUBSET DOMAIN s
  PROVE  LET t == Kept(s, I)
         IN /\ IsList(t)
            /\ \E order : /\ \A k \in DOMAIN t : order[k] \in I /\ t[k] = s[order[k]]
                          /\ \A i \in I : \E k \in DOMAIN t : order[k] = i
                          /\ \A k \in DOMAIN t : \A l \in DOMAIN t : k < l => order[k] # order[l]
<1> DEFINE key == [i \in I |-> 0]
<1>1. \A i \in I : key[i] \in Nat
  OBVIOUS
<1>2. Kept(s, I) = Taken(s, I, key)
  BY DEF Kept
<1> DEFINE order == Order(I, key)
           t     == Taken(s, I, key)
<1>3. /\ IsList(t)
      /\ \A k \in DOMAIN t : order[k] \in I /\ t[k] = s[order[k]]
      /\ \A i \in I : \E k \in DOMAIN t : order[k] = i
      /\ \A k \in DOMAIN t : \A l \in DOMAIN t : k < l => order[k] # order[l]
  <2> HIDE DEF key
  <2> QED BY <1>1, TakenIs
<1> HIDE DEF order, t
<1> QED BY <1>2, <1>3 DEF t

-----------------------------------------------------------------------------
(* The change set. *)

\* What holds of a change set while it is put in order: only steps about DMARC are marked
\* as enforcing, and one entry at most is the edit of the record.
OneEdit(ch) ==
  \A j \in DOMAIN ch : \A k \in DOMAIN ch : ch[j].kind = "edit" /\ ch[k].kind = "edit" => j = k
OnlyDmarcEnforces(ch) == \A k \in DOMAIN ch : ch[k].enforcing => ch[k].proto = "DMARC"
IsChangeSet(ch)  == IsList(ch) /\ OneEdit(ch) /\ OnlyDmarcEnforces(ch)
Publishes(ch, proto, kind) == \E k \in DOMAIN ch : ch[k].proto = proto /\ ch[k].kind = kind

ReportsBefore(ch) ==
  \A i \in DOMAIN ch : \A j \in DOMAIN ch :
    i < j => ~(ch[i].proto = "MTA-STS" /\ ch[j].proto = "TLS-RPT")
SendersBefore(ch) ==
  \A i \in DOMAIN ch : \A j \in DOMAIN ch :
    i < j => ~(ch[i].enforcing /\ ch[j].proto \in {"SPF", "DKIM"})

\* A reordering loses no entry and doubles none.
LEMMA ReorderKeeps ==
  ASSUME NEW ch, IsChangeSet(ch), NEW key, \A i \in DOMAIN ch : key[i] \in Nat
  PROVE  /\ IsChangeSet(Reordered(ch, key))
         /\ \A proto : \A kind : Publishes(ch, proto, kind) => Publishes(Reordered(ch, key), proto, kind)
<1> DEFINE t     == Reordered(ch, key)
           order == Order(DOMAIN ch, key)
<1>1. /\ IsList(t)
      /\ \A k \in DOMAIN t : order[k] \in DOMAIN ch /\ t[k] = ch[order[k]]
      /\ \A i \in DOMAIN ch : \E k \in DOMAIN t : order[k] = i
      /\ \A k \in DOMAIN t : \A l \in DOMAIN t : k < l => order[k] # order[l]
  BY ReorderedIs DEF IsChangeSet
<1> HIDE DEF t, order
<1>2. DOMAIN t \subseteq Nat
  BY <1>1 DEF IsList
<1>3. ASSUME NEW j \in DOMAIN t, NEW k \in DOMAIN t, t[j].kind = "edit", t[k].kind = "edit"
      PROVE  j = k
  <2>1. order[j] = order[k]
    BY <1>1, <1>3 DEF IsChangeSet, OneEdit
  <2>2. j \in Nat /\ k \in Nat
    BY <1>2
  <2> QED BY <1>1, <2>1, <2>2
<1>4. OnlyDmarcEnforces(t)
  BY <1>1 DEF IsChangeSet, OnlyDmarcEnforces
<1>5. ASSUME NEW proto, NEW kind, Publishes(ch, proto, kind)
      PROVE  Publishes(t, proto, kind)
  BY <1>1, <1>5 DEF Publishes
<1> QED BY <1>1, <1>3, <1>4, <1>5 DEF IsChangeSet, OneEdit, t

\* No step about MTA-STS is left before one about TLS-RPT.
LEMMA ReportsGoFirst ==
  ASSUME NEW ch, IsChangeSet(ch)
  PROVE  /\ IsChangeSet(ReportsFirst(ch))
         /\ \A proto : \A kind : Publishes(ch, proto, kind) => Publishes(ReportsFirst(ch), proto, kind)
         /\ ReportsBefore(ReportsFirst(ch))
<1> DEFINE fromSts(i) == \E k \in DOMAIN ch : k <= i /\ ch[k].proto = "MTA-STS"
           class(i)   == IF ~fromSts(i) THEN 0 ELSE IF ch[i].proto = "TLS-RPT" THEN 1 ELSE 2
           key        == [i \in DOMAIN ch |-> class(i)]
           t          == Reordered(ch, key)
           order      == Order(DOMAIN ch, key)
<1>1. ReportsFirst(ch) = t
  BY DEF ReportsFirst
<1>2. \A i \in DOMAIN ch : key[i] \in {0, 1, 2}
  OBVIOUS
<1>3. DOMAIN ch \subseteq Nat /\ IsList(ch)
  BY DEF IsChangeSet, IsList
<1>4. \A i \in DOMAIN ch : ch[i].proto = "MTA-STS" => key[i] = 2
  BY <1>3
<1>5. \A i \in DOMAIN ch : ch[i].proto = "TLS-RPT" => key[i] \in {0, 1}
  OBVIOUS
<1> HIDE DEF key
<1>6. /\ \A k \in DOMAIN t : order[k] \in DOMAIN ch /\ t[k] = ch[order[k]]
      /\ \A k \in DOMAIN t : \A l \in DOMAIN t : k < l => NotAfter(key, order[k], order[l])
  BY <1>2, <1>3, ReorderedIs
<1>7. IsChangeSet(t) /\ \A proto : \A kind : Publishes(ch, proto, kind) => Publishes(t, proto, kind)
  BY <1>2, ReorderKeeps
<1> HIDE DEF t, order
<1>8. ReportsBefore(t)
  <2> SUFFICES ASSUME NEW i \in DOMAIN t, NEW j \in DOMAIN t, i < j,
                      t[i].proto = "MTA-STS", t[j].proto = "TLS-RPT"
               PROVE  FALSE
    BY DEF ReportsBefore
  <2>1. key[order[i]] = 2 /\ key[order[j]] \in {0, 1}
    BY <1>4, <1>5, <1>6
  <2> QED BY <1>6, <2>1 DEF NotAfter
<1> QED BY <1>1, <1>7, <1>8

\* No step marked as enforcing is left before one about SPF or DKIM, and the steps about
\* MTA-STS and TLS-RPT stay as they were.
LEMMA SendersGoFirst ==
  ASSUME NEW ch, IsChangeSet(ch), ReportsBefore(ch)
  PROVE  /\ IsChangeSet(SendersFirst(ch))
         /\ \A proto : \A kind : Publishes(ch, proto, kind) => Publishes(SendersFirst(ch), proto, kind)
         /\ ReportsBefore(SendersFirst(ch))
         /\ SendersBefore(SendersFirst(ch))
<1> DEFINE toSender(i) == \E k \in DOMAIN ch : i <= k /\ ch[k].proto \in {"SPF", "DKIM"}
           class(i)    == IF ~toSender(i) THEN 2 ELSE IF ch[i].enforcing THEN 1 ELSE 0
           key         == [i \in DOMAIN ch |-> class(i)]
           t           == Reordered(ch, key)
           order       == Order(DOMAIN ch, key)
<1>1. SendersFirst(ch) = t
  BY DEF SendersFirst
<1>2. \A i \in DOMAIN ch : key[i] \in {0, 1, 2}
  OBVIOUS
<1>3. DOMAIN ch \subseteq Nat /\ IsList(ch)
  BY DEF IsChangeSet, IsList
<1>4. \A i \in DOMAIN ch : ch[i].proto \in {"SPF", "DKIM"} => key[i] = 0
  BY <1>3 DEF IsChangeSet, OnlyDmarcEnforces
<1>5. \A i \in DOMAIN ch : ch[i].enforcing => key[i] \in {1, 2}
  OBVIOUS
<1>6. ASSUME NEW i \in DOMAIN ch, NEW j \in DOMAIN ch, ~ch[i].enforcing, ~ch[j].enforcing,
             key[i] < key[j]
      PROVE  i < j
  <2>1. i \in Nat /\ j \in Nat
    BY <1>3
  <2>2. toSender(i) /\ ~toSender(j)
    BY <1>6
  <2> QED BY <1>3, <2>1, <2>2
<1> HIDE DEF key
<1>7. /\ \A k \in DOMAIN t : order[k] \in DOMAIN ch /\ t[k] = ch[order[k]]
      /\ \A k \in DOMAIN t : \A l \in DOMAIN t :
           k < l => order[k] # order[l] /\ NotAfter(key, order[k], order[l])
  BY <1>2, <1>3, ReorderedIs
<1>8. IsChangeSet(t) /\ \A proto : \A kind : Publishes(ch, proto, kind) => Publishes(t, proto, kind)
  BY <1>2, ReorderKeeps
<1> HIDE DEF t, order
<1>9. SendersBefore(t)
  <2> SUFFICES ASSUME NEW i \in DOMAIN t, NEW j \in DOMAIN t, i < j,
                      t[i].enforcing, t[j].proto \in {"SPF", "DKIM"}
               PROVE  FALSE
    BY DEF SendersBefore
  <2>1. key[order[i]] \in {1, 2} /\ key[order[j]] = 0
    BY <1>4, <1>5, <1>7
  <2> QED BY <1>7, <2>1 DEF NotAfter
<1>10. ReportsBefore(t)
  <2> SUFFICES ASSUME NEW i \in DOMAIN t, NEW j \in DOMAIN t, i < j,
                      t[i].proto = "MTA-STS", t[j].proto = "TLS-RPT"
               PROVE  FALSE
    BY DEF ReportsBefore
  <2>1. /\ order[i] \in DOMAIN ch /\ order[j] \in DOMAIN ch /\ order[i] # order[j]
        /\ ch[order[i]].proto = "MTA-STS" /\ ch[order[j]].proto = "TLS-RPT"
        /\ NotAfter(key, order[i], order[j])
    BY <1>7
  <2>2. ~ch[order[i]].enforcing /\ ~ch[order[j]].enforcing
    BY <2>1 DEF IsChangeSet, OnlyDmarcEnforces
  <2>3. order[i] < order[j]
    <3>1. order[i] \in Nat /\ order[j] \in Nat
      BY <1>3, <2>1
    <3> QED BY <1>6, <2>1, <2>2, <3>1 DEF NotAfter
  <2> QED BY <2>1, <2>3 DEF ReportsBefore
<1> QED BY <1>1, <1>8, <1>9, <1>10

-----------------------------------------------------------------------------
(* The rows of the plan. *)

\* The view of a domain with a record r of its own.
OwnView(v, r) ==
  /\ v.force = {r} /\ v.shown = {r} /\ ~v.inherited
  /\ ~v.dmarc.registry /\ ~Inherits(v.dmarc)

\* The edits there are of such a record: what calls for each, the tags it sets and the
\* tags it removes, and the value a tag is given.
Wanted(r) ==
  [ rua |-> "mail", sp |-> r.p,
    p   |-> IF ~Has(r.p) THEN "none" ELSE IF r.p = "none" THEN "quarantine" ELSE "reject",
    np  |-> IF ~Has(r.np) /\ r.sp \in Policies THEN r.sp ELSE r.p ]
Sets(set, remove, tags) == DOMAIN set = tags /\ remove = {}
CalledFor(r, noMail, kind, set, remove) ==
  \/ kind = "rua"     /\ Sets(set, remove, {"rua"}) /\ ~Has(r.rua) /\ ~noMail
  \/ kind = "p"       /\ Sets(set, remove, {"p"})   /\ ~Has(r.p)
  \/ kind = "enforce" /\ Sets(set, remove, {"p"})   /\ r.p = "none"
  \/ kind = "reject"  /\ Sets(set, remove, {"p"})   /\ r.p = "quarantine"
  \/ kind = "sp"      /\ Sets(set, remove, {"sp"})  /\ Weaker(r, "sp")
  \/ kind = "np"      /\ Sets(set, remove, {"np"})  /\ Weaker(r, "np")
  \/ kind = "add np"  /\ Sets(set, remove, {"np"})  /\ ~Has(r.np) /\ r.p \in Enforcing /\ ~Weaker(r, "sp")
  \/ kind = "retired tags" /\ DOMAIN set = {} /\ remove = {t \in {"pct"} : Has(r.pct)} /\ Retired(r)
  \/ kind \in {"test mode", "test mode of np"} /\ DOMAIN set = {} /\ remove = {"t"} /\ r.t = "y"
EditSays(r, noMail, kind, set, remove, hold) ==
  /\ CalledFor(r, noMail, kind, set, remove)
  /\ \A tag \in DOMAIN set : set[tag] = Wanted(r)[tag]
  /\ kind \in {"enforce", "reject"} => hold

\* What a row may say of its card: it is not about one that was not read, and critical
\* only where the card is red, or is DKIM's and `waived'; where it edits the domain's own
\* record, it is one of those edits.
Fits(v, waived, row) ==
  /\ ~Unread(v.cards[row.proto])
  /\ IsEdit(row) => \A r : OwnView(v, r) =>
       EditSays(r, v.noMail, row.kind, row.set, row.remove, row.hold)
  /\ row.hold => row.proto = "DMARC"
  /\ row.kind # "edit"
  /\ row.pri = "critical" => \/ v.cards[row.proto].status = "fail"
                             \/ waived /\ row.proto = "DKIM"
RowsFit(v, waived, s) == \E S : s \in Seq(S) /\ \A row \in S : Fits(v, waived, row)

\* What the rows rely on: the raw results behind three of the cards and the record in
\* force say nothing of a card that was not read, and the worst of what they say makes
\* the card red.
DmarcBacked(v) ==
  /\ v.force # {} => ~Unread(v.cards["DMARC"])
  /\ (\E d \in v.dmarc.destinations : d.authorized = "no") => ~Unread(v.cards["DMARC"])
  /\ v.cards["DMARC"].label = "Multiple records" => v.cards["DMARC"].status = "fail"
SpfBacked(v) ==
  /\ v.cards["SPF"].label = "Multiple records" => v.cards["SPF"].status = "fail"
  /\ v.spf.open => v.cards["SPF"].status = "fail"
  /\ v.spf.band = "over" => v.cards["SPF"].status = "fail"
  /\ v.spf.band = "near" => ~Unread(v.cards["SPF"])
Ignored(r) == Strength(r) = "invalid" \/ IsUnusable(r)
SelectorBroken(v) ==
  "unregistered" \in v.dkim.dangling \/ \E s \in Live(v.dkim.found) : Ignored(s.record)
DkimBacked(v, waived) ==
  /\ v.dkim.found # {} => ~Unread(v.cards["DKIM"])
  /\ v.dkim.dangling # {} => ~Unread(v.cards["DKIM"])
  /\ SelectorBroken(v) => waived \/ v.cards["DKIM"].status = "fail"
BimiBacked(v) == v.cards["BIMI"].label = "published" => ~Unread(v.cards["BIMI"])
Backed(v, waived) == DmarcBacked(v) /\ SpfBacked(v) /\ DkimBacked(v, waived) /\ BimiBacked(v)

\* The fields of a row.
LEMMA RowFields ==
  ASSUME NEW pri, NEW proto, NEW kind, NEW set, NEW remove
  PROVE  /\ Row(pri, proto, kind).pri = pri /\ Row(pri, proto, kind).proto = proto
         /\ Row(pri, proto, kind).kind = kind /\ ~Row(pri, proto, kind).hold
         /\ [Row(pri, proto, kind) EXCEPT !.hold = TRUE].pri = pri
         /\ [Row(pri, proto, kind) EXCEPT !.hold = TRUE].proto = proto
         /\ [Row(pri, proto, kind) EXCEPT !.hold = TRUE].kind = kind
         /\ [Row(pri, proto, kind) EXCEPT !.exact = TRUE].pri = pri
         /\ [Row(pri, proto, kind) EXCEPT !.exact = TRUE].proto = proto
         /\ [Row(pri, proto, kind) EXCEPT !.exact = TRUE].kind = kind
         /\ ~[Row(pri, proto, kind) EXCEPT !.exact = TRUE].hold
         /\ EditRow(pri, kind, set, remove).pri = pri
         /\ EditRow(pri, kind, set, remove).proto = "DMARC"
         /\ EditRow(pri, kind, set, remove).kind = kind
         /\ ~EditRow(pri, kind, set, remove).hold
         /\ [EditRow(pri, kind, set, remove) EXCEPT !.hold = TRUE].pri = pri
         /\ [EditRow(pri, kind, set, remove) EXCEPT !.hold = TRUE].proto = "DMARC"
         /\ [EditRow(pri, kind, set, remove) EXCEPT !.hold = TRUE].kind = kind
BY DEF Row, EditRow

\* No rows.
LEMMA NoRowsFit ==
  ASSUME NEW v, NEW waived
  PROVE  RowsFit(v, waived, <<>>)
<1> DEFINE s == <<>>
<1>1. s \in Seq({})
  OBVIOUS
<1> HIDE DEF s
<1>2. RowsFit(v, waived, s)
  BY <1>1 DEF RowsFit
<1> QED BY <1>2 DEF s

\* A row that is there on a condition.
LEMMA RowIfFits ==
  ASSUME NEW v, NEW waived, NEW cond, NEW row, cond => Fits(v, waived, row)
  PROVE  RowsFit(v, waived, RowIf(cond, row))
<1>1. CASE cond
  <2>1. RowIf(cond, row) = <<row>>
    BY <1>1 DEF RowIf
  <2> DEFINE S == {row}
             s == <<row>>
  <2>2. s \in Seq(S)
    OBVIOUS
  <2>3. \A r \in S : Fits(v, waived, r)
    BY <1>1
  <2> HIDE DEF S, s
  <2>4. RowsFit(v, waived, s)
    BY <2>2, <2>3 DEF RowsFit
  <2> QED BY <2>1, <2>4 DEF s
<1>2. CASE ~cond
  <2>1. RowIf(cond, row) = <<>>
    BY <1>2 DEF RowIf
  <2> QED BY <2>1, NoRowsFit
<1> QED BY <1>1, <1>2

\* Rows after rows.
LEMMA ConcatFits ==
  ASSUME NEW v, NEW waived, NEW s, NEW t, RowsFit(v, waived, s), RowsFit(v, waived, t)
  PROVE  RowsFit(v, waived, s \o t)
<1>1. PICK S : s \in Seq(S) /\ \A row \in S : Fits(v, waived, row)
  BY DEF RowsFit
<1>2. PICK T : t \in Seq(T) /\ \A row \in T : Fits(v, waived, row)
  BY DEF RowsFit
<1>3. s \in Seq(S \cup T) /\ t \in Seq(S \cup T)
  BY <1>1, <1>2, SeqMonotonic
<1>4. s \o t \in Seq(S \cup T)
  BY <1>3
<1> QED BY <1>1, <1>2, <1>4 DEF RowsFit

\* A list made row by row.
LEMMA ListFits ==
  ASSUME NEW v, NEW waived, NEW s, IsList(s), s = [i \in DOMAIN s |-> s[i]],
         \A i \in DOMAIN s : Fits(v, waived, s[i])
  PROVE  RowsFit(v, waived, s)
<1> DEFINE S == {s[i] : i \in DOMAIN s}
<1>1. PICK n \in Nat : DOMAIN s = 1..n
  BY DEF IsList
<1>2. s \in [1..n -> S]
  BY <1>1
<1>3. s \in Seq(S)
  BY <1>2
<1> QED BY <1>3 DEF RowsFit

\* The rows of a list that fits.
LEMMA FitsAt ==
  ASSUME NEW v, NEW waived, NEW s, RowsFit(v, waived, s)
  PROVE  IsList(s) /\ \A i \in DOMAIN s : Fits(v, waived, s[i])
<1>1. PICK S : s \in Seq(S) /\ \A row \in S : Fits(v, waived, row)
  BY DEF RowsFit
<1>2. Len(s) \in Nat /\ DOMAIN s = 1..Len(s)
  BY <1>1
<1>3. \A i \in DOMAIN s : s[i] \in S
  BY <1>1, <1>2, ElementOfSeq
<1> QED BY <1>1, <1>2, <1>3 DEF IsList

\* Rows sorted, or some of them left out.
LEMMA TakenFits ==
  ASSUME NEW v, NEW waived, NEW s, RowsFit(v, waived, s),
         NEW I \in SUBSET DOMAIN s, NEW key, \A i \in I : key[i] \in Nat
  PROVE  RowsFit(v, waived, Taken(s, I, key))
<1>1. IsList(s) /\ \A i \in DOMAIN s : Fits(v, waived, s[i])
  BY FitsAt
<1> DEFINE t == Taken(s, I, key)
<1>2. IsList(t) /\ \A k \in DOMAIN t : Order(I, key)[k] \in I /\ t[k] = s[Order(I, key)[k]]
  BY <1>1, TakenIs
<1>3. t = [k \in DOMAIN t |-> t[k]]
  BY DEF Taken
<1>4. \A k \in DOMAIN t : Fits(v, waived, t[k])
  BY <1>1, <1>2
<1> HIDE DEF t
<1>5. RowsFit(v, waived, t)
  BY <1>2, <1>3, <1>4, ListFits
<1> QED BY <1>5 DEF t

\* A row that edits the record of a DMARC card that was read.
LEMMA EditRowFits ==
  ASSUME NEW v, NEW waived, ~Unread(v.cards["DMARC"]), NEW cond, NEW pri, pri # "critical",
         NEW kind, kind # "edit", NEW set, NEW remove,
         cond => \A r : OwnView(v, r) => EditSays(r, v.noMail, kind, set, remove, FALSE)
  PROVE  RowsFit(v, waived, RowIf(cond, EditRow(pri, kind, set, remove)))
<1> DEFINE row == EditRow(pri, kind, set, remove)
<1>1. row.pri = pri /\ row.proto = "DMARC" /\ row.kind = kind
  BY RowFields
<1>2. row.hold = FALSE /\ row.set = set /\ row.remove = remove
  BY DEF Row, EditRow
<1> HIDE DEF row
<1>3. cond => Fits(v, waived, row)
  BY <1>1, <1>2 DEF Fits
<1>4. RowsFit(v, waived, RowIf(cond, row))
  BY <1>3, RowIfFits
<1> QED BY <1>4 DEF row

\* A plain row that is there on a condition.
LEMMA PlainRowFits ==
  ASSUME NEW v, NEW waived, NEW cond, NEW pri, NEW proto, NEW kind, kind # "edit",
         cond => ~Unread(v.cards[proto]),
         cond /\ pri = "critical" => \/ v.cards[proto].status = "fail"
                                     \/ waived /\ proto = "DKIM"
  PROVE  RowsFit(v, waived, RowIf(cond, Row(pri, proto, kind)))
<1> DEFINE row == Row(pri, proto, kind)
<1>1. row.pri = pri /\ row.proto = proto /\ row.kind = kind /\ ~row.hold
  BY RowFields
<1>2. ~row.exact
  BY DEF Row, EditRow
<1> HIDE DEF row
<1>3. cond => Fits(v, waived, row)
  BY <1>1, <1>2 DEF Fits, IsEdit
<1>4. RowsFit(v, waived, RowIf(cond, row))
  BY <1>3, RowIfFits
<1> QED BY <1>4 DEF row

\* The warnings that make a row, and the steps of the staged path.
LEMMA WarningsSay ==
  ASSUME NEW v, NEW r, OwnView(v, r)
  PROVE  /\ "No aggregate reporting" \in WarningsOf(v) => ~Has(r.rua) /\ ~v.noMail
         /\ "Missing p= tag" \in WarningsOf(v) => ~Has(r.p)
         /\ "Test mode weakens reject" \in WarningsOf(v) => r.t = "y"
         /\ "Test mode weakens np=reject" \in WarningsOf(v) => r.t = "y"
<1>1. WarningsOf(v) = AdvisoryWarnings(r, v.noMail)
  BY DEF OwnView, WarningsOf
<1> QED BY <1>1 DEF AdvisoryWarnings

\* Each step of the staged path is of one policy.
LEMMA StagedSays ==
  ASSUME NEW card, NEW d, NEW r, NEW delivery
  PROVE  /\ StagedPolicy(card, d, {r}, delivery) = "quarantine" => r.p = "none"
         /\ StagedPolicy(card, d, {r}, delivery) = "reject" => r.p = "quarantine"
BY DEF StagedPolicy

\* The edits, each as it is made.
LEMMA EditsSay ==
  ASSUME NEW r, NEW noMail
  PROVE  /\ Retired(r) =>
              EditSays(r, noMail, "retired tags", <<>>, {t \in {"pct"} : Has(r.pct)}, FALSE)
         /\ r.t = "y" => /\ EditSays(r, noMail, "test mode", <<>>, {"t"}, FALSE)
                         /\ EditSays(r, noMail, "test mode of np", <<>>, {"t"}, FALSE)
         /\ Weaker(r, "sp") => EditSays(r, noMail, "sp", [sp |-> r.p], {}, FALSE)
         /\ Weaker(r, "np") => EditSays(r, noMail, "np", [np |-> r.p], {}, FALSE)
         /\ ~Weaker(r, "sp") /\ r.p \in Enforcing /\ ~Has(r.np) =>
              EditSays(r, noMail, "add np", [np |-> IF r.sp \in Policies THEN r.sp ELSE r.p], {}, FALSE)
         /\ ~Has(r.rua) /\ ~noMail => EditSays(r, noMail, "rua", [rua |-> "mail"], {}, FALSE)
         /\ ~Has(r.p) => EditSays(r, noMail, "p", [p |-> "none"], {}, FALSE)
         /\ r.p = "none" => EditSays(r, noMail, "enforce", [p |-> "quarantine"], {}, TRUE)
         /\ r.p = "quarantine" => EditSays(r, noMail, "reject", [p |-> "reject"], {}, TRUE)
<1>1. DOMAIN <<>> = {}
  OBVIOUS
<1>2. Retired(r) => EditSays(r, noMail, "retired tags", <<>>, {t \in {"pct"} : Has(r.pct)}, FALSE)
  BY <1>1 DEF EditSays, CalledFor
<1>3. r.t = "y" => /\ EditSays(r, noMail, "test mode", <<>>, {"t"}, FALSE)
                  /\ EditSays(r, noMail, "test mode of np", <<>>, {"t"}, FALSE)
  BY <1>1 DEF EditSays, CalledFor
<1>4. Weaker(r, "np") => Has(r.np)
  BY DEF Weaker, Policies, Has
<1> USE DEF EditSays, CalledFor, Sets, Wanted
<1>5. /\ Weaker(r, "sp") => EditSays(r, noMail, "sp", [sp |-> r.p], {}, FALSE)
      /\ Weaker(r, "np") => EditSays(r, noMail, "np", [np |-> r.p], {}, FALSE)
  BY <1>4
<1>6. ~Weaker(r, "sp") /\ r.p \in Enforcing /\ ~Has(r.np) =>
        EditSays(r, noMail, "add np", [np |-> IF r.sp \in Policies THEN r.sp ELSE r.p], {}, FALSE)
  OBVIOUS
<1>7. /\ ~Has(r.rua) /\ ~noMail => EditSays(r, noMail, "rua", [rua |-> "mail"], {}, FALSE)
      /\ ~Has(r.p) => EditSays(r, noMail, "p", [p |-> "none"], {}, FALSE)
  OBVIOUS
<1>8. /\ r.p = "none" => EditSays(r, noMail, "enforce", [p |-> "quarantine"], {}, TRUE)
      /\ r.p = "quarantine" => EditSays(r, noMail, "reject", [p |-> "reject"], {}, TRUE)
  BY DEF Has
<1> HIDE DEF EditSays
<1> QED BY <1>2, <1>3, <1>5, <1>6, <1>7, <1>8

\* The rows about the policies of a record.
LEMMA PolicyRowsFit ==
  ASSUME NEW v, NEW waived, ~Unread(v.cards["DMARC"]), NEW r,
         \A x : OwnView(v, x) => x = r
  PROVE  RowsFit(v, waived, PolicyRows(v, r))
<1> DEFINE lift(tag) == Weaker(r, tag)
           covered == r.p \in Enforcing
           lowers  == \E x \in v.force : Health(x, v.noMail) = "attention"
           pri == CASE r.pct = "zero" -> "high" [] r.pct = "half" -> "medium" [] OTHER -> "low"
           a == RowIf(Retired(r), EditRow(pri, "retired tags", <<>>, {t \in {"pct"} : Has(r.pct)}))
           b == RowIf(lowers /\ "Test mode weakens reject" \in WarningsOf(v),
                      EditRow("medium", "test mode", <<>>, {"t"}))
           c == RowIf(lowers /\ "Test mode weakens np=reject" \in WarningsOf(v),
                      EditRow("medium", "test mode of np", <<>>, {"t"}))
           d == RowIf(lift("sp"), EditRow("high", "sp", [sp |-> r.p], {}))
           e == RowIf(lift("np"), EditRow("high", "np", [np |-> r.p], {}))
           f == RowIf(~lift("sp") /\ covered /\ ~Has(r.np),
                      EditRow("low", "add np", [np |-> IF r.sp \in Policies THEN r.sp ELSE r.p], {}))
<1>1. PolicyRows(v, r) = a \o b \o c \o d \o e \o f
  BY DEF PolicyRows
<1>2. pri # "critical"
  OBVIOUS
<1> HIDE DEF pri, lowers
<1>3. RowsFit(v, waived, a)
  BY <1>2, EditRowFits, EditsSay
<1>4. RowsFit(v, waived, b)
  BY EditRowFits, EditsSay, WarningsSay
<1>5. RowsFit(v, waived, c)
  BY EditRowFits, EditsSay, WarningsSay
<1>6. RowsFit(v, waived, d)
  BY EditRowFits, EditsSay
<1>7. RowsFit(v, waived, e)
  BY EditRowFits, EditsSay
<1>8. RowsFit(v, waived, f)
  BY EditRowFits, EditsSay
<1> HIDE DEF a, b, c, d, e, f
<1>9. RowsFit(v, waived, a \o b \o c \o d \o e \o f)
  BY <1>3, <1>4, <1>5, <1>6, <1>7, <1>8, ConcatFits
<1> QED BY <1>1, <1>9

\* All the rows about DMARC.
LEMMA DmarcRowsFit ==
  ASSUME NEW v, NEW waived, Backed(v, waived)
  PROVE  RowsFit(v, waived, DmarcRows(v))
<1> DEFINE card   == v.cards["DMARC"]
           r      == CHOOSE x \in v.shown : TRUE
           shown  == v.shown # {} /\ card.status # "unavailable"
           health == HealthOf(v)
           staged == IF v.inherited \/ ~shown THEN "none of its own"
                     ELSE StagedPolicy(card, v.dmarc, v.shown, v.delivery)
           pNone  == shown /\ r.p = "none"
           move(pri, kind, p) ==
             IF staged = p THEN [EditRow(pri, kind, [p |-> p], {}) EXCEPT !.hold = TRUE]
             ELSE [Row(pri, "DMARC", kind) EXCEPT !.hold = TRUE]
           missing == card.status = "fail" /\ card.label = "Missing"
           below   == ~v.delivery /\ (health = "monitoring" \/ (health = "attention" /\ pNone))
           a == RowIf(missing, [Row("critical", "DMARC", "missing") EXCEPT !.exact = TRUE])
           b == RowIf(card.label = "Multiple records", Row("critical", "DMARC", "several records"))
           c == RowIf("No aggregate reporting" \in WarningsOf(v) /\ shown,
                      EditRow("high", "rua", [rua |-> "mail"], {}))
           d == RowIf("Missing p= tag" \in WarningsOf(v) /\ shown, EditRow("high", "p", [p |-> "none"], {}))
           e == RowIf(\E x \in v.dmarc.destinations : x.authorized = "no",
                      Row("high", "DMARC", "unauthorized destination"))
           f == RowIf(below, move("high", "enforce", "quarantine"))
           g == RowIf(staged = "reject", move("low", "reject", "reject"))
           h == IF shown THEN PolicyRows(v, r) ELSE <<>>
<1>1. DmarcRows(v) = a \o b \o c \o d \o e \o f \o g \o h
  BY DEF DmarcRows
<1>2. /\ shown => ~Unread(card)
      /\ health # "none" => v.force # {}
      /\ staged = "reject" => shown
  BY DEF Unread, HealthOf
<1>3. DmarcBacked(v)
  BY DEF Backed
<1>4. card.status = "fail" => ~Unread(card)
  BY DEF Unread
<1>5. ASSUME NEW pri, pri # "critical", NEW kind, kind # "edit", NEW p, ~Unread(card),
             \A x : OwnView(v, x) /\ staged = p => EditSays(x, v.noMail, kind, [p |-> p], {}, TRUE)
      PROVE  Fits(v, waived, move(pri, kind, p))
  <2> DEFINE x == [EditRow(pri, kind, [p |-> p], {}) EXCEPT !.hold = TRUE]
             y == [Row(pri, "DMARC", kind) EXCEPT !.hold = TRUE]
  <2> DEFINE set == [p |-> p]
             none == {}
  <2>1. x.pri = pri /\ x.proto = "DMARC" /\ x.kind = kind
    BY RowFields
  <2>2. y.pri = pri /\ y.proto = "DMARC" /\ y.kind = kind
    BY RowFields
  <2>3. x.set = set /\ x.remove = none /\ x.hold = TRUE /\ ~y.exact
    BY DEF Row, EditRow
  <2>4. (staged = p /\ move(pri, kind, p) = x) \/ move(pri, kind, p) = y
    OBVIOUS
  <2>5. \A z : OwnView(v, z) /\ staged = p => EditSays(z, v.noMail, kind, set, none, TRUE)
    BY <1>5
  <2> HIDE DEF x, y, move, staged, set, none
  <2> QED BY <1>5, <2>1, <2>2, <2>4, <2>5, <2>3 DEF Fits, IsEdit
<1>6. \A x : OwnView(v, x) =>
          /\ x = r
          /\ staged = "quarantine" => x.p = "none"
          /\ staged = "reject" => x.p = "quarantine"
  <2> SUFFICES ASSUME NEW x, OwnView(v, x)
               PROVE  /\ x = r
                      /\ staged = "quarantine" => x.p = "none"
                      /\ staged = "reject" => x.p = "quarantine"
    OBVIOUS
  <2>1. v.shown = {x}
    BY DEF OwnView
  <2> QED BY <2>1, StagedSays
<1>7. RowsFit(v, waived, a)
  <2> DEFINE row == [Row("critical", "DMARC", "missing") EXCEPT !.exact = TRUE]
  <2>1. row.pri = "critical" /\ row.proto = "DMARC" /\ row.kind = "missing" /\ ~row.hold
    BY RowFields
  <2> HIDE DEF row
  <2>2. missing => Fits(v, waived, row)
    BY <1>4, <2>1 DEF Fits, IsEdit
  <2> HIDE DEF missing
  <2> QED BY <2>2, RowIfFits DEF row
<1>8. RowsFit(v, waived, b)
  BY <1>3, <1>4, PlainRowFits DEF DmarcBacked
<1>9. RowsFit(v, waived, c) /\ RowsFit(v, waived, d)
  <2>1. CASE shown
    <3>1. ~Unread(card)
      BY <1>2, <2>1
    <3> HIDE DEF shown
    <3> QED BY <3>1, EditRowFits, EditsSay, WarningsSay
  <2>2. CASE ~shown
    <3>1. c = <<>> /\ d = <<>>
      BY <2>2 DEF RowIf
    <3> QED BY <3>1, NoRowsFit
  <2> QED BY <2>1, <2>2
<1>10. RowsFit(v, waived, e)
  BY <1>3, PlainRowFits DEF DmarcBacked
<1>11. RowsFit(v, waived, f)
  <2>1. below => ~Unread(card)
    BY <1>2, <1>3 DEF DmarcBacked
  <2>2. below => Fits(v, waived, move("high", "enforce", "quarantine"))
    <3>1. \A x : OwnView(v, x) /\ staged = "quarantine" =>
                  EditSays(x, v.noMail, "enforce", [p |-> "quarantine"], {}, TRUE)
      BY <1>6, EditsSay
    <3> HIDE DEF below, move, staged
    <3> QED BY <1>5, <2>1, <3>1
  <2> HIDE DEF below, move
  <2> QED BY <2>2, RowIfFits
<1>12. RowsFit(v, waived, g)
  <2>1. staged = "reject" => ~Unread(card)
    BY <1>2
  <2>2. staged = "reject" => Fits(v, waived, move("low", "reject", "reject"))
    <3>1. \A x : OwnView(v, x) /\ staged = "reject" =>
                  EditSays(x, v.noMail, "reject", [p |-> "reject"], {}, TRUE)
      BY <1>6, EditsSay
    <3> HIDE DEF staged, move
    <3> QED BY <1>5, <2>1, <3>1
  <2> HIDE DEF staged, move
  <2> QED BY <2>2, RowIfFits
<1>13. RowsFit(v, waived, h)
  <2>1. CASE shown
    BY <1>2, <1>6, <2>1, PolicyRowsFit
  <2>2. CASE ~shown
    <3>1. h = <<>>
      BY <2>2
    <3> QED BY <3>1, NoRowsFit
  <2> QED BY <2>1, <2>2
<1> HIDE DEF a, b, c, d, e, f, g, h
<1>14. RowsFit(v, waived, a \o b \o c \o d \o e \o f \o g \o h)
  BY <1>7, <1>8, <1>9, <1>10, <1>11, <1>12, <1>13, ConcatFits
<1> QED BY <1>1, <1>14

\* The rows about SPF.
LEMMA SpfRowsFit ==
  ASSUME NEW v, NEW waived, Backed(v, waived)
  PROVE  RowsFit(v, waived, SpfRows(v))
<1> DEFINE card == v.cards["SPF"]
           a == RowIf(card.status = "fail" /\ card.label = "Missing", Row("critical", "SPF", "missing"))
           b == RowIf(card.label = "Multiple records", Row("critical", "SPF", "several records"))
           c == RowIf(v.spf.open, Row("critical", "SPF", "open"))
           d == RowIf(v.spf.band = "over", Row("critical", "SPF", "lookups"))
           e == RowIf(v.spf.band = "near", Row("medium", "SPF", "lookups"))
<1>1. SpfRows(v) = a \o b \o c \o d \o e
  BY DEF SpfRows
<1>2. SpfBacked(v)
  BY DEF Backed
<1>3. card.status = "fail" => ~Unread(card)
  BY DEF Unread
<1>4. RowsFit(v, waived, a)
  BY <1>3, PlainRowFits
<1>5. RowsFit(v, waived, b)
  BY <1>2, <1>3, PlainRowFits DEF SpfBacked
<1>6. RowsFit(v, waived, c)
  BY <1>2, <1>3, PlainRowFits DEF SpfBacked
<1>7. RowsFit(v, waived, d)
  BY <1>2, <1>3, PlainRowFits DEF SpfBacked
<1>8. RowsFit(v, waived, e)
  BY <1>2, PlainRowFits DEF SpfBacked
<1> HIDE DEF a, b, c, d, e
<1>9. RowsFit(v, waived, a \o b \o c \o d \o e)
  BY <1>4, <1>5, <1>6, <1>7, <1>8, ConcatFits
<1> QED BY <1>1, <1>9

\* The rows about DKIM.
LEMMA DkimRowsFit ==
  ASSUME NEW v, NEW waived, Backed(v, waived)
  PROVE  RowsFit(v, waived, DkimRows(v))
<1> DEFINE keys  == {s.record : s \in Live(v.dkim.found)}
           flaws == UNION {r.flaws : r \in keys}
           I     == {i \in DOMAIN DkimFlaws : DkimFlaws[i] \in flaws}
           seen  == Kept(DkimFlaws, I)
           flaw(d) == Row(IF d \in UnusableFlaws THEN "critical" ELSE "medium", "DKIM", d)
           rows  == [i \in DOMAIN seen |-> flaw(seen[i])]
           a == RowIf("unregistered" \in v.dkim.dangling, Row("critical", "DKIM", "unregistered"))
           c == RowIf(\E r \in keys : Strength(r) = "invalid", Row("critical", "DKIM", "invalid key"))
           d == RowIf(\E r \in keys : Strength(r) = "weak", Row("high", "DKIM", "weak key"))
<1>1. DkimRows(v) = a \o rows \o c \o d
  BY DEF DkimRows
<1>2. DkimBacked(v, waived)
  BY DEF Backed
<1>3. keys # {} => v.dkim.found # {}
  BY DEF Live
<1>4. RowsFit(v, waived, a)
  BY <1>2, PlainRowFits DEF DkimBacked, SelectorBroken
<1>5. RowsFit(v, waived, c)
  <2>1. (\E r \in keys : Strength(r) = "invalid") => SelectorBroken(v) /\ v.dkim.found # {}
    BY <1>3 DEF SelectorBroken, Ignored
  <2> HIDE DEF keys
  <2> QED BY <1>2, <2>1, PlainRowFits DEF DkimBacked
<1>6. RowsFit(v, waived, d)
  <2> HIDE DEF keys
  <2> QED BY <1>2, <1>3, PlainRowFits DEF DkimBacked
<1>7. RowsFit(v, waived, rows)
  <2>1. /\ IsList(DkimFlaws)
        /\ \A i \in DOMAIN DkimFlaws : DkimFlaws[i] # "edit"
    <3>1. DOMAIN DkimFlaws = 1..7 /\ \A i \in 1..7 : DkimFlaws[i] # "edit"
      BY DEF DkimFlaws
    <3> QED BY <3>1 DEF IsList
  <2>2. PICK order : /\ IsList(seen)
                     /\ \A k \in DOMAIN seen : order[k] \in I /\ seen[k] = DkimFlaws[order[k]]
    <3>1. I \in SUBSET DOMAIN DkimFlaws
      OBVIOUS
    <3> HIDE DEF I
    <3> QED BY <2>1, <3>1, KeptIs
  <2>3. \A k \in DOMAIN seen : seen[k] \in flaws /\ seen[k] # "edit"
    BY <2>1, <2>2
  <2>4. \A x \in flaws : v.dkim.found # {} /\ (x \in UnusableFlaws => SelectorBroken(v))
    BY <1>3 DEF SelectorBroken, Ignored, IsUnusable
  <2>5. ASSUME NEW k \in DOMAIN rows
        PROVE  Fits(v, waived, rows[k])
    <3> DEFINE x   == seen[k]
               pri == IF x \in UnusableFlaws THEN "critical" ELSE "medium"
    <3>1. rows[k] = Row(pri, "DKIM", x)
      OBVIOUS
    <3>2. x # "edit" /\ ~Unread(v.cards["DKIM"])
      BY <1>2, <2>3, <2>4 DEF DkimBacked
    <3>3. pri = "critical" => waived \/ v.cards["DKIM"].status = "fail"
      BY <1>2, <2>3, <2>4 DEF DkimBacked
    <3> HIDE DEF pri, x, rows
    <3>4. Row(pri, "DKIM", x).pri = pri /\ Row(pri, "DKIM", x).proto = "DKIM"
          /\ Row(pri, "DKIM", x).kind = x /\ ~Row(pri, "DKIM", x).hold
      BY RowFields
    <3>5. ~Row(pri, "DKIM", x).exact
      BY DEF Row, EditRow
    <3> QED BY <3>1, <3>2, <3>3, <3>4, <3>5 DEF Fits, IsEdit
  <2>6. DOMAIN rows = DOMAIN seen
    OBVIOUS
  <2>7. rows = [i \in DOMAIN rows |-> rows[i]]
    OBVIOUS
  <2> HIDE DEF rows, seen
  <2>8. IsList(rows)
    BY <2>2, <2>6 DEF IsList
  <2> QED BY <2>5, <2>7, <2>8, ListFits
<1> HIDE DEF a, rows, c, d
<1>8. RowsFit(v, waived, a \o rows \o c \o d)
  BY <1>4, <1>5, <1>6, <1>7, ConcatFits
<1> QED BY <1>1, <1>8

\* The rows about the other checks.
LEMMA OptionalRowsFit ==
  ASSUME NEW v, NEW waived, Backed(v, waived)
  PROVE  RowsFit(v, waived, OptionalRows(v))
<1> DEFINE absent(name) == v.hasMx /\ v.cards[name].status = "absent"
                           /\ v.cards[name].label = "Not configured"
           ns   == v.cards["Nameservers"].status
           bimi == v.cards["BIMI"]
           a == RowIf(ns = "fail", Row("high", "Nameservers", "nameservers"))
           b == RowIf(ns = "warn", Row("medium", "Nameservers", "nameservers"))
           c == RowIf(absent("MTA-STS"), Row("medium", "MTA-STS", "absent"))
           d == RowIf(absent("TLS-RPT"), Row("medium", "TLS-RPT", "absent"))
           e == RowIf(v.hasMx /\ v.cards["TLS-RPT"].status = "fail", Row("medium", "TLS-RPT", "broken"))
           f == RowIf(absent("DANE"), Row("medium", "DANE", "absent"))
           g == RowIf(bimi.label = "published" /\ bimi.status # "pass", Row("low", "BIMI", "bimi"))
<1>1. OptionalRows(v) = a \o b \o c \o d \o e \o f \o g
  BY DEF OptionalRows
<1>2. /\ ns = "fail" => ~Unread(v.cards["Nameservers"])
      /\ ns = "warn" => ~Unread(v.cards["Nameservers"])
      /\ absent("MTA-STS") => ~Unread(v.cards["MTA-STS"])
      /\ absent("TLS-RPT") => ~Unread(v.cards["TLS-RPT"])
      /\ v.hasMx /\ v.cards["TLS-RPT"].status = "fail" => ~Unread(v.cards["TLS-RPT"])
      /\ absent("DANE") => ~Unread(v.cards["DANE"])
  BY DEF Unread
<1>3. RowsFit(v, waived, a)
  BY <1>2, PlainRowFits
<1>4. RowsFit(v, waived, b)
  BY <1>2, PlainRowFits
<1>5. RowsFit(v, waived, c)
  BY <1>2, PlainRowFits
<1>6. RowsFit(v, waived, d)
  BY <1>2, PlainRowFits
<1>7. RowsFit(v, waived, e)
  BY <1>2, PlainRowFits
<1>8. RowsFit(v, waived, f)
  BY <1>2, PlainRowFits
<1>9. RowsFit(v, waived, g)
  BY PlainRowFits DEF Backed, BimiBacked
<1> HIDE DEF a, b, c, d, e, f, g
<1>10. RowsFit(v, waived, a \o b \o c \o d \o e \o f \o g)
  BY <1>3, <1>4, <1>5, <1>6, <1>7, <1>8, <1>9, ConcatFits
<1> QED BY <1>1, <1>10

\* The rows of the cards that fail or warn and have no row of their own.
LEMMA CardRowsFit ==
  ASSUME NEW v, NEW waived, NEW rules
  PROVE  RowsFit(v, waived, CardRows(v, rules))
<1> DEFINE covered == {rules[i].proto : i \in DOMAIN rules}
           bare(name) == name \notin covered /\ v.cards[name].status \in {"fail", "warn"}
           row(name)  == Row(IF v.cards[name].status = "fail" THEN "high" ELSE "low", name, "card")
           I     == {i \in DOMAIN Protocols : bare(Protocols[i])}
           names == Kept(Protocols, I)
           rows  == [i \in DOMAIN names |-> row(names[i])]
<1>1. CardRows(v, rules) = rows
  BY DEF CardRows
<1>2. IsList(Protocols)
  <2>1. DOMAIN Protocols = 1..12
    BY DEF Protocols
  <2> QED BY <2>1 DEF IsList
<1>3. PICK order : /\ IsList(names)
                   /\ \A k \in DOMAIN names : order[k] \in I /\ names[k] = Protocols[order[k]]
  <2>1. I \in SUBSET DOMAIN Protocols
    OBVIOUS
  <2> HIDE DEF I
  <2> QED BY <1>2, <2>1, KeptIs
<1>4. \A k \in DOMAIN names : v.cards[names[k]].status \in {"fail", "warn"}
  BY <1>3
<1>5. ASSUME NEW k \in DOMAIN rows
      PROVE  Fits(v, waived, rows[k])
  <2> DEFINE name == names[k]
             pri  == IF v.cards[name].status = "fail" THEN "high" ELSE "low"
  <2>1. rows[k] = Row(pri, name, "card")
    OBVIOUS
  <2>2. pri # "critical" /\ ~Unread(v.cards[name])
    BY <1>4 DEF Unread
  <2> HIDE DEF name, pri, rows
  <2>3. Row(pri, name, "card").pri = pri /\ Row(pri, name, "card").proto = name
        /\ Row(pri, name, "card").kind = "card" /\ ~Row(pri, name, "card").hold
    BY RowFields
  <2>4. ~Row(pri, name, "card").exact
    BY DEF Row, EditRow
  <2> QED BY <2>1, <2>2, <2>3, <2>4 DEF Fits, IsEdit
<1>6. DOMAIN rows = DOMAIN names /\ rows = [i \in DOMAIN rows |-> rows[i]]
  OBVIOUS
<1> HIDE DEF rows, names
<1>7. IsList(rows)
  BY <1>3, <1>6 DEF IsList
<1>8. RowsFit(v, waived, rows)
  BY <1>5, <1>6, <1>7, ListFits
<1> QED BY <1>1, <1>8

\* A policy of the parent's leaves one row about DMARC.
LEMMA InheritanceFits ==
  ASSUME NEW v, NEW waived, NEW rows, RowsFit(v, waived, rows)
  PROVE  RowsFit(v, waived, Inheritance(v, rows))
<1> DEFINE others == {i \in DOMAIN rows : rows[i].proto # "DMARC"}
           one == Row("low", "DMARC", "change it at the parent")
           few == Kept(rows, others)
<1>1. CASE v.inherited /\ v.policy = "reject" /\ others # DOMAIN rows
  <2>1. Inheritance(v, rows) = few \o <<one>>
    BY <1>1 DEF Inheritance
  <2>2. PICK k \in DOMAIN rows : rows[k].proto = "DMARC"
    BY <1>1
  <2>3. ~Unread(v.cards["DMARC"])
    BY <2>2, FitsAt DEF Fits
  <2>4. RowsFit(v, waived, RowIf(TRUE, one))
    BY <2>3, PlainRowFits
  <2>5. RowIf(TRUE, one) = <<one>>
    BY DEF RowIf
  <2>6. RowsFit(v, waived, few)
    <3> DEFINE key == [i \in others |-> 0]
    <3>1. \A i \in others : key[i] \in Nat
      OBVIOUS
    <3>2. few = Taken(rows, others, key)
      BY DEF Kept
    <3>3. others \in SUBSET DOMAIN rows
      OBVIOUS
    <3> HIDE DEF key, others, few
    <3> QED BY <3>1, <3>2, <3>3, TakenFits
  <2> HIDE DEF one, few
  <2>7. RowsFit(v, waived, few \o <<one>>)
    BY <2>4, <2>5, <2>6, ConcatFits
  <2> QED BY <2>1, <2>7
<1>2. CASE ~(v.inherited /\ v.policy = "reject" /\ others # DOMAIN rows)
  BY <1>2 DEF Inheritance
<1> QED BY <1>1, <1>2

\* The key of the plan's order is a number.
LEMMA SortKeyType ==
  ASSUME NEW v, NEW row
  PROVE  SortKey(v, row) \in Nat
<1>1. PriorityRank(row.pri) \in Nat
  BY DEF PriorityRank
<1>2. StatusRank(v.cards[row.proto].status) \in Nat
  BY DEF StatusRank
<1>3. ProtocolRank(row.proto) \in Nat
  BY DEF ProtocolRank
<1>4. (IF Transient(v, row) THEN 1 ELSE 0) \in Nat
  OBVIOUS
<1> QED BY <1>1, <1>2, <1>3, <1>4 DEF SortKey

\* The plan's rows are backed by its cards.
LEMMA RoadmapFits ==
  ASSUME NEW v, NEW waived, Backed(v, waived)
  PROVE  RowsFit(v, waived, Roadmap(v))
<1> DEFINE rules == RowsOfRules(v)
           rows  == WithCardRows(v, rules)
           key   == [i \in DOMAIN rows |-> SortKey(v, rows[i])]
<1>1. RowsFit(v, waived, rules)
  BY DmarcRowsFit, SpfRowsFit, DkimRowsFit, OptionalRowsFit, ConcatFits DEF RowsOfRules
<1>2. RowsFit(v, waived, rows)
  <2> HIDE DEF rules
  <2>1. RowsFit(v, waived, rules \o CardRows(v, rules))
    BY <1>1, CardRowsFit, ConcatFits
  <2> QED BY <2>1, InheritanceFits DEF WithCardRows
<1> HIDE DEF rules, rows
<1>3. \A i \in DOMAIN rows : key[i] \in Nat
  BY SortKeyType
<1>4. Sorted(v, rows) = Taken(rows, DOMAIN rows, key)
  BY DEF Sorted, Reordered
<1> HIDE DEF key
<1>5. RowsFit(v, waived, Taken(rows, DOMAIN rows, key))
  BY <1>2, <1>3, TakenFits
<1> QED BY <1>4, <1>5 DEF Roadmap, rows, rules

\* A set of places has a first one.
LEMMA FirstPlace ==
  ASSUME NEW I, IsFiniteSet(I), I \subseteq Nat, I # {}
  PROVE  \E i \in I : \A k \in I : i <= k
<1> DEFINE key   == [i \in I |-> 0]
           n     == Cardinality(I)
           order == Order(I, key)
<1>1. n \in Nat /\ n # 0
  BY FS_CardinalityType, FS_EmptySet
<1>2. \A i \in I : key[i] = 0
  OBVIOUS
<1> HIDE DEF key
<1>3. /\ \A k \in 1..n : order[k] \in I
      /\ \A i \in I : \E k \in 1..n : order[k] = i
      /\ \A k \in 1..n : \A l \in 1..n :
           k < l => order[k] # order[l] /\ NotAfter(key, order[k], order[l])
  <2>1. \A i \in I : key[i] \in Nat
    BY <1>2
  <2> QED BY <2>1, OrderSorts, Zenon
<1> HIDE DEF n, order
<1>4. 1 \in 1..n
  BY <1>1
<1>5. ASSUME NEW i \in I
      PROVE  order[1] <= i
  <2>1. PICK k \in 1..n : order[k] = i
    BY <1>3
  <2>2. CASE k = 1
    BY <1>3, <1>4, <2>1, <2>2
  <2>3. CASE k # 1
    <3>1. 1 < k
      BY <1>1, <2>3
    <3>2. NotAfter(key, order[1], i)
      BY <1>3, <1>4, <2>1, <3>1
    <3>3. order[1] \in I
      BY <1>3, <1>4
    <3>4. key[order[1]] = 0 /\ key[i] = 0
      BY <1>2, <1>5, <3>3
    <3> QED BY <3>2, <3>4 DEF NotAfter
  <2> QED BY <2>2, <2>3
<1> QED BY <1>3, <1>4, <1>5

\* The entry of the DMARC record is one edit of it.
LEMMA DmarcEntryIs ==
  ASSUME NEW v, NEW rows
  PROVE  DmarcEntry(v, rows).proto = "DMARC" /\ DmarcEntry(v, rows).kind = "edit"
<1> DEFINE edits == {i \in DOMAIN rows : IsEdit(rows[i])}
           r     == CHOOSE x \in v.shown : TRUE
           value == Edit(r, MergedSet(rows, edits), UNION {rows[i].remove : i \in edits})
           hold  == \E i \in edits : rows[i].hold
           rises == MakesEnforcing(r, value)
<1>1. DmarcEntry(v, rows) = [proto |-> "DMARC", kind |-> "edit", value |-> {value},
                             enforcing |-> hold \/ rises]
  BY DEF DmarcEntry
<1> HIDE DEF value, hold, rises
<1> QED BY <1>1

\* Every record of the plan has its entry, and the edits of the DMARC record share one.
LEMMA EntriesCarry ==
  ASSUME NEW v, NEW waived, NEW rows, IsList(rows), \A i \in DOMAIN rows : Fits(v, waived, rows[i])
  PROVE  /\ IsChangeSet(Entries(v, rows))
         /\ \A i \in DOMAIN rows :
              PublishesRecord(v, rows[i]) =>
                Publishes(Entries(v, rows), rows[i].proto,
                          IF IsEdit(rows[i]) THEN "edit" ELSE rows[i].kind)
<1> DEFINE I    == Publishing(v, rows)
           kept == Kept(rows, I)
           made == Entries(v, rows)
           all  == {i \in DOMAIN rows : PublishesRecord(v, rows[i])}
           edits == {i \in all : IsEdit(rows[i])}
<1>1. made = [k \in DOMAIN kept |-> IF IsEdit(kept[k]) THEN DmarcEntry(v, rows) ELSE Entry(kept[k], {})]
  BY DEF Entries
<1>2. /\ I \subseteq all /\ all \subseteq DOMAIN rows /\ edits \subseteq all
      /\ \A i \in all \ edits : i \in I
      /\ \A i \in edits : i \in I <=> \A k \in edits : ~(k < i)
  BY DEF Publishing
<1>3. \A i \in DOMAIN rows : i \in Nat
  BY DEF IsList
<1>4. PICK order : /\ IsList(kept)
                   /\ \A k \in DOMAIN kept : order[k] \in I /\ kept[k] = rows[order[k]]
                   /\ \A i \in I : \E k \in DOMAIN kept : order[k] = i
                   /\ \A k \in DOMAIN kept : \A l \in DOMAIN kept : k < l => order[k] # order[l]
  <2>1. I \in SUBSET DOMAIN rows
    BY <1>2
  <2> HIDE DEF I
  <2> QED BY <2>1, KeptIs
<1>5. DOMAIN kept \subseteq Nat
  BY <1>4 DEF IsList
<1> HIDE DEF I, kept, made
<1>6. DOMAIN made = DOMAIN kept
  BY <1>1
<1>7. ASSUME NEW k \in DOMAIN kept, IsEdit(kept[k])
      PROVE  made[k].proto = "DMARC" /\ made[k].kind = "edit" /\ order[k] \in edits
  <2>1. made[k] = DmarcEntry(v, rows)
    BY <1>1, <1>7
  <2>2. made[k].proto = "DMARC" /\ made[k].kind = "edit"
    BY <2>1, DmarcEntryIs
  <2>3. order[k] \in all /\ IsEdit(rows[order[k]])
    BY <1>2, <1>4, <1>7
  <2> QED BY <2>2, <2>3
<1>8. ASSUME NEW k \in DOMAIN kept, ~IsEdit(kept[k])
      PROVE  /\ made[k].proto = kept[k].proto /\ made[k].kind = kept[k].kind
             /\ made[k].kind # "edit"
             /\ made[k].enforcing => made[k].proto = "DMARC"
  <2>1. made[k] = Entry(kept[k], {})
    BY <1>1, <1>8
  <2>2. Fits(v, waived, kept[k])
    BY <1>2, <1>4
  <2> QED BY <2>1, <2>2 DEF Entry, Fits
<1>9. OnlyDmarcEnforces(made)
  BY <1>6, <1>7, <1>8 DEF OnlyDmarcEnforces
<1>10. OneEdit(made)
  <2> SUFFICES ASSUME NEW j \in DOMAIN kept, NEW k \in DOMAIN kept,
                      made[j].kind = "edit", made[k].kind = "edit"
               PROVE  j = k
    BY <1>6 DEF OneEdit
  <2>1. order[j] \in edits /\ order[k] \in edits
    BY <1>7, <1>8
  <2>2. order[j] \in I /\ order[k] \in I
    BY <1>4
  <2>3. order[j] \in Nat /\ order[k] \in Nat
    BY <1>2, <1>3, <2>1
  <2>4. ~(order[j] < order[k]) /\ ~(order[k] < order[j])
    BY <1>2, <2>1, <2>2
  <2>5. order[j] = order[k]
    BY <2>3, <2>4
  <2>6. j \in Nat /\ k \in Nat
    BY <1>5
  <2> QED BY <1>4, <2>5, <2>6
<1>11. ASSUME NEW i \in DOMAIN rows, PublishesRecord(v, rows[i])
       PROVE  Publishes(made, rows[i].proto, IF IsEdit(rows[i]) THEN "edit" ELSE rows[i].kind)
  <2>1. CASE ~IsEdit(rows[i])
    <3>1. i \in I
      BY <1>2, <1>11, <2>1
    <3>2. PICK k \in DOMAIN kept : order[k] = i
      BY <1>4, <3>1
    <3>3. kept[k] = rows[i]
      BY <1>4, <3>2
    <3>4. made[k].proto = rows[i].proto /\ made[k].kind = rows[i].kind
      BY <1>8, <2>1, <3>3
    <3> QED BY <1>6, <2>1, <3>4 DEF Publishes
  <2>2. CASE IsEdit(rows[i])
    <3>1. i \in edits
      BY <1>11, <2>2
    <3>2. IsFiniteSet(edits) /\ edits \subseteq Nat
      <4>1. PICK n \in Nat : DOMAIN rows = 1..n
        BY DEF IsList
      <4>2. IsFiniteSet(1..n)
        BY FS_Interval
      <4>3. edits \in SUBSET (1..n)
        BY <1>2, <4>1
      <4> HIDE DEF edits
      <4>4. IsFiniteSet(edits)
        BY <4>2, <4>3, FS_Subset
      <4> QED BY <4>3, <4>4
    <3> HIDE DEF edits
    <3>3. PICK f \in edits : \A k \in edits : f <= k
      BY <3>1, <3>2, FirstPlace
    <3>4. f \in I
      <4>1. \A k \in edits : ~(k < f)
        BY <3>2, <3>3
      <4> QED BY <1>2, <4>1
    <3>5. PICK k \in DOMAIN kept : order[k] = f
      BY <1>4, <3>4
    <3>6. IsEdit(kept[k])
      BY <1>4, <3>3, <3>5 DEF edits
    <3>7. made[k].proto = "DMARC" /\ made[k].kind = "edit"
      BY <1>7, <3>6
    <3>8. rows[i].proto = "DMARC"
      BY <2>2 DEF IsEdit
    <3> QED BY <1>6, <2>2, <3>7, <3>8 DEF Publishes
  <2> QED BY <2>1, <2>2
<1>12. IsList(made)
  BY <1>4, <1>6 DEF IsList
<1> QED BY <1>9, <1>10, <1>11, <1>12 DEF IsChangeSet, made

\* The change set carries the plan out.
LEMMA ChangeSetCarries ==
  ASSUME NEW v, NEW waived, NEW rows, RowsFit(v, waived, rows)
  PROVE  /\ IsChangeSet(ChangeSet(v, rows))
         /\ ReportsBefore(ChangeSet(v, rows))
         /\ SendersBefore(ChangeSet(v, rows))
         /\ \A i \in DOMAIN rows :
              PublishesRecord(v, rows[i]) =>
                Publishes(ChangeSet(v, rows), rows[i].proto,
                          IF IsEdit(rows[i]) THEN "edit" ELSE rows[i].kind)
<1> DEFINE key  == [i \in DOMAIN rows |-> IF Optional(v, rows[i]) THEN 1 ELSE 0]
           some == Reordered(rows, key)
           made == Entries(v, some)
           late == OwnersCallLast(made)
           rpts == ReportsFirst(late)
<1>1. ChangeSet(v, rows) = SendersFirst(rpts)
  BY DEF ChangeSet
<1>2. IsList(rows) /\ \A i \in DOMAIN rows : Fits(v, waived, rows[i])
  BY FitsAt
<1>3. \A i \in DOMAIN rows : key[i] \in Nat
  OBVIOUS
<1> HIDE DEF key
<1>4. /\ IsList(some)
      /\ \A k \in DOMAIN some : Order(DOMAIN rows, key)[k] \in DOMAIN rows
                                /\ some[k] = rows[Order(DOMAIN rows, key)[k]]
      /\ \A i \in DOMAIN rows : \E k \in DOMAIN some : Order(DOMAIN rows, key)[k] = i
  BY <1>2, <1>3, ReorderedIs
<1> HIDE DEF some
<1>5. \A k \in DOMAIN some : Fits(v, waived, some[k])
  BY <1>2, <1>4
<1>6. /\ IsChangeSet(made)
      /\ \A k \in DOMAIN some :
           PublishesRecord(v, some[k]) =>
             Publishes(made, some[k].proto, IF IsEdit(some[k]) THEN "edit" ELSE some[k].kind)
  BY <1>4, <1>5, EntriesCarry
<1> HIDE DEF made
<1>7. /\ IsChangeSet(late)
      /\ \A proto : \A kind : Publishes(made, proto, kind) => Publishes(late, proto, kind)
  <2> DEFINE edits == {i \in DOMAIN made : made[i].kind = "edit"}
             class(i) == IF \E k \in edits : k < i THEN 2
                         ELSE IF edits # {} /\ OwnersCall(made[i]) THEN 1 ELSE 0
             order == [i \in DOMAIN made |-> class(i)]
  <2>1. late = Reordered(made, order)
    BY DEF OwnersCallLast
  <2>2. \A i \in DOMAIN made : order[i] \in Nat
    OBVIOUS
  <2> HIDE DEF order
  <2> QED BY <1>6, <2>1, <2>2, ReorderKeeps
<1> HIDE DEF late
<1>8. /\ IsChangeSet(rpts) /\ ReportsBefore(rpts)
      /\ \A proto : \A kind : Publishes(late, proto, kind) => Publishes(rpts, proto, kind)
  BY <1>7, ReportsGoFirst
<1> HIDE DEF rpts
<1>9. /\ IsChangeSet(SendersFirst(rpts)) /\ ReportsBefore(SendersFirst(rpts))
      /\ SendersBefore(SendersFirst(rpts))
      /\ \A proto : \A kind : Publishes(rpts, proto, kind) => Publishes(SendersFirst(rpts), proto, kind)
  BY <1>8, SendersGoFirst
<1>10. ASSUME NEW i \in DOMAIN rows, PublishesRecord(v, rows[i])
       PROVE  Publishes(SendersFirst(rpts), rows[i].proto,
                        IF IsEdit(rows[i]) THEN "edit" ELSE rows[i].kind)
  <2> DEFINE kind == IF IsEdit(rows[i]) THEN "edit" ELSE rows[i].kind
  <2>1. PICK k \in DOMAIN some : some[k] = rows[i]
    BY <1>4
  <2>2. Publishes(made, rows[i].proto, kind)
    BY <1>6, <1>10, <2>1
  <2> HIDE DEF kind
  <2> QED BY <1>7, <1>8, <1>9, <2>2 DEF kind
<1> QED BY <1>1, <1>9, <1>10

-----------------------------------------------------------------------------
(* The cards, as the corrections leave them. *)

\* A card has its three fields.
IsCard(c) == {"status", "label", "details"} \subseteq DOMAIN c

LEMMA CardIs ==
  /\ \A status, label, details :
       /\ IsCard(Card(status, label, details))
       /\ Card(status, label, details).status = status
       /\ Card(status, label, details).label = label
  /\ \A label : /\ IsCard(Unavailable(label))
                /\ Unavailable(label).status = "unavailable"
                /\ Unavailable(label).label = label
BY DEF IsCard, Card, Unavailable

\* Softening touches the details alone.
LEMMA SoftenKeeps ==
  ASSUME NEW card, IsCard(card)
  PROVE  Soften(card).status = card.status /\ Soften(card).label = card.label
<1> DEFINE soft == {IF d.sev = "warning" THEN Issue("info", d.about) ELSE d : d \in card.details}
<1>1. Soften(card) = IF card.status # "absent" THEN card ELSE [card EXCEPT !.details = soft]
  BY DEF Soften
<1> HIDE DEF soft
<1> QED BY <1>1 DEF IsCard

\* Of the waivers, what an audit's card keeps and what it becomes.
LEMMA WaiverIs ==
  ASSUME NEW r, NEW name, NEW card, IsCard(card)
  PROVE  LET waived == WaiveCard(r, name, card)
             due    == IsDefensive(r) /\ name \in Waived(r)
         IN /\ IsCard(waived)
            /\ ~due => waived = card
            /\ \/ waived = card
               \/ /\ waived.label = "Not applicable"
                  /\ waived.status = IF name = "DKIM" THEN "pass" ELSE "absent"
<1>1. CASE ~IsDefensive(r) \/ name \notin Waived(r) \/ card.status \in {"pass", "absent"}
  <2>1. WaiveCard(r, name, card) = card
    BY <1>1 DEF WaiveCard
  <2> QED BY <2>1
<1>2. CASE ~(~IsDefensive(r) \/ name \notin Waived(r) \/ card.status \in {"pass", "absent"})
  <2> DEFINE status == IF name = "DKIM" THEN "pass" ELSE "absent"
  <2>1. WaiveCard(r, name, card) = [card EXCEPT !.status = status, !.label = "Not applicable"]
    BY <1>2 DEF WaiveCard
  <2> HIDE DEF status
  <2>2. /\ IsCard(WaiveCard(r, name, card))
        /\ WaiveCard(r, name, card).label = "Not applicable"
        /\ WaiveCard(r, name, card).status = status
    BY <2>1 DEF IsCard
  <2> QED BY <1>2, <2>2 DEF status
<1> QED BY <1>1, <1>2

LEMMA FindingIs == \A r : XcFinding(r) \in {"fail", "warn", "pass"}
BY DEF XcFinding

\* The cross-check takes the DMARC card up, and no other.
LEMMA CrossCheckIs ==
  ASSUME NEW r, NEW cs, DOMAIN cs = CardNames, IsCard(cs["DMARC"])
  PROVE  LET checked == CrossCheck(r, cs)
         IN /\ DOMAIN checked = CardNames
            /\ \A name \in CardNames \ {"DMARC"} : checked[name] = cs[name]
            /\ checked["DMARC"].label = cs["DMARC"].label
            /\ \/ checked["DMARC"].status = cs["DMARC"].status
               \/ checked["DMARC"].status \in {"warn", "fail"}
            /\ cs["DMARC"].status = "fail" => checked["DMARC"].status = "fail"
<1> DEFINE raised == XcApplies(r) /\ XcRank(XcFinding(r)) > XcRank(cs["DMARC"].status)
<1>1. "DMARC" \in CardNames
  BY DEF CardNames
<1>2. CASE ~raised
  <2>1. CrossCheck(r, cs) = cs
    BY <1>2 DEF CrossCheck
  <2> QED BY <2>1
<1>3. CASE raised
  <2> DEFINE found == XcFinding(r)
  <2>1. CrossCheck(r, cs) = [cs EXCEPT !["DMARC"].status = found]
    BY <1>3 DEF CrossCheck
  <2>2. found \in {"warn", "fail"} /\ cs["DMARC"].status # "fail"
    BY <1>3, FindingIs DEF XcRank
  <2> HIDE DEF found
  <2> QED BY <1>1, <2>1, <2>2 DEF IsCard
<1> QED BY <1>2, <1>3

\* The cards of a report, against those that were drawn: the DMARC card is drawn once
\* more for a domain without mail and may be taken up, another may be waived.
LEMMA CorrectedIs ==
  ASSUME NEW z, NEW r, NEW names \in SUBSET CardNames, "DMARC" \in names,
         \A name \in names : IsCard(DrawnCard(z, r, name)),
         \A noMail \in BOOLEAN : IsCard(TransformDmarc(r.dmarc, r.walk.atOrg, noMail, z.delivery))
  PROVE  LET card == Corrected(z, r, DrawnCards(z, r))
         IN /\ DOMAIN card = CardNames
            /\ \A name \in names \ {"DMARC"} :
                 /\ card[name].status = WaiveCard(r, name, DrawnCard(z, r, name)).status
                 /\ card[name].label = WaiveCard(r, name, DrawnCard(z, r, name)).label
            /\ \E noMail \in BOOLEAN :
                 LET drawn == TransformDmarc(r.dmarc, r.walk.atOrg, noMail, z.delivery)
                 IN /\ card["DMARC"].label = drawn.label
                    /\ \/ card["DMARC"].status = drawn.status
                       \/ card["DMARC"].status \in {"warn", "fail"}
                    /\ drawn.status = "fail" => card["DMARC"].status = "fail"
<1> DEFINE cs      == DrawnCards(z, r)
           left    == Waive(z, r, cs)
           softened(name) == Soften(WaiveCard(r, name, DrawnCard(z, r, name)))
           redrawn == TransformDmarc(r.dmarc, r.walk.atOrg, TRUE, z.delivery)
<1>1. DOMAIN cs = CardNames /\ \A name \in CardNames : cs[name] = DrawnCard(z, r, name)
  BY DEF DrawnCards
<1>2. "DMARC" \in CardNames
  BY DEF CardNames
<1>3. /\ DOMAIN left = CardNames
      /\ \A name \in CardNames \ {"DMARC"} : left[name] = softened(name)
      /\ left["DMARC"] = IF IsDefensive(r) THEN redrawn ELSE softened("DMARC")
  BY <1>1, <1>2 DEF Waive
<1>4. ASSUME NEW name \in names
      PROVE  /\ softened(name).status = WaiveCard(r, name, DrawnCard(z, r, name)).status
             /\ softened(name).label = WaiveCard(r, name, DrawnCard(z, r, name)).label
  BY WaiverIs, SoftenKeeps
<1>5. PICK noMail \in BOOLEAN :
        LET drawn == TransformDmarc(r.dmarc, r.walk.atOrg, noMail, z.delivery)
        IN left["DMARC"].status = drawn.status /\ left["DMARC"].label = drawn.label
  <2>1. CASE IsDefensive(r)
    <3>1. left["DMARC"] = redrawn
      BY <1>3, <2>1
    <3> QED BY <3>1
  <2>2. CASE ~IsDefensive(r)
    <3> DEFINE drawn == TransformDmarc(r.dmarc, r.walk.atOrg, FALSE, z.delivery)
    <3>1. DrawnCard(z, r, "DMARC") = drawn
      BY DEF DrawnCard
    <3>2. WaiveCard(r, "DMARC", DrawnCard(z, r, "DMARC")) = drawn
      BY <2>2, <3>1 DEF WaiveCard
    <3>3. left["DMARC"] = softened("DMARC")
      BY <1>3, <2>2
    <3>4. left["DMARC"].status = drawn.status /\ left["DMARC"].label = drawn.label
      BY <1>2, <1>4, <3>2, <3>3
    <3> QED BY <3>4
  <2> QED BY <2>1, <2>2
<1>6. IsCard(left["DMARC"])
  <2>1. CASE IsDefensive(r)
    BY <1>3, <2>1
  <2>2. CASE ~IsDefensive(r)
    <3>1. left["DMARC"] = Soften(DrawnCard(z, r, "DMARC"))
      BY <1>3, <2>2 DEF WaiveCard
    <3> DEFINE card == DrawnCard(z, r, "DMARC")
               soft == {IF d.sev = "warning" THEN Issue("info", d.about) ELSE d : d \in card.details}
    <3>2. left["DMARC"] = IF card.status # "absent" THEN card ELSE [card EXCEPT !.details = soft]
      BY <3>1 DEF Soften
    <3>3. IsCard(card)
      BY <1>2
    <3> HIDE DEF card, soft
    <3> QED BY <3>2, <3>3 DEF IsCard
  <2> QED BY <2>1, <2>2
<1> HIDE DEF left
<1>7. Corrected(z, r, DrawnCards(z, r)) = CrossCheck(r, left)
  BY DEF Corrected, left
<1>8. LET checked == CrossCheck(r, left)
      IN /\ DOMAIN checked = CardNames
         /\ \A name \in CardNames \ {"DMARC"} : checked[name] = left[name]
         /\ checked["DMARC"].label = left["DMARC"].label
         /\ \/ checked["DMARC"].status = left["DMARC"].status
            \/ checked["DMARC"].status \in {"warn", "fail"}
         /\ left["DMARC"].status = "fail" => checked["DMARC"].status = "fail"
  BY <1>3, <1>6, CrossCheckIs
<1> DEFINE checked == CrossCheck(r, left)
<1>9. \A name \in names \ {"DMARC"} :
        /\ checked[name].status = WaiveCard(r, name, DrawnCard(z, r, name)).status
        /\ checked[name].label = WaiveCard(r, name, DrawnCard(z, r, name)).label
  BY <1>3, <1>4, <1>8
<1> QED BY <1>5, <1>7, <1>8, <1>9

-----------------------------------------------------------------------------
(* The cards, as they are drawn of what the checks found. *)

Read(c) == c.status \in {"pass", "warn", "fail", "absent"}
Graded(c, status, label) == IsCard(c) /\ c.status = status /\ c.label = label

\* A card is of what its check found.
LEMMA CardIsGraded ==
  /\ \A status, label, details : Graded(Card(status, label, details), status, label)
  /\ \A label : Graded(Unavailable(label), "unavailable", label)
BY CardIs DEF Graded

\* The status of a card is one of three.
LEMMA MapStatusIs == \A status : MapStatus(status) \in {"pass", "warn", "fail"}
BY DEF MapStatus

\* A record of SPF that was found was read, and its card grades it.
LEMMA SpfCardIs ==
  ASSUME NEW dns, NEW hasMx
  PROVE  LET raw0 == RawSpf(dns)
             card == TransformSpf(raw0, hasMx)
         IN /\ IsCard(card)
            /\ card.label = "Multiple records" => card.status = "fail"
            /\ raw0.found /\ ~raw0.null =>
                 /\ Read(card)
                 /\ raw0.all = "+" \/ raw0.open \/ raw0.lookups > SpfLookupLimit => card.status = "fail"
<1> DEFINE raw0 == RawSpf(dns)
           card == TransformSpf(raw0, hasMx)
<1>1. raw0.found => ~raw0.malformed /\ ~raw0.multiple /\ raw0.status # "unavailable"
  <2> DEFINE one == CHOOSE x \in {x \in dns[<<"SPF", "domain">>].rr : x.kind = "good"} : TRUE
             count == CountSpfLookups(dns)
  <2>1. \/ raw0 = OneSpf(one, count)
        \/ \E status, malformed, multiple, issues :
             raw0 = NoSpf(status, malformed, multiple, issues)
    BY DEF RawSpf
  <2> HIDE DEF one, count
  <2>2. CASE raw0 = OneSpf(one, count)
    <3> DEFINE issues == SpfIssues(one, count)
    <3>1. raw0 = FoundSpf(one, count, issues)
      BY <2>2 DEF OneSpf
    <3> HIDE DEF issues
    <3>2. /\ FoundSpf(one, count, issues).malformed = FALSE
          /\ FoundSpf(one, count, issues).multiple = FALSE
          /\ FoundSpf(one, count, issues).status = RawStatus(issues)
      BY DEF FoundSpf
    <3>3. RawStatus(issues) # "unavailable"
      BY DEF RawStatus
    <3> QED BY <3>1, <3>2, <3>3
  <2>3. ASSUME NEW status, NEW malformed, NEW multiple, NEW issues,
               raw0 = NoSpf(status, malformed, multiple, issues)
        PROVE  raw0.found = FALSE
    BY <2>3 DEF NoSpf
  <2> QED BY <2>1, <2>2, <2>3
<1> HIDE DEF raw0
<1>2. SpfStatus(raw0) \in {"pass", "warn", "fail"}
  BY MapStatusIs DEF SpfStatus
<1>3. raw0.all = "+" \/ raw0.open \/ raw0.lookups > SpfLookupLimit => SpfStatus(raw0) = "fail"
  BY DEF SpfStatus
<1> DEFINE lines == CountDetail(raw0) \cup AllDetail(raw0) \cup Details(raw0.issues)
           bad   == Details(raw0.issues)
           good  == {Issue("good", "null spf")}
           none  == {Issue("info", "no record")}
<1>4. card = IF raw0.status = "unavailable" THEN Unavailable("Not checked")
             ELSE IF raw0.malformed THEN Card("fail", "Malformed", bad)
             ELSE IF raw0.multiple  THEN Card("fail", "Multiple records", bad)
             ELSE IF raw0.null      THEN Card("pass", "No mail", good)
             ELSE IF ~raw0.found /\ ~hasMx THEN Card("warn", "No mail", none)
             ELSE IF ~raw0.found THEN Card("fail", "Missing", bad)
             ELSE Card(SpfStatus(raw0), "record", lines)
  BY DEF TransformSpf
<1> HIDE DEF lines, bad, good, none, card
<1>5. IsCard(card) /\ (card.label = "Multiple records" => card.status = "fail")
  BY <1>4 DEF IsCard, Card, Unavailable
<1>6. raw0.found /\ ~raw0.null => card.status = SpfStatus(raw0)
  BY <1>1, <1>4 DEF Card
<1> QED BY <1>2, <1>3, <1>5, <1>6 DEF Read, card, raw0

\* A sweep that was not read found nothing.
LEMMA DkimRawIs ==
  /\ \A dns, priority, fallback : SweepDkim(dns, priority, fallback).status # "unavailable"
  /\ \A dns, s : QueryDkim(dns, s).status = "unavailable" =>
       QueryDkim(dns, s).found = {} /\ QueryDkim(dns, s).dangling = {}
<1>1. ASSUME NEW dns, NEW priority, NEW fallback
      PROVE  SweepDkim(dns, priority, fallback).status # "unavailable"
  <2> DEFINE inTime   == ~IsLost(dns[<<"time", "dkim">>])
             first    == UNION {KeysAt(dns, s) : s \in priority}
             dropping == Cardinality(Unanswered(dns, priority)) >= DkimDropThreshold
             probed   == IF first = {} /\ ~dropping /\ inTime THEN priority \cup fallback ELSE priority
             found    == UNION {KeysAt(dns, s) : s \in probed}
             late     == Unanswered(dns, probed)
             dangling == Dangling(dns, {s \in probed : dns[<<"DKIM", s>>].rc = "dangling"}, found)
             dropped  == inTime /\ found = {} /\ Cardinality(late) >= DkimDropThreshold
             timedOut == ~inTime \/ dropped
             tested   == probed \ late
             wild     == {Issue("warning", "wildcard")}
             issues   == DanglingIssues(dangling)
  <2>1. SweepDkim(dns, priority, fallback) =
          IF Got(dns[<<"DKIM", "wildcard">>])
          THEN [NoDkim("warning") EXCEPT !.issues = wild]
          ELSE [NoDkim("none") EXCEPT !.found = found, !.tested = tested, !.unanswered = late,
                                      !.dangling = dangling, !.issues = issues,
                                      !.timedOut = timedOut, !.dropped = dropped]
    BY DEF SweepDkim
  <2> HIDE DEF wild, found, tested, late, dangling, issues, timedOut, dropped
  <2> QED BY <2>1 DEF NoDkim
<1>2. ASSUME NEW dns, NEW s, QueryDkim(dns, s).status = "unavailable"
      PROVE  QueryDkim(dns, s).found = {} /\ QueryDkim(dns, s).dangling = {}
  <2> DEFINE base == [NoDkim("none") EXCEPT !.queried = TRUE, !.tested = {s}]
  <2>1. \/ \E found, issues : QueryDkim(dns, s) = [base EXCEPT !.found = found, !.issues = issues]
        \/ \E rr : QueryDkim(dns, s) = [base EXCEPT !.noKey = rr]
        \/ QueryDkim(dns, s) = [base EXCEPT !.status = "unavailable"]
        \/ QueryDkim(dns, s) = [base EXCEPT !.notFound = TRUE]
    BY Zenon DEF QueryDkim
  <2>2. /\ base.status = "none" /\ base.found = {} /\ base.dangling = {}
        /\ {"status", "found", "dangling", "issues", "noKey", "notFound"} \subseteq DOMAIN base
    BY DEF NoDkim
  <2> HIDE DEF base
  <2> QED BY <1>2, <2>1, <2>2
<1> QED BY <1>1, <1>2

\* The DKIM card of a sweep that was read says so, and is red over a selector that can
\* be taken over or a live key that receivers ignore.
LEMMA DkimCardIs ==
  ASSUME NEW dkim, NEW nonMail
  PROVE  LET card == TransformDkim(dkim, nonMail)
         IN /\ IsCard(card)
            /\ dkim.status # "unavailable" => ~Unread(card)
            /\ "unregistered" \in dkim.dangling => card.status = "fail"
            /\ dkim.status # "unavailable" /\ (\E s \in Live(dkim.found) : Ignored(s.record)) =>
                 card.status = "fail"
<1> DEFINE drawn == IF dkim.status = "unavailable"  THEN Unavailable("Not checked")
                    ELSE IF Live(dkim.found) = {}   THEN NoKeyCard(dkim, nonMail)
                    ELSE KeysCard(dkim)
           free  == "unregistered" \in dkim.dangling
           lines == DanglingIssues(dkim.dangling)
           card  == TransformDkim(dkim, nonMail)
<1>1. card = [drawn EXCEPT !.status  = IF free THEN "fail" ELSE @, !.details = @ \cup lines]
  BY DEF TransformDkim
<1>2. /\ IsCard(NoKeyCard(dkim, nonMail)) /\ ~Unread(NoKeyCard(dkim, nonMail))
  <2> DEFINE details == Details(dkim.issues)
             late    == details \cup IssueIf(dkim.timedOut, "warning", "sweep not finished")
             off     == {Issue("info", "no mail")}
  <2>1. \/ NoKeyCard(dkim, nonMail) = Card("pass", "Not applicable", off)
        \/ NoKeyCard(dkim, nonMail) = Card("fail", "Not found", details)
        \/ NoKeyCard(dkim, nonMail) = Card("fail", "Not a key", details)
        \/ NoKeyCard(dkim, nonMail) = Card("warn", "Retired", details)
        \/ NoKeyCard(dkim, nonMail) = Card("unavailable", "Not confirmed", late)
    BY DEF NoKeyCard
  <2> HIDE DEF details, late, off
  <2> DEFINE c == NoKeyCard(dkim, nonMail)
  <2>2. \/ Graded(c, "pass", "Not applicable") \/ Graded(c, "fail", "Not found")
        \/ Graded(c, "fail", "Not a key") \/ Graded(c, "warn", "Retired")
        \/ Graded(c, "unavailable", "Not confirmed")
    BY <2>1, CardIsGraded, Zenon
  <2> QED BY <2>2 DEF Graded, Unread, Unconfirmed
<1>3. /\ IsCard(KeysCard(dkim)) /\ KeysCard(dkim).status = KeysStatus(dkim)
      /\ KeysStatus(dkim) \in {"pass", "warn", "fail"}
  <2>1. KeysStatus(dkim) \in {"pass", "warn", "fail"}
    BY DEF KeysStatus
  <2> DEFINE details == UNION {KeyDetails(s.record) : s \in dkim.found} \cup Details(dkim.issues)
                        \cup IssueIf(dkim.timedOut, "warning", "sweep not finished")
  <2>2. KeysCard(dkim) = Card(KeysStatus(dkim), "keys", details)
    BY DEF KeysCard
  <2> HIDE DEF details
  <2> QED BY <2>1, <2>2 DEF IsCard, Card
<1>4. (\E s \in Live(dkim.found) : Ignored(s.record)) =>
        Live(dkim.found) # {} /\ KeysStatus(dkim) = "fail"
  BY DEF KeysStatus, Ignored
<1>5. /\ IsCard(drawn)
      /\ dkim.status # "unavailable" => ~Unread(drawn)
      /\ dkim.status # "unavailable" /\ (\E s \in Live(dkim.found) : Ignored(s.record)) =>
           drawn.status = "fail"
  <2>1. Graded(Unavailable("Not checked"), "unavailable", "Not checked")
    BY CardIsGraded
  <2> QED BY <1>2, <1>3, <1>4, <2>1 DEF Graded, Unread
<1> HIDE DEF drawn, free, lines, card
<1>6. /\ IsCard(card) /\ card.label = drawn.label
      /\ card.status = IF free THEN "fail" ELSE drawn.status
  BY <1>1, <1>5 DEF IsCard
<1>7. dkim.status # "unavailable" => ~Unread(card)
  BY <1>5, <1>6 DEF Unread, Unconfirmed
<1> QED BY <1>5, <1>6, <1>7 DEF free, card

\* A published BIMI record was read.
LEMMA BimiCardIs ==
  ASSUME NEW bimi, NEW nonMail
  PROVE  LET card == TransformBimi(bimi, nonMail)
         IN IsCard(card) /\ (card.label = "published" => Read(card))
<1> DEFINE status == IF bimi.invalid THEN "fail" ELSE MapStatus(bimi.status)
           lines  == Details(bimi.issues)
           off    == {Issue("info", "no mail")}
<1>1. status \in {"pass", "warn", "fail"}
  BY MapStatusIs
<1>2. \/ TransformBimi(bimi, nonMail) = Unavailable("Not checked")
      \/ TransformBimi(bimi, nonMail) = Card("absent", "Not applicable", off)
      \/ TransformBimi(bimi, nonMail) = Card("absent", "Not configured", {})
      \/ TransformBimi(bimi, nonMail) = Card(status, "published", lines)
  BY DEF TransformBimi
<1> HIDE DEF status, lines, off
<1> DEFINE c == TransformBimi(bimi, nonMail)
<1>3. \/ Graded(c, "unavailable", "Not checked") \/ Graded(c, "absent", "Not applicable")
      \/ Graded(c, "absent", "Not configured") \/ Graded(c, status, "published")
  BY <1>2, CardIsGraded, Zenon
<1> QED BY <1>1, <1>3 DEF Graded, Read

\* What the audit knows of DMARC: a walk that lost an answer inherits nothing, a record
\* that was found was read, and only such a record names destinations for its reports.
DmarcFields ==
  {"status", "found", "malformed", "multiple", "record", "syntax", "issues", "readiness",
   "inherited", "source", "parent", "isSubdomain", "lost", "registry", "destinations",
   "authUnknown"}
DmarcSound(d) ==
  /\ DmarcFields \subseteq DOMAIN d
  /\ d.lost => ~d.found /\ d.inherited = "no" /\ ~d.registry
  /\ d.found => d.status # "unavailable"
  /\ d.destinations # {} => d.found /\ ~d.multiple

LEMMA RawDmarcIs ==
  ASSUME NEW dns
  PROVE  LET d == RawDmarc(dns)
         IN /\ DmarcSound(d) /\ d.destinations = {}
            /\ d.lost = FALSE /\ d.registry = FALSE /\ d.inherited = "no"
<1> DEFINE txt   == dns[<<"TXT", "_dmarc">>]
           good  == {x \in txt.rr : x.kind = "good"}
           near  == {x \in txt.rr : x.kind = "near"}
           aside == IssueIf(\E x \in txt.rr : x.kind = "other", "info", "other txt")
                    \cup IssueIf(Got(dns[<<"CNAME", "_dmarc">>]), "info", "cname")
           r     == CHOOSE x \in good : TRUE
           almost == CHOOSE x \in near : TRUE
           syntax == Syntax(r) \cup FatalPolicy(r)
                     \cup IssueIf(near # {}, "error", "lowercase version")
           one    == aside \cup {Issue("error", "malformed version tag")}
           none   == aside \cup {Issue("error", "no record")}
           many   == aside \cup {Issue("error", "several records")}
           issues == aside \cup RecordIssues(r) \cup syntax
           status == RawStatus(issues)
           ready  == Readiness(r, status)
           d      == RawDmarc(dns)
<1>1. d = IF IsLost(txt) THEN NoDmarc("unavailable", FALSE, FALSE, {})
          ELSE IF good = {} /\ near # {} THEN [NoDmarc("error", TRUE, FALSE, one) EXCEPT !.record = almost]
          ELSE IF good = {} THEN NoDmarc("error", FALSE, FALSE, none)
          ELSE IF Cardinality(good) > 1 THEN
               [NoDmarc("error", FALSE, TRUE, many) EXCEPT !.found = TRUE, !.record = r]
          ELSE [NoDmarc(status, FALSE, FALSE, issues)
                  EXCEPT !.found = TRUE, !.record = r, !.syntax = syntax, !.readiness = ready]
  BY DEF RawDmarc, OneDmarc, FoundDmarc
<1>2. status # "unavailable"
  BY DEF RawStatus
<1> HIDE DEF d, txt, good, near, r, almost, syntax, one, none, many, issues, status, ready
<1>3. CASE IsLost(txt)
  <2>1. d = NoDmarc("unavailable", FALSE, FALSE, {})
    BY <1>1, <1>3
  <2> QED BY <2>1 DEF NoDmarc, DmarcSound, DmarcFields, d
<1>4. CASE ~IsLost(txt) /\ good = {} /\ near # {}
  <2>1. d = [NoDmarc("error", TRUE, FALSE, one) EXCEPT !.record = almost]
    BY <1>1, <1>4
  <2> QED BY <2>1 DEF NoDmarc, DmarcSound, DmarcFields, d
<1>5. CASE ~IsLost(txt) /\ good = {} /\ ~(near # {})
  <2>1. d = NoDmarc("error", FALSE, FALSE, none)
    BY <1>1, <1>5
  <2> QED BY <2>1 DEF NoDmarc, DmarcSound, DmarcFields, d
<1>6. CASE ~IsLost(txt) /\ good # {} /\ Cardinality(good) > 1
  <2>1. d = [NoDmarc("error", FALSE, TRUE, many) EXCEPT !.found = TRUE, !.record = r]
    BY <1>1, <1>6
  <2> QED BY <2>1 DEF NoDmarc, DmarcSound, DmarcFields, d
<1>7. CASE ~IsLost(txt) /\ good # {} /\ ~(Cardinality(good) > 1)
  <2>1. d = [NoDmarc(status, FALSE, FALSE, issues)
               EXCEPT !.found = TRUE, !.record = r, !.syntax = syntax, !.readiness = ready]
    BY <1>1, <1>7
  <2> QED BY <1>2, <2>1 DEF NoDmarc, DmarcSound, DmarcFields, d
<1> QED BY <1>3, <1>4, <1>5, <1>6, <1>7

LEMMA FromPslIs ==
  ASSUME NEW d, NEW dns, NEW n, NEW psl, DmarcSound(d), ~d.found,
         d.destinations = {}, d.lost = FALSE, d.registry = FALSE, d.inherited = "no"
  PROVE  DmarcSound(FromPsl(d, dns, n, psl)) /\ FromPsl(d, dns, n, psl).destinations = {}
<1> DEFINE record == OneRecord(dns[<<"TXT", "_dmarc.org">>])
           r      == CHOOSE x \in record : TRUE
           policy == IF Has(r.sp) THEN r.sp ELSE r.p
           inherited == RecoveredPolicy(policy, r)
           after  == FromPsl(d, dns, n, psl)
<1>1. \/ after = d
      \/ after = [d EXCEPT !.lost = TRUE]
      \/ after = [d EXCEPT !.inherited = inherited, !.source = psl, !.parent = r, !.isSubdomain = TRUE]
  BY DEF FromPsl
<1> HIDE DEF inherited, r, after
<1>2. CASE after = d
  BY <1>2 DEF after
<1>3. CASE after = [d EXCEPT !.lost = TRUE]
  BY <1>3 DEF DmarcSound, DmarcFields, after
<1>4. CASE after = [d EXCEPT !.inherited = inherited, !.source = psl, !.parent = r, !.isSubdomain = TRUE]
  BY <1>4 DEF DmarcSound, DmarcFields, after
<1> QED BY <1>1, <1>2, <1>3, <1>4

LEMMA InheritanceIs ==
  ASSUME NEW d, NEW dns, NEW tw, NEW n, NEW psl, DmarcSound(d),
         d.destinations = {}, d.lost = FALSE, d.registry = FALSE, d.inherited = "no"
  PROVE  /\ DmarcSound(EnrichInheritance(d, dns, tw, n, psl))
         /\ EnrichInheritance(d, dns, tw, n, psl).destinations = {}
<1> DEFINE inherited == RecoveredPolicy(tw.policy, tw.record)
           source    == tw.source
           parent    == tw.record
           registry  == tw.source < psl
           below     == ~(tw.source < psl /\ psl = n)
           after     == EnrichInheritance(d, dns, tw, n, psl)
<1>1. CASE d.found
  BY <1>1 DEF EnrichInheritance
<1>2. CASE ~d.found /\ tw.incomplete
  <2>1. after = [d EXCEPT !.lost = TRUE]
    BY <1>2 DEF EnrichInheritance
  <2> HIDE DEF after
  <2>2. DmarcSound(after) /\ after.destinations = {}
    BY <1>2, <2>1 DEF DmarcSound, DmarcFields
  <2> QED BY <2>2 DEF after
<1>3. CASE ~d.found /\ ~tw.incomplete /\ tw.isSubdomain
  <2>1. after = [d EXCEPT !.inherited = inherited, !.source = source, !.parent = parent,
                          !.registry = registry, !.isSubdomain = below]
    BY <1>3 DEF EnrichInheritance
  <2> HIDE DEF after, inherited, source, parent, registry, below
  <2>2. DmarcSound(after) /\ after.destinations = {}
    BY <1>3, <2>1 DEF DmarcSound, DmarcFields
  <2> QED BY <2>2 DEF after
<1>4. CASE ~d.found /\ ~tw.incomplete /\ ~tw.isSubdomain
  <2>1. after = FromPsl(d, dns, n, psl)
    BY <1>4 DEF EnrichInheritance
  <2> QED BY <1>4, <2>1, FromPslIs
<1> QED BY <1>1, <1>2, <1>3, <1>4

LEMMA AuditDmarcSound ==
  ASSUME NEW dns, NEW walk, NEW n, NEW psl, NEW external
  PROVE  DmarcSound(AuditDmarc(dns, walk, n, psl, external))
<1> DEFINE first == RawDmarc(dns)
           d     == EnrichInheritance(first, dns, walk, n, psl)
           after == WithReportAuth(d, dns, external)
<1>1. DmarcSound(d) /\ d.destinations = {}
  BY RawDmarcIs, InheritanceIs
<1> HIDE DEF d
<1> DEFINE tags  == {t \in {"rua", "ruf"} : Has(d.record[t])}
           dests == {Destination(dns, t, external) : t \in tags}
           away  == {x \in dests : x.external}
           issues == d.issues \cup (
                  IssueIf(\E x \in away : x.authorized = "no", "error", "destination not authorized")
             \cup IssueIf(\E x \in away : x.unchecked, "warning", "authorization not checked")
             \cup IssueIf(\E x \in away : x.hasMx = "no", "warning", "destination without mx")
             \cup IssueIf("ruf" \in tags, "info", "ruf"))
<1>2. after = IF ~d.found \/ d.multiple \/ tags = {} THEN d
              ELSE IF IsLost(dns[<<"time", "report-auth">>]) THEN [d EXCEPT !.authUnknown = TRUE]
              ELSE [d EXCEPT !.destinations = dests, !.issues = issues]
  BY DEF WithReportAuth
<1> HIDE DEF tags, dests, issues, after
<1>3. CASE ~d.found \/ d.multiple \/ tags = {}
  <2>1. after = d
    BY <1>2, <1>3
  <2> QED BY <1>1, <2>1 DEF AuditDmarc, d, after
<1>4. CASE ~(~d.found \/ d.multiple \/ tags = {})
  <2>1. \/ after = [d EXCEPT !.authUnknown = TRUE]
        \/ after = [d EXCEPT !.destinations = dests, !.issues = issues]
    BY <1>2, <1>4
  <2>2. DmarcSound(after)
    BY <1>1, <1>4, <2>1 DEF DmarcSound, DmarcFields
  <2> QED BY <2>2 DEF AuditDmarc, d, after
<1> QED BY <1>3, <1>4

\* The registry's policy is left out without touching what the name says itself.
LEMMA AboveRegistryIs ==
  ASSUME NEW d, NEW atOrg, DmarcSound(d)
  PROVE  LET a == AboveRegistry(d, atOrg)
         IN /\ a.found = d.found /\ a.record = d.record /\ a.lost = d.lost
            /\ a.destinations = d.destinations
            /\ a.lost => ~a.found /\ ~Inherits(a)
<1> DEFINE usable == {r \in atOrg : TagValue(r, IF Has(r.sp) THEN "sp" ELSE "p") \in Policies}
           r == CHOOSE x \in usable : TRUE
           inherited == TagValue(r, IF Has(r.sp) THEN "sp" ELSE "p")
           a == AboveRegistry(d, atOrg)
<1>1. a = IF d.registry /\ d.isSubdomain /\ usable # {}
          THEN [d EXCEPT !.inherited = inherited, !.parent = r]
          ELSE IF d.registry THEN [d EXCEPT !.inherited = "no", !.isSubdomain = FALSE]
          ELSE d
  BY DEF AboveRegistry
<1> HIDE DEF usable, inherited, r, a
<1>2. \/ d.registry /\ a = [d EXCEPT !.inherited = inherited, !.parent = r]
      \/ d.registry /\ a = [d EXCEPT !.inherited = "no", !.isSubdomain = FALSE]
      \/ ~d.registry /\ a = d
  BY <1>1
<1>3. a.found = d.found /\ a.record = d.record /\ a.lost = d.lost /\ a.destinations = d.destinations
  BY <1>2 DEF DmarcSound, DmarcFields
<1>4. d.lost => a = d /\ ~d.found /\ d.inherited = "no"
  BY <1>2 DEF DmarcSound
<1> QED BY <1>3, <1>4 DEF Inherits, a

\* The DMARC card of a record in force was read, and so was the one with destinations.
LEMMA DmarcCardIs ==
  ASSUME NEW d, NEW atOrg, NEW noMail, NEW delivery, DmarcSound(d)
  PROVE  LET card == TransformDmarc(d, atOrg, noMail, delivery)
         IN /\ IsCard(card)
            /\ card.label = "Multiple records" => card.status = "fail"
            /\ RecordInForce(d, atOrg) # {} => Read(card)
            /\ AboveRegistry(d, atOrg).destinations # {} => RecordInForce(d, atOrg) # {}
<1> DEFINE a      == AboveRegistry(d, atOrg)
           drawn  == CardOfRecord(d, a, noMail, delivery)
           several == Details(d.issues)
           missing == Details(CardIssues(a, noMail, delivery))
           own    == OwnStatus(a, noMail, delivery)
           theirs == InheritedStatus(a, noMail, delivery)
           label  == IF Recovered(a.record) THEN "Recovery" ELSE "own"
           lines  == OwnDetails(a, noMail, delivery)
           above  == InheritedDetails(a, delivery)
           card   == TransformDmarc(d, atOrg, noMail, delivery)
           force  == RecordInForce(d, atOrg)
           red    == d.malformed /\ d.isSubdomain /\ d.inherited # "no"
<1>1. /\ a.found = d.found /\ a.destinations = d.destinations
      /\ a.lost => ~a.found /\ ~Inherits(a)
  BY AboveRegistryIs
<1>2. force # {} => d.status # "unavailable" /\ ~d.multiple /\ (a.found \/ Inherits(a))
  BY DEF RecordInForce
<1>3. a.destinations # {} => force # {}
  <2> SUFFICES ASSUME a.destinations # {} PROVE force # {}
    OBVIOUS
  <2>1. d.found /\ ~d.multiple /\ d.status # "unavailable"
    BY <1>1 DEF DmarcSound
  <2>2. force = {a.record}
    BY <1>1, <2>1 DEF RecordInForce
  <2> QED BY <2>2
<1>4. own \in {"pass", "warn", "fail"} /\ theirs \in {"pass", "warn", "fail"}
  <2>1. theirs \in {"pass", "warn", "fail"}
    BY DEF InheritedStatus
  <2>2. PolicyStatus(a.record, noMail, delivery) \in {"pass", "warn", "fail"}
    BY DEF PolicyStatus
  <2>3. own \in {"pass", "warn", "fail"}
    BY <2>2 DEF OwnStatus
  <2> QED BY <2>1, <2>3
<1>5. label # "Multiple records"
  OBVIOUS
<1>6. drawn = IF d.multiple THEN Card("fail", "Multiple records", several)
              ELSE IF ~a.found /\ a.lost THEN Unavailable("Not checked")
              ELSE IF Inherits(a) THEN Card(theirs, "Inherited", above)
              ELSE IF ~a.found THEN Card("fail", "Missing", missing)
              ELSE Card(own, label, lines)
  BY DEF CardOfRecord
<1>7. card = IF d.status = "unavailable" THEN Unavailable("Not checked")
             ELSE IF red THEN [drawn EXCEPT !.status = "fail", !.label = "Malformed"]
             ELSE IF d.malformed THEN Card("fail", "Malformed", several)
             ELSE drawn
  BY DEF TransformDmarc
<1> HIDE DEF a, drawn, own, theirs, label, lines, above, several, missing, card, force, red
<1>8. \/ Graded(drawn, "fail", "Multiple records")
      \/ Graded(drawn, "unavailable", "Not checked") /\ ~a.found /\ a.lost
      \/ Graded(drawn, theirs, "Inherited")
      \/ Graded(drawn, "fail", "Missing")
      \/ Graded(drawn, own, label)
  BY <1>6, CardIsGraded, Zenon
<1>9. \/ Graded(card, "unavailable", "Not checked") /\ d.status = "unavailable"
      \/ Graded(card, "fail", "Malformed")
      \/ card = drawn
  <2>1. IsCard(drawn)
    BY <1>8 DEF Graded
  <2>2. \A c : IsCard(c) => Graded([c EXCEPT !.status = "fail", !.label = "Malformed"], "fail", "Malformed")
    BY DEF IsCard, Graded
  <2> QED BY <1>7, <2>1, <2>2, CardIsGraded, Zenon
<1>10. IsCard(card) /\ (card.label = "Multiple records" => card.status = "fail")
  BY <1>5, <1>8, <1>9 DEF Graded
<1>11. force # {} => Read(card)
  BY <1>1, <1>2, <1>4, <1>8, <1>9 DEF Graded, Read
<1> QED BY <1>3, <1>10, <1>11 DEF a, card, force

-----------------------------------------------------------------------------
(* The view of an audit. *)

\* What the corrected cards of an audit rest on.
LEMMA ResultsAre ==
  ASSUME NEW z, NEW dns
  PROVE  LET r == RawResults(z, dns)
         IN /\ r.spf = RawSpf(dns)
            /\ DmarcSound(r.dmarc)
            /\ r.dkim.status = "unavailable" => r.dkim.found = {} /\ r.dkim.dangling = {}
<1> DEFINE walk == TreeWalk(dns, z.n, z.psl)
           mx   == CheckMx(dns)
           dmarc == AuditDmarc(dns, walk, z.n, z.psl, z.external)
           dnssec == RawDnssec(dns)
           dkim == IF z.selector = "" THEN SweepDkim(dns, z.priority, z.fallback)
                                      ELSE QueryDkim(dns, z.selector)
           r    == RawResults(z, dns)
<1>1. r = ResultsWith(z, dns, mx, walk, dmarc, dnssec)
  BY DEF RawResults, ResultsOf
<1> HIDE DEF walk, mx, dmarc, dnssec, r
<1>2. r.spf = RawSpf(dns) /\ r.dmarc = dmarc /\ r.dkim = dkim
  BY <1>1 DEF ResultsWith
<1>3. DmarcSound(dmarc)
  BY AuditDmarcSound DEF dmarc
<1>4. dkim.status = "unavailable" => dkim.found = {} /\ dkim.dangling = {}
  <2>1. CASE z.selector = ""
    <3>1. dkim = SweepDkim(dns, z.priority, z.fallback)
      BY <2>1
    <3> HIDE DEF dkim
    <3> QED BY <3>1, DkimRawIs
  <2>2. CASE z.selector # ""
    <3>1. dkim = QueryDkim(dns, z.selector)
      BY <2>2
    <3> HIDE DEF dkim
    <3> QED BY <3>1, DkimRawIs
  <2> QED BY <2>1, <2>2
<1> HIDE DEF dkim
<1> QED BY <1>2, <1>3, <1>4 DEF r

\* The report of any audit backs what its plan says.
LEMMA ReportIsBacked ==
  ASSUME NEW z, NEW dns
  PROVE  LET r  == RawResults(z, dns)
             cs == Corrected(z, r, DrawnCards(z, r))
         IN /\ DOMAIN cs = CardNames
            /\ Backed(ViewOf(z, r, cs), IsDefensive(r) /\ SendsNoMail(r))
<1> DEFINE r     == RawResults(z, dns)
           cs    == Corrected(z, r, DrawnCards(z, r))
           v     == ViewOf(z, r, cs)
           quiet == IsDefensive(r) /\ SendsNoMail(r)
           names == {"DMARC", "SPF", "DKIM", "BIMI"}
           atOrg == r.walk.atOrg
           a     == AboveRegistry(r.dmarc, atOrg)
           force == RecordInForce(r.dmarc, atOrg)
<1>1. /\ r.spf = RawSpf(dns)
      /\ DmarcSound(r.dmarc)
      /\ r.dkim.status = "unavailable" => r.dkim.found = {} /\ r.dkim.dangling = {}
  BY ResultsAre
<1> HIDE DEF r
<1>2. /\ DrawnCard(z, r, "SPF") = TransformSpf(r.spf, HasMx(r))
      /\ DrawnCard(z, r, "DKIM") = TransformDkim(r.dkim, SendsNoMail(r))
      /\ DrawnCard(z, r, "BIMI") = TransformBimi(r.bimi, SendsNoMail(r))
      /\ DrawnCard(z, r, "DMARC") = TransformDmarc(r.dmarc, atOrg, FALSE, z.delivery)
  BY DEF DrawnCard
<1> DEFINE spf  == DrawnCard(z, r, "SPF")
           dkim == DrawnCard(z, r, "DKIM")
           bimi == DrawnCard(z, r, "BIMI")
<1>3. /\ IsCard(spf)
      /\ spf.label = "Multiple records" => spf.status = "fail"
      /\ r.spf.found /\ ~r.spf.null =>
           /\ Read(spf)
           /\ r.spf.all = "+" \/ r.spf.open \/ r.spf.lookups > SpfLookupLimit => spf.status = "fail"
  BY <1>1, <1>2, SpfCardIs
<1>4. /\ IsCard(dkim)
      /\ r.dkim.status # "unavailable" => ~Unread(dkim)
      /\ "unregistered" \in r.dkim.dangling => dkim.status = "fail"
      /\ r.dkim.status # "unavailable" /\ (\E s \in Live(r.dkim.found) : Ignored(s.record)) =>
           dkim.status = "fail"
  BY <1>2, DkimCardIs
<1>5. IsCard(bimi) /\ (bimi.label = "published" => Read(bimi))
  BY <1>2, BimiCardIs
<1>6. \A noMail \in BOOLEAN :
        LET drawn == TransformDmarc(r.dmarc, atOrg, noMail, z.delivery)
        IN /\ IsCard(drawn)
           /\ drawn.label = "Multiple records" => drawn.status = "fail"
           /\ force # {} => Read(drawn)
           /\ a.destinations # {} => force # {}
  BY <1>1, DmarcCardIs
<1>7. names \in SUBSET CardNames /\ "DMARC" \in names
  BY DEF CardNames
<1>8. \A name \in names : IsCard(DrawnCard(z, r, name))
  BY <1>2, <1>3, <1>4, <1>5, <1>6
<1>9. /\ DOMAIN cs = CardNames
      /\ \A name \in names \ {"DMARC"} :
           /\ cs[name].status = WaiveCard(r, name, DrawnCard(z, r, name)).status
           /\ cs[name].label = WaiveCard(r, name, DrawnCard(z, r, name)).label
      /\ \E noMail \in BOOLEAN :
           LET drawn == TransformDmarc(r.dmarc, atOrg, noMail, z.delivery)
           IN /\ cs["DMARC"].label = drawn.label
              /\ \/ cs["DMARC"].status = drawn.status
                 \/ cs["DMARC"].status \in {"warn", "fail"}
              /\ drawn.status = "fail" => cs["DMARC"].status = "fail"
  BY <1>6, <1>7, <1>8, CorrectedIs
<1>10. /\ v.cards = cs /\ v.dmarc = a /\ v.dkim = r.dkim /\ v.force = force
       /\ v.spf.band = IF HasSendingSpf(r) THEN Band(r.spf.lookups, r.spf.unknown) ELSE "ok"
       /\ v.spf.open <=> HasSendingSpf(r) /\ (r.spf.all = "+" \/ r.spf.open)
  BY DEF ViewOf
<1> HIDE DEF cs, v, quiet, force, a, atOrg, spf, dkim, bimi
<1>11. DmarcBacked(v)
  <2>1. PICK noMail \in BOOLEAN :
          LET drawn == TransformDmarc(r.dmarc, atOrg, noMail, z.delivery)
          IN /\ cs["DMARC"].label = drawn.label
             /\ \/ cs["DMARC"].status = drawn.status
                \/ cs["DMARC"].status \in {"warn", "fail"}
             /\ drawn.status = "fail" => cs["DMARC"].status = "fail"
    BY <1>9
  <2> DEFINE drawn == TransformDmarc(r.dmarc, atOrg, noMail, z.delivery)
  <2>2. /\ drawn.label = "Multiple records" => drawn.status = "fail"
        /\ force # {} => Read(drawn)
        /\ a.destinations # {} => force # {}
    BY <1>6
  <2> HIDE DEF drawn
  <2>3. force # {} => ~Unread(cs["DMARC"])
    BY <2>1, <2>2 DEF Read, Unread, drawn
  <2>4. cs["DMARC"].label = "Multiple records" => cs["DMARC"].status = "fail"
    BY <2>1, <2>2 DEF drawn
  <2>5. (\E x \in a.destinations : x.authorized = "no") => force # {}
    BY <2>2
  <2> QED BY <1>10, <2>3, <2>4, <2>5 DEF DmarcBacked
<1>12. SpfBacked(v)
  <2>1. "SPF" \notin Waived(r)
    BY DEF Waived
  <2>2. cs["SPF"].status = spf.status /\ cs["SPF"].label = spf.label
    BY <1>3, <1>9, <2>1, WaiverIs DEF spf
  <2>3. v.spf.open => spf.status = "fail"
    BY <1>3, <1>10 DEF HasSendingSpf
  <2>4. v.spf.band \in {"over", "near"} => HasSendingSpf(r) /\ v.spf.band = Band(r.spf.lookups, r.spf.unknown)
    BY <1>10
  <2>5. v.spf.band = "over" => spf.status = "fail"
    BY <1>3, <2>4 DEF HasSendingSpf, Band
  <2>6. v.spf.band = "near" => Read(spf)
    BY <1>3, <2>4 DEF HasSendingSpf
  <2> QED BY <1>3, <1>10, <2>2, <2>3, <2>5, <2>6 DEF SpfBacked, Read, Unread
<1>13. DkimBacked(v, quiet)
  <2>1. \/ cs["DKIM"].status = dkim.status /\ cs["DKIM"].label = dkim.label
        \/ quiet /\ cs["DKIM"].status = "pass"
    <3>1. "DKIM" \in Waived(r) => SendsNoMail(r)
      BY DEF Waived
    <3> DEFINE waived == WaiveCard(r, "DKIM", dkim)
    <3>2. \/ waived = dkim
          \/ waived.status = "pass" /\ IsDefensive(r) /\ "DKIM" \in Waived(r)
      BY <1>4, WaiverIs
    <3>3. cs["DKIM"].status = waived.status /\ cs["DKIM"].label = waived.label
      BY <1>9 DEF dkim
    <3> HIDE DEF waived
    <3> QED BY <3>1, <3>2, <3>3 DEF quiet
  <2>2. r.dkim.status # "unavailable" => ~Unread(cs["DKIM"])
    BY <1>4, <2>1 DEF Unread, Unconfirmed
  <2>3. r.dkim.status = "unavailable" => Live(r.dkim.found) = {}
    BY <1>1 DEF Live
  <2>4. SelectorBroken(v) => quiet \/ cs["DKIM"].status = "fail"
    BY <1>4, <1>10, <2>1, <2>3 DEF SelectorBroken
  <2> QED BY <1>1, <1>10, <2>2, <2>4 DEF DkimBacked
<1>14. BimiBacked(v)
  <2> DEFINE waived == WaiveCard(r, "BIMI", bimi)
  <2>1. waived = bimi \/ waived.label = "Not applicable"
    BY <1>5, WaiverIs
  <2>2. cs["BIMI"].status = waived.status /\ cs["BIMI"].label = waived.label
    BY <1>9 DEF bimi
  <2> HIDE DEF waived
  <2> QED BY <1>5, <1>10, <2>1, <2>2 DEF BimiBacked, Read, Unread
<1> QED BY <1>9, <1>11, <1>12, <1>13, <1>14 DEF Backed, r, cs, v, quiet

-----------------------------------------------------------------------------
(* The audit, stage by stage. *)

\* What each stage has made of the one before: the raw results are those of the answers
\* that arrived, the cards those of the raw results and the plan that of the cards.
Stages ==
  /\ zone \in Zones
  /\ phase \in {"asking", "checked", "drawn", "corrected", "done"}
  /\ phase # "asking" => raw = RawResults(zone, Seen)
  /\ phase = "drawn" => cards = DrawnCards(zone, raw)
  /\ phase \in {"corrected", "done"} => cards = CardsOf(raw)
  /\ Done => plan = Advice(View)

\* The stages hold before an audit ...
LEMMA StagesInit == Init => Stages
BY DEF Init, Stages, Done

\* ... and through every step of one.
LEMMA StagesStep == Stages /\ [Next]_vars => Stages'
<1> SUFFICES ASSUME Stages, [Next]_vars PROVE Stages'
  OBVIOUS
<1> USE DEF Stages
<1>1. ASSUME NEW q, NEW rc, Lose(q, rc) PROVE Stages'
  BY <1>1 DEF Lose, Done
<1>2. CASE RunChecks
  BY <1>2 DEF RunChecks, Done, Seen
<1>3. CASE DrawCards
  BY <1>3 DEF DrawCards, Done, Seen
<1>4. CASE Correct
  BY <1>4 DEF Correct, Done, Seen, CardsOf
<1>5. CASE Advise
  BY <1>5 DEF Advise, Done, Seen, CardsOf, View
<1>6. CASE UNCHANGED vars
  BY <1>6 DEF vars, Done, Seen, CardsOf, View
<1> QED BY <1>1, <1>2, <1>3, <1>4, <1>5, <1>6 DEF Next

\* An audit goes through its stages and nothing it made is changed behind its back: of a
\* finished one the plan is the advice on the cards, which are the corrected ones of the
\* raw results of the answers that arrived (run_full_audit).
THEOREM StagesHold == Spec => []Stages
<1>1. Spec => Init /\ [][Next]_vars
  BY DEF Spec
<1> QED BY <1>1, StagesInit, StagesStep, PTL

\* So a finished report backs its plan.
LEMMA DoneIsBacked ==
  ASSUME Stages, Done
  PROVE  /\ View.cards = cards /\ DOMAIN cards = CardNames
         /\ Backed(View, DkimWaived)
         /\ plan = AdviceOn(View, Roadmap(View))
<1>1. raw = RawResults(zone, Seen) /\ cards = CardsOf(raw) /\ plan = Advice(View)
  BY DEF Stages, Done
<1>2. DOMAIN cards = CardNames /\ Backed(ViewOf(zone, raw, cards), IsDefensive(raw) /\ SendsNoMail(raw))
  BY <1>1, ReportIsBacked DEF CardsOf
<1>3. View.cards = cards
  BY DEF View, ViewOf
<1> QED BY <1>1, <1>2, <1>3 DEF View, DkimWaived, Advice

LEMMA AdviceFields ==
  ASSUME NEW v, NEW rows
  PROVE  LET p == AdviceOn(v, rows)
         IN /\ p.rows = rows /\ p.changes = ChangeSet(v, rows)
            /\ p.headline = Headline(v) /\ p.spoofing = Spoofing(v)
            /\ p.requirements = IF v.noMail THEN "none" ELSE Requirements(v)
<1> DEFINE changes == ChangeSet(v, rows)
           headline == Headline(v)
           verdict == Verdict(v)
           spoofing == Spoofing(v)
           risk == BiggestRisk(v, rows)
           first == DoFirst(v, rows)
           delivery == Delivery(v)
           requirements == IF v.noMail THEN "none" ELSE Requirements(v)
           summary == RoadmapSummary(v, rows)
<1>1. AdviceOn(v, rows) =
        [ rows |-> rows, changes |-> changes, headline |-> headline,
          verdict |-> verdict, spoofing |-> spoofing, risk |-> risk,
          first |-> first, delivery |-> delivery, requirements |-> requirements,
          summary |-> summary ]
  BY DEF AdviceOn
<1> HIDE DEF changes, headline, verdict, spoofing, risk, first, delivery, requirements, summary
<1> QED BY <1>1 DEF changes, headline, spoofing, requirements

\* What the rows and the change set say, as PlanIsCarriedOut states it.
LEMMA CarriedOut ==
  ASSUME Stages PROVE PlanIsCarriedOut
<1> SUFFICES ASSUME Done PROVE PlanIsCarriedOut
  BY DEF PlanIsCarriedOut
<1> DEFINE rows == Roadmap(View)
           ch   == ChangeSet(View, rows)
           waived == DkimWaived
           kind(row) == IF IsEdit(row) THEN "edit" ELSE row.kind
           edits == {i \in DOMAIN ch : ch[i].kind = "edit"}
<1>1. View.cards = cards /\ Backed(View, waived) /\ plan = AdviceOn(View, rows)
  BY DoneIsBacked
<1>2. plan.rows = rows /\ plan.changes = ch
  BY <1>1, AdviceFields
<1> HIDE DEF waived, rows
<1>3. RowsFit(View, waived, rows)
  BY <1>1, RoadmapFits DEF rows
<1>4. IsList(rows) /\ \A i \in DOMAIN rows : Fits(View, waived, rows[i])
  BY <1>3, FitsAt
<1>5. /\ IsChangeSet(ch) /\ ReportsBefore(ch) /\ SendersBefore(ch)
      /\ \A i \in DOMAIN rows :
           PublishesRecord(View, rows[i]) => Publishes(ch, rows[i].proto, kind(rows[i]))
  BY <1>3, ChangeSetCarries
<1> HIDE DEF ch, kind
<1>6. \A row \in ToSet(rows) : \E i \in DOMAIN rows : row = rows[i]
  BY DEF ToSet
<1>7. \A row \in ToSet(plan.rows) : ~Unread(cards[row.proto])
  BY <1>1, <1>2, <1>4, <1>6 DEF Fits
<1>8. ASSUME NEW row \in ToSet(plan.rows), PublishesRecord(View, row)
      PROVE  \E e \in ToSet(plan.changes) : e.proto = row.proto /\ e.kind = kind(row)
  <2>1. PICK i \in DOMAIN rows : row = rows[i]
    BY <1>2, <1>6
  <2>2. PICK k \in DOMAIN ch : ch[k].proto = row.proto /\ ch[k].kind = kind(row)
    BY <1>5, <1>8, <2>1 DEF Publishes
  <2>3. ch[k] \in ToSet(ch)
    BY DEF ToSet
  <2> QED BY <1>2, <2>2, <2>3
<1>9. Cardinality(edits) <= 1
  <2>1. \A i \in edits : \A k \in edits : i = k
    BY <1>5 DEF IsChangeSet, OneEdit
  <2> HIDE DEF edits
  <2>2. CASE edits = {}
    BY <2>2, FS_EmptySet
  <2>3. CASE edits # {}
    <3>1. PICK i : i \in edits
      BY <2>3
    <3>2. edits = {i}
      BY <2>1, <3>1
    <3>3. Cardinality({i}) = 1
      BY FS_Singleton
    <3> QED BY <3>2, <3>3
  <2> QED BY <2>2, <2>3
<1>10. \A i, j \in DOMAIN ch : i < j =>
         /\ ~(ch[i].proto = "MTA-STS" /\ ch[j].proto = "TLS-RPT")
         /\ ~(ch[i].enforcing /\ ch[j].proto \in {"SPF", "DKIM"})
  BY <1>5 DEF ReportsBefore, SendersBefore
<1> QED BY <1>2, <1>7, <1>8, <1>9, <1>10 DEF PlanIsCarriedOut, kind

\* The plan of a report is never about a card that was not read, and its change set
\* publishes every record of it, the DMARC record once, reporting before the policy it
\* reports on and enforcement after the senders (build_security_roadmap, plan_records).
THEOREM PlanCarriesOut == Spec => []PlanIsCarriedOut
BY StagesHold, CarriedOut, PTL

-----------------------------------------------------------------------------
(* The headline. *)

\* The three routes, when a record is in force.
RouteNames == {"direct", "subdomain", "nonexistent"}

\* The three routes for forged mail are graded, each with one of three grades.
LEMMA RouteGrades ==
  ASSUME NEW v, v.force # {}
  PROVE  /\ DOMAIN Vectors(v) = RouteNames
         /\ \A x \in RouteNames : Vectors(v)[x] \in {"protected", "partial", "exposed"}
<1> DEFINE r      == CHOOSE x \in v.force : TRUE
           direct == IF v.inherited THEN v.policy ELSE "absent"
           routes == Routes(r, v.dmarc, v.noMail, direct)
           grades == {"protected", "partial", "exposed"}
<1>1. Vectors(v) = [x \in RouteNames |-> routes[x]]
  BY DEF Vectors, RouteNames
<1>2. \A policy : Exposure(policy) \in grades
  BY DEF Exposure
<1>3. DirectRoute(r, direct) \in grades
  BY DEF DirectRoute
<1> HIDE DEF r, direct
<1>4. /\ routes.direct = DirectRoute(r, direct)
      /\ routes.subdomain = Exposure(AtPct(r, FallBack({"sp"}, r)))
      /\ routes.nonexistent = Exposure(AtPct(r, FallBack({"sp", "np"}, r)))
  BY DEF Routes
<1> HIDE DEF routes
<1>5. \A x \in RouteNames : routes[x] \in grades
  BY <1>2, <1>3, <1>4 DEF RouteNames
<1> QED BY <1>1, <1>5

\* A record that rejects in full, and leaves no subdomain out, leaves no route open.
LEMMA RejectCloses ==
  ASSUME NEW v, NEW r, v.force = {r}, v.shown = {r}, ~v.inherited,
         r.p = "reject", v.policy = "reject", r.pct \in {"absent", "full", "over"},
         Subdomains(v) \subseteq Enforcing
  PROVE  RoutesWith(v, "exposed") = {}
<1> DEFINE routes == Routes(r, v.dmarc, v.noMail, "absent")
           sp == IF Has(r.sp) THEN r.sp ELSE "reject"
           np == IF Has(r.np) THEN r.np ELSE sp
<1>1. (CHOOSE x \in v.force : TRUE) = r /\ Record(v) = r
  BY DEF Record
<1>2. v.force # {} /\ Vectors(v) = [x \in RouteNames |-> routes[x]]
  BY <1>1 DEF Vectors, RouteNames
<1>3. Pct(r) \in {100, 150}
  BY DEF Pct, PctOf
<1>4. sp \in Enforcing /\ np \in Enforcing
  BY <1>1 DEF Subdomains
<1>5. FallBack({"sp"}, r) = sp /\ FallBack({"sp", "np"}, r) = np
  BY DEF FallBack
<1> HIDE DEF sp, np
<1>6. \A policy : AtPct(r, policy) = policy
  BY <1>3 DEF AtPct
<1>7. DirectRoute(r, "absent") = "protected"
  BY <1>3 DEF DirectRoute
<1>8. Exposure(sp) # "exposed" /\ Exposure(np) # "exposed"
  BY <1>4 DEF Exposure, Enforcing
<1>9. /\ routes.direct = DirectRoute(r, "absent")
      /\ routes.subdomain = Exposure(sp)
      /\ routes.nonexistent = Exposure(np)
  BY <1>5, <1>6 DEF Routes
<1> HIDE DEF routes
<1>10. \A x \in RouteNames : routes[x] # "exposed"
  BY <1>7, <1>8, <1>9 DEF RouteNames
<1> QED BY <1>2, <1>10 DEF RoutesWith

\* With no route open the box names a protection.
LEMMA ClosedIsProtected ==
  ASSUME NEW v, v.force # {}, RoutesWith(v, "exposed") = {}, ~Unread(v.cards["DMARC"]), ~v.spf.open
  PROVE  Spoofing(v) \in {"Full", "Strong", "Partial", "Weak"}
<1> DEFINE n    == Cardinality(RoutesWith(v, "protected"))
           base == IF v.force = {}                              THEN "None"
                   ELSE IF n = 3                                THEN "Full"
                   ELSE IF n = 2                                THEN "Strong"
                   ELSE IF RoutesWith(v, "partial") # {}        THEN "Partial"
                   ELSE IF n = 1                                THEN "Weak"
                   ELSE "None"
<1>1. Cardinality(RouteNames) = 3
  <2> DEFINE one == {"nonexistent"}
             two == one \cup {"subdomain"}
  <2>1. IsFiniteSet(one) /\ Cardinality(one) = 1
    BY FS_Singleton
  <2>2. "subdomain" \notin one /\ "direct" \notin two
    OBVIOUS
  <2>3. RouteNames = two \cup {"direct"}
    BY DEF RouteNames
  <2> HIDE DEF one
  <2>4. IsFiniteSet(two) /\ Cardinality(two) = 2
    <3>1. IsFiniteSet(two) /\ Cardinality(two) = Cardinality(one) + 1
      BY <2>1, <2>2, FS_AddElement
    <3> QED BY <2>1, <3>1
  <2> HIDE DEF two
  <2>5. Cardinality(two \cup {"direct"}) = Cardinality(two) + 1
    BY <2>2, <2>4, FS_AddElement
  <2> QED BY <2>3, <2>4, <2>5
<1>2. /\ DOMAIN Vectors(v) = RouteNames
      /\ \A x \in RouteNames : Vectors(v)[x] \in {"protected", "partial", "exposed"}
  BY RouteGrades
<1>3. RoutesWith(v, "partial") = {} => RoutesWith(v, "protected") = RouteNames
  BY <1>2 DEF RoutesWith
<1>4. base \in {"Full", "Strong", "Partial", "Weak"}
  BY <1>1, <1>3
<1>5. Spoofing(v) = IF Unread(v.cards["DMARC"])                              THEN "Not assessed"
                    ELSE IF v.spf.open                                       THEN "Bypassed"
                    ELSE IF Testing(v) /\ base \in {"Full", "Strong"}        THEN "Partial"
                    ELSE IF base = "None" /\ v.cards["DMARC"].status # "fail" THEN "Monitoring only"
                    ELSE base
  BY DEF Spoofing
<1> HIDE DEF base
<1> QED BY <1>4, <1>5

\* The requirements fail over a red card alone.
LEMMA RequirementsFail ==
  ASSUME NEW v, Requirements(v) = "fail"
  PROVE  Broken(v) # {}
<1> DEFINE spf   == Requirement(v.cards["SPF"], v.spf.configured)
           keys  == Live(v.dkim.found) # {} \/ v.dkim.noKey # {}
           dkim  == Requirement(v.cards["DKIM"], keys)
           shown == v.shown # {}
           dmarc == Requirement(v.cards["DMARC"], shown)
           rows  == [SPF |-> spf, DKIM |-> dkim, DMARC |-> dmarc]
           all   == {rows[n] : n \in DOMAIN rows}
<1>1. Requirements(v) = IF "not met" \in all THEN "fail" ELSE IF all = {"met"} THEN "pass" ELSE "neutral"
  BY DEF Requirements
<1>2. "not met" \in all
  BY <1>1
<1>3. \A card, configured : Requirement(card, configured) = "not met" => card.status = "fail"
  BY DEF Requirement
<1> HIDE DEF spf, dkim, dmarc, keys, shown
<1>4. spf = "not met" \/ dkim = "not met" \/ dmarc = "not met"
  <2>1. DOMAIN rows = Auth /\ rows.SPF = spf /\ rows.DKIM = dkim /\ rows.DMARC = dmarc
    BY DEF Auth
  <2> HIDE DEF rows
  <2>2. PICK n \in Auth : rows[n] = "not met"
    BY <1>2, <2>1
  <2>3. n = "SPF" \/ n = "DKIM" \/ n = "DMARC"
    BY DEF Auth
  <2> QED BY <2>1, <2>2, <2>3
<1>5. \E n \in Auth : v.cards[n].status = "fail"
  BY <1>3, <1>4 DEF Auth, spf, dkim, dmarc
<1> QED BY <1>5 DEF Broken

\* The policy that applies is that of the record in force, and a domain's own policy that
\* of the record the card shows.
LEMMA PolicyIsInForce ==
  ASSUME NEW z, NEW r, NEW cs, DmarcSound(r.dmarc)
  PROVE  LET v == ViewOf(z, r, cs)
         IN /\ v.policy # "absent" => v.force # {}
            /\ v.policy = "reject" /\ ~v.inherited =>
                 \E record : v.force = {record} /\ v.shown = {record} /\ record.p = "reject"
<1> DEFINE d == r.dmarc
           a == AboveRegistry(d, r.walk.atOrg)
           force == RecordInForce(d, r.walk.atOrg)
           shown == IF d.malformed THEN {d.record} ELSE force
           policy == EffectivePolicy(d, r.walk.atOrg)
           v == ViewOf(z, r, cs)
<1>1. v.force = force /\ v.shown = shown /\ v.policy = policy /\ v.inherited = Inherits(a)
  BY DEF ViewOf
<1> HIDE DEF v
<1>2. a.record = d.record
  BY AboveRegistryIs
<1>3. force = IF d.multiple \/ d.status = "unavailable" THEN {}
              ELSE IF a.found     THEN {a.record}
              ELSE IF Inherits(a) THEN {a.parent}
              ELSE {}
  BY DEF RecordInForce
<1>4. policy = IF d.multiple \/ d.status = "unavailable" THEN "absent"
               ELSE IF a.found     THEN Policy(a.record)
               ELSE IF Inherits(a) THEN a.inherited
               ELSE "absent"
  BY DEF EffectivePolicy
<1> HIDE DEF a, force, policy
<1>5. policy # "absent" => force # {}
  BY <1>3, <1>4
<1>6. ASSUME policy = "reject", ~Inherits(a)
      PROVE  force = {d.record} /\ shown = {d.record} /\ d.record.p = "reject"
  <2>1. force = {a.record} /\ Policy(a.record) = "reject"
    BY <1>3, <1>4, <1>6
  <2> QED BY <1>2, <2>1 DEF Policy
<1> HIDE DEF shown
<1> QED BY <1>1, <1>5, <1>6 DEF v

\* What a green headline says, other than of a domain without mail that is all clear.
LEMMA GreenSays ==
  ASSUME NEW v, Headline(v) = "pass", ~DefensiveClean(v), SpfBacked(v),
         v.policy # "absent" => v.force # {},
         v.policy = "reject" /\ ~v.inherited =>
           \E record : v.force = {record} /\ v.shown = {record} /\ record.p = "reject"
  PROVE  /\ v.cards["DMARC"].status # "fail"
         /\ v.delivery \/ (v.inherited /\ RoutesWith(v, "exposed") # {}) \/
              /\ Broken(v) = {} /\ RoutesWith(v, "exposed") = {}
              /\ Requirements(v) # "fail"
              /\ Spoofing(v) \in {"Full", "Strong", "Partial", "Weak"}
<1> DEFINE exposed == RoutesWith(v, "exposed")
           full    == Record(v).pct \in {"absent", "full", "over"}
<1>1. /\ \A n \in Auth : ~Unread(v.cards[n])
      /\ v.cards["DMARC"].status # "fail"
      /\ ~(Broken(v) # {} /\ exposed = {})
      /\ \/ v.policy = "none" /\ v.delivery
         \/ v.policy = "reject" /\ full /\ Subdomains(v) \subseteq Enforcing
  BY DEF Headline
<1> SUFFICES ASSUME ~v.delivery, ~(v.inherited /\ exposed # {})
             PROVE  /\ Broken(v) = {} /\ exposed = {}
                    /\ Requirements(v) # "fail"
                    /\ Spoofing(v) \in {"Full", "Strong", "Partial", "Weak"}
  BY <1>1
<1>2. v.policy = "reject" /\ full /\ Subdomains(v) \subseteq Enforcing
  BY <1>1
<1>3. exposed = {}
  <2>1. CASE v.inherited
    BY <2>1
  <2>2. CASE ~v.inherited
    <3>1. PICK record : v.force = {record} /\ v.shown = {record} /\ record.p = "reject"
      BY <1>2, <2>2
    <3>2. Record(v) = record
      BY <3>1 DEF Record
    <3> QED BY <1>2, <2>2, <3>1, <3>2, RejectCloses
  <2> QED BY <2>1, <2>2
<1>4. Broken(v) = {}
  BY <1>1, <1>3
<1>5. Requirements(v) # "fail"
  BY <1>4, RequirementsFail
<1>6. ~v.spf.open
  BY <1>4 DEF SpfBacked, Broken, Auth
<1>7. v.force # {} /\ ~Unread(v.cards["DMARC"])
  BY <1>1, <1>2 DEF Auth
<1>8. Spoofing(v) \in {"Full", "Strong", "Partial", "Weak"}
  BY <1>3, <1>6, <1>7, ClosedIsProtected
<1> QED BY <1>3, <1>4, <1>5, <1>8

\* A headline that is green has all of it in the report.
LEMMA Honest ==
  ASSUME Stages PROVE HeadlineHonest
<1> SUFFICES ASSUME Done, plan.headline = "pass" PROVE HeadlineHonest
  BY DEF HeadlineHonest
<1> DEFINE v      == View
           rows   == Roadmap(v)
           clean  == DefensiveClean(v)
           spoken == IF ~clean /\ (zone.delivery \/ Overlooked) THEN {"DMARC"} ELSE Auth
<1>1. v.cards = cards /\ DOMAIN cards = CardNames /\ Backed(v, DkimWaived) /\ plan = AdviceOn(v, rows)
  BY DoneIsBacked
<1>2. /\ plan.rows = rows /\ Headline(v) = "pass" /\ plan.spoofing = Spoofing(v)
      /\ plan.requirements = IF v.noMail THEN "none" ELSE Requirements(v)
  BY <1>1, AdviceFields
<1>3. /\ v.policy # "absent" => v.force # {}
      /\ v.policy = "reject" /\ ~v.inherited =>
           \E record : v.force = {record} /\ v.shown = {record} /\ record.p = "reject"
      /\ v.delivery = zone.delivery
  <2>1. raw = RawResults(zone, Seen)
    BY DEF Stages, Done
  <2>2. DmarcSound(raw.dmarc)
    BY <2>1, ResultsAre
  <2>3. View.delivery = zone.delivery
    BY DEF View, ViewOf
  <2> QED BY <2>2, <2>3, PolicyIsInForce DEF View
<1> HIDE DEF v, rows
<1>4. Overlooked <=> v.inherited /\ RoutesWith(v, "exposed") # {}
  BY DEF Overlooked, v
<1>5. clean => v.noMail /\ \A n \in Auth : cards[n].status # "fail"
  BY <1>1 DEF DefensiveClean, Auth, CardNames
<1>6. ~clean =>
        /\ cards["DMARC"].status # "fail"
        /\ zone.delivery \/ Overlooked \/
             /\ Broken(v) = {} /\ RoutesWith(v, "exposed") = {}
             /\ Requirements(v) # "fail"
             /\ Spoofing(v) \in {"Full", "Strong", "Partial", "Weak"}
  <2> SUFFICES ASSUME ~clean
               PROVE  /\ cards["DMARC"].status # "fail"
                      /\ zone.delivery \/ Overlooked \/
                           /\ Broken(v) = {} /\ RoutesWith(v, "exposed") = {}
                           /\ Requirements(v) # "fail"
                           /\ Spoofing(v) \in {"Full", "Strong", "Partial", "Weak"}
    OBVIOUS
  <2>1. SpfBacked(v)
    BY <1>1 DEF Backed
  <2> QED BY <1>1, <1>2, <1>3, <1>4, <2>1, GreenSays
<1>7. \A c \in spoken : cards[c].status # "fail"
  BY <1>1, <1>5, <1>6 DEF Broken
<1>8. ASSUME NEW row \in ToSet(plan.rows), row.proto \in HeadedBy(spoken)
      PROVE  row.pri # "critical"
  <2>1. RowsFit(v, DkimWaived, rows)
    BY <1>1, RoadmapFits DEF rows
  <2>2. IsList(rows) /\ \A i \in DOMAIN rows : Fits(v, DkimWaived, rows[i])
    BY <2>1, FitsAt
  <2>3. PICK i \in DOMAIN rows : row = rows[i]
    BY <1>2, <1>8 DEF ToSet
  <2>4. row.pri = "critical" => cards[row.proto].status = "fail" \/ (DkimWaived /\ row.proto = "DKIM")
    BY <1>1, <2>2, <2>3 DEF Fits
  <2> HIDE DEF spoken
  <2> QED BY <1>7, <1>8, <2>4 DEF HeadedBy
<1>9. spoken = Auth => plan.requirements # "fail"
  BY <1>2, <1>5, <1>6 DEF Auth
<1>10. spoken = Auth /\ ~clean =>
         RoutesWith(v, "exposed") = {} /\ plan.spoofing \in {"Full", "Strong", "Partial", "Weak"}
  BY <1>2, <1>6 DEF Auth
<1>11. ~v.noMail => ~clean
  BY <1>5
<1> HIDE DEF clean
<1> QED BY <1>7, <1>8, <1>9, <1>10, <1>11 DEF HeadlineHonest, v, clean

\* A green headline is backed by the cards, the plan, the requirements, the routes and the
\* box beside it, whatever the zone publishes and however many of its answers are lost
\* (build_executive_summary).
THEOREM GreenIsBacked == Spec => []HeadlineHonest
BY StagesHold, Honest, PTL

-----------------------------------------------------------------------------
(* The edit of the record. *)

\* A set of places has a last one.
LEMMA LastPlace ==
  ASSUME NEW n \in Nat, NEW I \in SUBSET (1..n), I # {}
  PROVE  \E i \in I : \A k \in I : k <= i
<1> DEFINE J == {n - i : i \in I}
<1>1. J \subseteq 0..n
  <2> SUFFICES ASSUME NEW i \in I PROVE n - i \in 0..n
    OBVIOUS
  <2>1. i \in 1..n
    OBVIOUS
  <2> QED BY <2>1
<1>2. J # {} /\ J \subseteq Nat
  <2>1. PICK i : i \in I
    OBVIOUS
  <2>2. n - i \in J
    BY <2>1
  <2> HIDE DEF J
  <2> QED BY <1>1, <2>2
<1>3. IsFiniteSet(0..n)
  BY FS_Interval
<1> HIDE DEF J
<1>4. IsFiniteSet(J)
  BY <1>1, <1>3, FS_Subset
<1>5. PICK j \in J : \A k \in J : j <= k
  BY <1>1, <1>2, <1>4, FirstPlace
<1>6. PICK i \in I : j = n - i
  BY DEF J
<1>7. ASSUME NEW k \in I PROVE k <= i
  <2>1. j <= n - k
    BY <1>5 DEF J
  <2>2. i \in 1..n /\ k \in 1..n
    OBVIOUS
  <2> QED BY <1>6, <2>1, <2>2
<1> QED BY <1>7

Agree(rows, edits, want) ==
  \A i \in edits : \A tag \in DOMAIN rows[i].set : rows[i].set[tag] = want[tag]
\* Edits that agree are merged into one that sets the tags of all.
LEMMA MergedIs ==
  ASSUME NEW rows, IsList(rows), NEW edits \in SUBSET DOMAIN rows, NEW want,
         Agree(rows, edits, want),
         NEW set, set = MergedSet(rows, edits)
  PROVE  /\ \A tag : tag \in DOMAIN set <=> \E i \in edits : tag \in DOMAIN rows[i].set
         /\ \A tag \in DOMAIN set : set[tag] = want[tag]
<1> DEFINE setting(tag) == {i \in edits : tag \in DOMAIN rows[i].set}
           last(tag)    == CHOOSE i \in setting(tag) : \A k \in setting(tag) : k <= i
           tags         == UNION {DOMAIN rows[i].set : i \in edits}
<1>1. set = [tag \in tags |-> rows[last(tag)].set[tag]]
  BY DEF MergedSet
<1>2. ASSUME NEW tag \in tags PROVE rows[last(tag)].set[tag] = want[tag]
  <2> DEFINE S == setting(tag)
  <2>1. S # {} /\ S \subseteq edits
    OBVIOUS
  <2>2. PICK n \in Nat : DOMAIN rows = 1..n
    BY DEF IsList
  <2>3. S \in SUBSET (1..n)
    BY <2>2
  <2>4. last(tag) \in S
    <3>1. last(tag) = CHOOSE i \in S : \A k \in S : k <= i
      OBVIOUS
    <3> HIDE DEF S, last
    <3> QED BY <2>1, <2>3, <3>1, LastPlace
  <2> HIDE DEF last
  <2> QED BY <2>4 DEF Agree
<1> HIDE DEF tags, last
<1> QED BY <1>1, <1>2 DEF tags

\* The orderings of the change set add nothing to it.
Among(ch, made) == \A k \in DOMAIN ch : \E i \in DOMAIN made : ch[k] = made[i]
LEMMA OrderingsAdd ==
  ASSUME NEW ch, IsList(ch)
  PROVE  /\ IsList(OwnersCallLast(ch)) /\ Among(OwnersCallLast(ch), ch)
         /\ IsList(ReportsFirst(ch))   /\ Among(ReportsFirst(ch), ch)
         /\ IsList(SendersFirst(ch))   /\ Among(SendersFirst(ch), ch)
<1>1. ASSUME NEW key, \A i \in DOMAIN ch : key[i] \in Nat
      PROVE  IsList(Reordered(ch, key)) /\ Among(Reordered(ch, key), ch)
  BY <1>1, ReorderedIs DEF Among
<1>2. IsList(OwnersCallLast(ch)) /\ Among(OwnersCallLast(ch), ch)
  <2> DEFINE edits == {i \in DOMAIN ch : ch[i].kind = "edit"}
             class(i) == IF \E k \in edits : k < i THEN 2
                         ELSE IF edits # {} /\ OwnersCall(ch[i]) THEN 1 ELSE 0
             key == [i \in DOMAIN ch |-> class(i)]
  <2>1. OwnersCallLast(ch) = Reordered(ch, key)
    BY DEF OwnersCallLast
  <2>2. \A i \in DOMAIN ch : key[i] \in Nat
    OBVIOUS
  <2> HIDE DEF key
  <2> QED BY <1>1, <2>1, <2>2
<1>3. IsList(ReportsFirst(ch)) /\ Among(ReportsFirst(ch), ch)
  <2> DEFINE fromSts(i) == \E k \in DOMAIN ch : k <= i /\ ch[k].proto = "MTA-STS"
             class(i)   == IF ~fromSts(i) THEN 0 ELSE IF ch[i].proto = "TLS-RPT" THEN 1 ELSE 2
             key        == [i \in DOMAIN ch |-> class(i)]
  <2>1. ReportsFirst(ch) = Reordered(ch, key)
    BY DEF ReportsFirst
  <2>2. \A i \in DOMAIN ch : key[i] \in Nat
    OBVIOUS
  <2> HIDE DEF key
  <2> QED BY <1>1, <2>1, <2>2
<1>4. IsList(SendersFirst(ch)) /\ Among(SendersFirst(ch), ch)
  <2> DEFINE toSender(i) == \E k \in DOMAIN ch : i <= k /\ ch[k].proto \in {"SPF", "DKIM"}
             class(i)    == IF ~toSender(i) THEN 2 ELSE IF ch[i].enforcing THEN 1 ELSE 0
             key         == [i \in DOMAIN ch |-> class(i)]
  <2>1. SendersFirst(ch) = Reordered(ch, key)
    BY DEF SendersFirst
  <2>2. \A i \in DOMAIN ch : key[i] \in Nat
    OBVIOUS
  <2> HIDE DEF key
  <2> QED BY <1>1, <2>1, <2>2
<1> QED BY <1>2, <1>3, <1>4

\* The edit in the change set is the merged one of all the rows of the plan.
LEMMA EditEntryIs ==
  ASSUME NEW v, NEW waived, NEW rows, RowsFit(v, waived, rows),
         NEW e \in ToSet(ChangeSet(v, rows)), e.kind = "edit"
  PROVE  \E some : /\ IsList(some) /\ Among(some, rows) /\ Among(rows, some)
                   /\ e = DmarcEntry(v, some)
<1> DEFINE key  == [i \in DOMAIN rows |-> IF Optional(v, rows[i]) THEN 1 ELSE 0]
           some == Reordered(rows, key)
           made == Entries(v, some)
           late == OwnersCallLast(made)
           rpts == ReportsFirst(late)
           kept == Kept(some, Publishing(v, some))
<1>1. ChangeSet(v, rows) = SendersFirst(rpts)
  BY DEF ChangeSet
<1>2. IsList(rows) /\ \A i \in DOMAIN rows : Fits(v, waived, rows[i])
  BY FitsAt
<1>3. \A i \in DOMAIN rows : key[i] \in Nat
  OBVIOUS
<1> HIDE DEF key
<1>4. IsList(some) /\ Among(some, rows) /\ Among(rows, some)
  <2>1. /\ IsList(some)
        /\ \A k \in DOMAIN some : Order(DOMAIN rows, key)[k] \in DOMAIN rows
                                  /\ some[k] = rows[Order(DOMAIN rows, key)[k]]
        /\ \A i \in DOMAIN rows : \E k \in DOMAIN some : Order(DOMAIN rows, key)[k] = i
    BY <1>2, <1>3, ReorderedIs
  <2> HIDE DEF some
  <2> QED BY <2>1 DEF Among
<1> HIDE DEF some
<1>5. IsList(kept) /\ Among(kept, some)
  <2>1. Publishing(v, some) \in SUBSET DOMAIN some
    BY DEF Publishing
  <2> QED BY <1>4, <2>1, KeptIs DEF Among
<1>6. made = [k \in DOMAIN kept |-> IF IsEdit(kept[k]) THEN DmarcEntry(v, some) ELSE Entry(kept[k], {})]
  BY DEF Entries
<1> HIDE DEF kept, made
<1>7. IsList(made)
  BY <1>5, <1>6 DEF IsList
<1>8. ASSUME NEW k \in DOMAIN made, made[k].kind = "edit"
      PROVE  made[k] = DmarcEntry(v, some)
  <2>1. k \in DOMAIN kept
    BY <1>6
  <2>2. CASE IsEdit(kept[k])
    BY <1>6, <2>1, <2>2
  <2>3. CASE ~IsEdit(kept[k])
    <3>1. made[k] = Entry(kept[k], {})
      BY <1>6, <2>1, <2>3
    <3>2. Fits(v, waived, kept[k])
      BY <1>2, <1>4, <1>5, <2>1 DEF Among
    <3> QED BY <1>8, <3>1, <3>2 DEF Entry, Fits
  <2> QED BY <2>2, <2>3
<1>9. IsList(late) /\ Among(late, made)
  BY <1>7, OrderingsAdd
<1> HIDE DEF late
<1>10. IsList(rpts) /\ Among(rpts, late)
  BY <1>9, OrderingsAdd
<1> HIDE DEF rpts
<1>11. Among(SendersFirst(rpts), rpts)
  BY <1>10, OrderingsAdd
<1>12. PICK k \in DOMAIN made : e = made[k]
  <2>1. PICK i \in DOMAIN SendersFirst(rpts) : e = SendersFirst(rpts)[i]
    BY <1>1 DEF ToSet
  <2> QED BY <1>9, <1>10, <1>11, <2>1 DEF Among
<1> QED BY <1>4, <1>8, <1>12

\* A record as the plan's edits leave it.
EditTags == {"rua", "p", "sp", "np"}
Merges(r, set, remove) ==
  /\ DOMAIN set \subseteq EditTags /\ remove \subseteq {"pct", "t"}
  /\ \A tag \in DOMAIN set : set[tag] = Wanted(r)[tag]
EditedAs(r, tags, x) ==
  /\ x.rua = IF "rua" \in tags THEN Wanted(r).rua ELSE r.rua
  /\ x.p   = IF "p" \in tags THEN Wanted(r).p ELSE r.p
  /\ x.sp  = IF "sp" \in tags THEN Wanted(r).sp ELSE r.sp
  /\ x.np  = IF "np" \in tags THEN Wanted(r).np ELSE r.np
LEMMA EditedIs ==
  ASSUME NEW r \in DmarcRecord, NEW set, NEW remove, Merges(r, set, remove),
         NEW x, x = Edit(r, set, remove)
  PROVE  /\ x.kind = "good"
         /\ EditedAs(r, DOMAIN set, x)
         /\ "t" \in remove => x.t = "absent"
         /\ "pct" \in remove \/ ~Has(r.pct) => ~Retired(x)
<1> DEFINE pct == IF "pct" \notin remove /\ r.pct \in {"zero", "half"} THEN r.pct ELSE "absent"
           of(tag) == IF tag \in DOMAIN set      THEN set[tag]
                      ELSE IF tag = "pct"        THEN pct
                      ELSE IF tag = "odd"        THEN r.odd \ RetiredOdd
                      ELSE IF tag \in remove     THEN "absent"
                      ELSE r[tag]
<1>1. DOMAIN r = {"kind", "p", "sp", "np", "t", "psd", "pct", "fo", "rua", "ruf", "adkim", "aspf", "odd"}
      /\ r.kind = "good"
  BY DEF DmarcRecord
<1>2. x = [tag \in DOMAIN r |-> of(tag)]
  BY DEF Edit
<1>3. \A tag \in DOMAIN r : x[tag] = of(tag)
  BY <1>2 DEF Merges
<1>4. x.kind = "good" /\ x.pct = pct /\ x.odd = r.odd \ RetiredOdd
  BY <1>1, <1>3 DEF Merges, EditTags
<1>5. EditedAs(r, DOMAIN set, x)
  <2>1. \A tag \in EditTags : x[tag] = IF tag \in DOMAIN set THEN Wanted(r)[tag] ELSE r[tag]
    BY <1>1, <1>3 DEF Merges, EditTags
  <2> QED BY <2>1 DEF EditedAs, EditTags
<1>6. "t" \in remove => x.t = "absent"
  BY <1>1, <1>3 DEF Merges, EditTags
<1>7. "pct" \in remove \/ ~Has(r.pct) => ~Retired(x)
  BY <1>4 DEF Retired, Has
<1> QED BY <1>4, <1>5, <1>6, <1>7

\* No edit of them lowers a policy, of the domain or of a name below it.
LEMMA LevelsRise ==
  ASSUME NEW r \in DmarcRecord, NEW x, NEW tags \in SUBSET EditTags,
         EditedAs(r, tags, x),
         "p" \in tags => ~Has(r.p) \/ r.p \in {"none", "quarantine"},
         "sp" \in tags => Weaker(r, "sp"),
         "np" \in tags => \/ Weaker(r, "np")
                          \/ ~Has(r.np) /\ r.p \in Enforcing /\ ~Weaker(r, "sp")
  PROVE  \A k \in 1..3 : PolicyLevels(x)[k] >= PolicyLevels(r)[k]
<1> DEFINE level(value, fallback) == IF value \in Policies THEN Rank[value] ELSE fallback
           p(y)  == level(y.p, 0)
           sp(y) == level(y.sp, p(y))
           np(y) == level(y.np, sp(y))
<1>1. /\ Rank["none"] = 0 /\ Rank["quarantine"] = 1 /\ Rank["reject"] = 2
      /\ \A value \in Policies : value \in {"none", "quarantine", "reject"}
  BY DEF Rank, Policies
<1>2. /\ r.p \in {"absent", "bad", "none", "quarantine", "reject"}
      /\ r.sp \in {"absent", "bad", "none", "quarantine", "reject"}
      /\ r.np \in {"absent", "bad", "none", "quarantine", "reject"}
  BY DEF DmarcRecord, Policies
<1>3. /\ x.p = IF "p" \in tags THEN IF ~Has(r.p) THEN "none" ELSE IF r.p = "none" THEN "quarantine" ELSE "reject" ELSE r.p
      /\ x.sp = IF "sp" \in tags THEN r.p ELSE r.sp
      /\ x.np = IF "np" \in tags THEN IF ~Has(r.np) /\ r.sp \in Policies THEN r.sp ELSE r.p ELSE r.np
  BY DEF EditedAs, Wanted
<1>4. p(x) >= p(r)
  BY <1>1, <1>2, <1>3 DEF Policies, Has
<1>5. sp(x) >= sp(r)
  BY <1>1, <1>2, <1>3, <1>4 DEF Policies, Has, Weaker, Enforcing
<1>6. np(x) >= np(r)
  BY <1>1, <1>2, <1>3, <1>4, <1>5 DEF Policies, Has, Weaker, Enforcing
<1>7. \A y : PolicyLevels(y) = <<p(y), sp(y), np(y)>>
  BY DEF PolicyLevels
<1> HIDE DEF p, sp, np
<1>8. \A k \in 1..3 : k = 1 \/ k = 2 \/ k = 3
  OBVIOUS
<1> QED BY <1>4, <1>5, <1>6, <1>7, <1>8

\* An edit that was made is not called for again, but for the two that follow p when the
\* plan raises it.
LEMMA EditIsDone ==
  ASSUME NEW r \in DmarcRecord, NEW set, NEW remove, Merges(r, set, remove),
         NEW noMail, NEW kind, NEW s, NEW m, CalledFor(r, noMail, kind, s, m),
         DOMAIN s \subseteq DOMAIN set, m \subseteq remove,
         NEW x, x = Edit(r, set, remove),
         NEW noMail2, NEW s2, NEW m2, CalledFor(x, noMail2, kind, s2, m2)
  PROVE  kind \in Followers /\ r.p \in Enforcing /\ "p" \in DOMAIN set
<1>1. /\ EditedAs(r, DOMAIN set, x)
      /\ "t" \in remove => x.t = "absent"
      /\ "pct" \in remove \/ ~Has(r.pct) => ~Retired(x)
  BY EditedIs
<1>2. CalledFor(x, noMail2, kind, s2, m2)
  OBVIOUS
<1>3. /\ "rua" \in DOMAIN set => x.rua = "mail"
      /\ "p" \in DOMAIN set =>
           x.p = IF ~Has(r.p) THEN "none" ELSE IF r.p = "none" THEN "quarantine" ELSE "reject"
      /\ "sp" \in DOMAIN set => x.sp = r.p
      /\ "np" \in DOMAIN set => x.np = IF ~Has(r.np) /\ r.sp \in Policies THEN r.sp ELSE r.p
      /\ "p" \notin DOMAIN set => x.p = r.p
  BY <1>1 DEF EditedAs, Wanted
<1> USE DEF CalledFor
<1>4. CASE kind = "rua"
  BY <1>2, <1>3, <1>4 DEF Sets, Has
<1>5. CASE kind \in {"p", "enforce", "reject"}
  BY <1>2, <1>3, <1>5 DEF Sets, Has
<1>6. CASE kind = "add np"
  BY <1>2, <1>3, <1>6 DEF Sets, Has, Enforcing, Policies
<1>7. CASE kind = "sp"
  BY <1>2, <1>3, <1>7 DEF Sets, Weaker, Followers, Rank, Enforcing
<1>8. CASE kind = "np"
  <2>1. Has(r.np)
    BY <1>8 DEF Weaker, Policies, Has
  <2> QED BY <1>2, <1>3, <1>8, <2>1 DEF Sets, Weaker, Followers, Rank, Enforcing
<1>9. CASE kind = "retired tags"
  BY <1>1, <1>2, <1>9
<1>10. CASE kind \in {"test mode", "test mode of np"}
  BY <1>1, <1>2, <1>10
<1> QED BY <1>4, <1>5, <1>6, <1>7, <1>8, <1>9, <1>10

\* The tags that an edit sets and those that it removes.
LEMMA EditTagsAre ==
  ASSUME NEW r, NEW noMail, NEW kind, NEW set, NEW remove, NEW hold,
         EditSays(r, noMail, kind, set, remove, hold)
  PROVE  DOMAIN set \subseteq EditTags /\ remove \subseteq {"pct", "t"}
<1> DEFINE tags == DOMAIN set
<1>1. \/ tags = {} /\ (remove = {"t"} \/ remove = {t \in {"pct"} : Has(r.pct)})
      \/ remove = {} /\ (tags = {"rua"} \/ tags = {"p"} \/ tags = {"sp"} \/ tags = {"np"})
  BY DEF EditSays, CalledFor, Sets
<1> HIDE DEF tags
<1>2. tags \subseteq EditTags /\ remove \subseteq {"pct", "t"}
  BY <1>1 DEF EditTags
<1> QED BY <1>2 DEF tags

\* The edit of the change set makes all the edits of the plan, and those alone.
LEMMA EditIsMerged ==
  ASSUME NEW v, NEW waived, NEW rows, RowsFit(v, waived, rows), NEW r, OwnView(v, r),
         NEW e \in ToSet(ChangeSet(v, rows)), e.kind = "edit"
  PROVE  \E set, remove :
           /\ Merges(r, set, remove) /\ e.value = {Edit(r, set, remove)}
           /\ \A i \in DOMAIN rows : IsEdit(rows[i]) =>
                DOMAIN rows[i].set \subseteq DOMAIN set /\ rows[i].remove \subseteq remove
           /\ \A tag \in DOMAIN set : \E i \in DOMAIN rows :
                IsEdit(rows[i]) /\ tag \in DOMAIN rows[i].set /\ (rows[i].hold => e.enforcing)
<1>1. PICK some : IsList(some) /\ Among(some, rows) /\ Among(rows, some) /\ e = DmarcEntry(v, some)
  BY EditEntryIs
<1> DEFINE edits  == {i \in DOMAIN some : IsEdit(some[i])}
           set    == MergedSet(some, edits)
           remove == UNION {some[i].remove : i \in edits}
           value  == Edit(r, set, remove)
           hold   == \E i \in edits : some[i].hold
           rises  == MakesEnforcing(r, value)
<1>2. e = [proto |-> "DMARC", kind |-> "edit", value |-> {value}, enforcing |-> hold \/ rises]
  <2>1. (CHOOSE x \in v.shown : TRUE) = r
    BY DEF OwnView
  <2> QED BY <1>1, <2>1 DEF DmarcEntry
<1> HIDE DEF set, value, rises
<1>3. e.value = {value} /\ (hold => e.enforcing)
  <2> HIDE DEF hold
  <2> QED BY <1>2
<1>4. ASSUME NEW i \in edits
      PROVE  EditSays(r, v.noMail, some[i].kind, some[i].set, some[i].remove, some[i].hold)
  <2>1. PICK k \in DOMAIN rows : some[i] = rows[k]
    BY <1>1 DEF Among
  <2>2. Fits(v, waived, some[i])
    BY <2>1, FitsAt
  <2> QED BY <1>4, <2>2 DEF Fits
<1>5. /\ \A tag : tag \in DOMAIN set <=> \E i \in edits : tag \in DOMAIN some[i].set
      /\ \A tag \in DOMAIN set : set[tag] = Wanted(r)[tag]
  <2>1. \A i \in edits : \A tag \in DOMAIN some[i].set : some[i].set[tag] = Wanted(r)[tag]
    BY <1>4 DEF EditSays
  <2>2. edits \in SUBSET DOMAIN some
    OBVIOUS
  <2>3. set = MergedSet(some, edits)
    BY DEF set
  <2> DEFINE want == Wanted(r)
  <2>4. Agree(some, edits, want)
    BY <2>1 DEF Agree
  <2> HIDE DEF edits, want
  <2>5. /\ \A tag : tag \in DOMAIN set <=> \E i \in edits : tag \in DOMAIN some[i].set
        /\ \A tag \in DOMAIN set : set[tag] = want[tag]
    BY <1>1, <2>2, <2>3, <2>4, MergedIs
  <2> QED BY <2>5 DEF want
<1>6. Merges(r, set, remove)
  <2>1. \A i \in edits : DOMAIN some[i].set \subseteq EditTags /\ some[i].remove \subseteq {"pct", "t"}
    <3> HIDE DEF edits, remove
    <3> QED BY <1>4, EditTagsAre
  <2>2. ASSUME NEW tag \in DOMAIN set PROVE tag \in EditTags
    <3>1. PICK i \in edits : tag \in DOMAIN some[i].set
      BY <1>5
    <3> HIDE DEF edits
    <3> QED BY <2>1, <3>1
  <2>3. remove \subseteq {"pct", "t"}
    BY <2>1
  <2> HIDE DEF remove
  <2> QED BY <1>5, <2>2, <2>3 DEF Merges
<1>7. ASSUME NEW i \in DOMAIN rows, IsEdit(rows[i])
      PROVE  DOMAIN rows[i].set \subseteq DOMAIN set /\ rows[i].remove \subseteq remove
  <2>1. PICK k \in DOMAIN some : rows[i] = some[k]
    BY <1>1 DEF Among
  <2>2. k \in edits
    BY <1>7, <2>1
  <2> QED BY <1>5, <2>1, <2>2
<1>8. ASSUME NEW tag \in DOMAIN set
      PROVE  \E i \in DOMAIN rows :
               IsEdit(rows[i]) /\ tag \in DOMAIN rows[i].set /\ (rows[i].hold => e.enforcing)
  <2>1. PICK k \in edits : tag \in DOMAIN some[k].set
    BY <1>5
  <2>2. PICK i \in DOMAIN rows : some[k] = rows[i]
    BY <1>1 DEF Among
  <2> QED BY <1>3, <2>1, <2>2
<1> HIDE DEF remove
<1> QED BY <1>3, <1>6, <1>7, <1>8 DEF value

\* Published, it lowers nothing, and the next plan asks for none of its edits again but
\* for sp and np after a p that the plan raised.
LEMMA EditsSettle ==
  ASSUME NEW v, NEW waived, NEW rows, RowsFit(v, waived, rows), NEW r \in DmarcRecord, OwnView(v, r),
         NEW e \in ToSet(ChangeSet(v, rows)), e.kind = "edit", NEW new, new = (CHOOSE x \in e.value : TRUE)
  PROVE  /\ new.kind = "good"
         /\ \A k \in 1..3 : PolicyLevels(new)[k] >= PolicyLevels(r)[k]
         /\ \A v2, waived2, rows2 : OwnView(v2, new) /\ RowsFit(v2, waived2, rows2) =>
              EditKinds(rows2) \cap EditKinds(rows) \subseteq IF e.enforcing THEN Followers ELSE {}
<1>1. PICK set, remove :
           /\ Merges(r, set, remove) /\ e.value = {Edit(r, set, remove)}
           /\ \A i \in DOMAIN rows : IsEdit(rows[i]) =>
                DOMAIN rows[i].set \subseteq DOMAIN set /\ rows[i].remove \subseteq remove
           /\ \A tag \in DOMAIN set : \E i \in DOMAIN rows :
                IsEdit(rows[i]) /\ tag \in DOMAIN rows[i].set /\ (rows[i].hold => e.enforcing)
  BY EditIsMerged
<1>2. new = Edit(r, set, remove)
  BY <1>1
<1>3. \A i \in DOMAIN rows : IsEdit(rows[i]) =>
        EditSays(r, v.noMail, rows[i].kind, rows[i].set, rows[i].remove, rows[i].hold)
  BY FitsAt DEF Fits
<1>4. \A tag \in DOMAIN set : \E kind, s, m, hold :
        EditSays(r, v.noMail, kind, s, m, hold) /\ tag \in DOMAIN s /\ (hold => e.enforcing)
  BY <1>1, <1>3
<1>5. new.kind = "good" /\ EditedAs(r, DOMAIN set, new)
  BY <1>1, <1>2, EditedIs
<1>6. \A k \in 1..3 : PolicyLevels(new)[k] >= PolicyLevels(r)[k]
  <2>1. DOMAIN set \in SUBSET EditTags
    BY <1>1 DEF Merges
  <2> DEFINE calls(tag) == /\ tag = "p" => ~Has(r.p) \/ r.p \in {"none", "quarantine"}
                           /\ tag = "sp" => Weaker(r, "sp")
                           /\ tag = "np" => \/ Weaker(r, "np")
                                            \/ (~Has(r.np) /\ r.p \in Enforcing /\ ~Weaker(r, "sp"))
  <2>2. ASSUME NEW tag \in DOMAIN set PROVE calls(tag)
    <3>1. PICK kind, s, m, hold : EditSays(r, v.noMail, kind, s, m, hold) /\ tag \in DOMAIN s
      BY <1>4
    <3>2. CalledFor(r, v.noMail, kind, s, m)
      BY <3>1 DEF EditSays
    <3> QED BY <3>1, <3>2 DEF CalledFor, Sets
  <2> QED BY <1>5, <2>1, <2>2, LevelsRise
<1>7. ASSUME NEW v2, NEW waived2, NEW rows2, OwnView(v2, new), RowsFit(v2, waived2, rows2),
             NEW kind \in EditKinds(rows2) \cap EditKinds(rows)
      PROVE  kind \in Followers /\ e.enforcing
  <2>1. PICK i \in DOMAIN rows : kind = rows[i].kind /\ IsEdit(rows[i])
    BY DEF EditKinds, ToSet
  <2>2. PICK k \in DOMAIN rows2 : kind = rows2[k].kind /\ IsEdit(rows2[k])
    BY DEF EditKinds, ToSet
  <2>3. CalledFor(r, v.noMail, kind, rows[i].set, rows[i].remove)
    BY <1>3, <2>1 DEF EditSays
  <2>4. CalledFor(new, v2.noMail, kind, rows2[k].set, rows2[k].remove)
    <3>1. Fits(v2, waived2, rows2[k])
      BY <1>7, FitsAt
    <3> QED BY <1>7, <2>2, <3>1 DEF Fits, EditSays
  <2>5. DOMAIN rows[i].set \subseteq DOMAIN set /\ rows[i].remove \subseteq remove
    BY <1>1, <2>1
  <2>6. kind \in Followers /\ r.p \in Enforcing /\ "p" \in DOMAIN set
    BY <1>1, <1>2, <2>3, <2>4, <2>5, EditIsDone
  <2>7. e.enforcing
    <3>1. PICK how, s, m, hold :
            EditSays(r, v.noMail, how, s, m, hold) /\ "p" \in DOMAIN s /\ (hold => e.enforcing)
      BY <1>4, <2>6
    <3>2. CalledFor(r, v.noMail, how, s, m) /\ (how = "reject" => hold)
      BY <3>1 DEF EditSays
    <3> DEFINE tags == DOMAIN s
    <3>3. \/ ~Has(r.p) \/ r.p = "none" \/ how = "reject"
          \/ tags = {"rua"} \/ tags = {"sp"} \/ tags = {"np"} \/ tags = {}
      BY <3>2 DEF CalledFor, Sets
    <3>4. Has(r.p) /\ r.p # "none" /\ "p" \in tags
      BY <2>6, <3>1 DEF Has, Enforcing
    <3> HIDE DEF tags
    <3> QED BY <3>1, <3>2, <3>3, <3>4
  <2> QED BY <2>6, <2>7
<1> QED BY <1>5, <1>6, <1>7

-----------------------------------------------------------------------------
(* The next audit, of the record published. *)

\* The DMARC records that an answer holds.
Goods(dns) == {x \in dns[<<"TXT", "_dmarc">>].rr : x.kind = "good"}

\* The check of a name with one record reads that one.
LEMMA RawDmarcReads ==
  ASSUME NEW dns, NEW d, d = RawDmarc(dns)
  PROVE  /\ d.found => ~d.malformed /\ ~d.registry
         /\ d.found /\ ~d.multiple => d.record \in Goods(dns)
         /\ \A x : ~IsLost(dns[<<"TXT", "_dmarc">>]) /\ Goods(dns) = {x} =>
              d.found /\ ~d.multiple /\ d.record = x
<1> DEFINE txt   == dns[<<"TXT", "_dmarc">>]
           good  == {x \in txt.rr : x.kind = "good"}
           near  == {x \in txt.rr : x.kind = "near"}
           aside == IssueIf(\E x \in txt.rr : x.kind = "other", "info", "other txt")
                    \cup IssueIf(Got(dns[<<"CNAME", "_dmarc">>]), "info", "cname")
           r     == CHOOSE x \in good : TRUE
           almost == CHOOSE x \in near : TRUE
           syntax == Syntax(r) \cup FatalPolicy(r)
                     \cup IssueIf(near # {}, "error", "lowercase version")
           one    == aside \cup {Issue("error", "malformed version tag")}
           none   == aside \cup {Issue("error", "no record")}
           many   == aside \cup {Issue("error", "several records")}
           issues == aside \cup RecordIssues(r) \cup syntax
           status == RawStatus(issues)
           ready  == Readiness(r, status)
<1>1. d = IF IsLost(txt) THEN NoDmarc("unavailable", FALSE, FALSE, {})
          ELSE IF good = {} /\ near # {} THEN [NoDmarc("error", TRUE, FALSE, one) EXCEPT !.record = almost]
          ELSE IF good = {} THEN NoDmarc("error", FALSE, FALSE, none)
          ELSE IF Cardinality(good) > 1 THEN
               [NoDmarc("error", FALSE, TRUE, many) EXCEPT !.found = TRUE, !.record = r]
          ELSE [NoDmarc(status, FALSE, FALSE, issues)
                  EXCEPT !.found = TRUE, !.record = r, !.syntax = syntax, !.readiness = ready]
  BY DEF RawDmarc, OneDmarc, FoundDmarc
<1>2. good = Goods(dns)
  BY DEF Goods
<1>3. good # {} => r \in good
  OBVIOUS
<1>4. \A x : good = {x} => Cardinality(good) = 1 /\ r = x
  BY FS_Singleton
<1> DEFINE lost2 == IsLost(txt)
           several == Cardinality(good) > 1
<1> HIDE DEF txt, good, near, r, almost, syntax, one, none, many, issues, status, ready, lost2
<1>5. CASE lost2
  <2>1. d = NoDmarc("unavailable", FALSE, FALSE, {})
    BY <1>1, <1>5 DEF lost2
  <2>2. ~d.found
    BY <2>1 DEF NoDmarc
  <2> QED BY <1>5, <2>2 DEF lost2, txt
<1>6. CASE ~lost2 /\ good = {}
  <2>1. \/ d = [NoDmarc("error", TRUE, FALSE, one) EXCEPT !.record = almost]
        \/ d = NoDmarc("error", FALSE, FALSE, none)
    BY <1>1, <1>6 DEF lost2
  <2>2. ~d.found
    BY <2>1 DEF NoDmarc
  <2> QED BY <1>2, <1>6, <2>2
<1>7. CASE ~lost2 /\ good # {} /\ several
  <2>1. d = [NoDmarc("error", FALSE, TRUE, many) EXCEPT !.found = TRUE, !.record = r]
    BY <1>1, <1>7 DEF lost2
  <2>2. d.multiple /\ ~d.malformed /\ ~d.registry
    BY <2>1 DEF NoDmarc
  <2> QED BY <1>2, <1>4, <1>7, <2>2
<1>8. CASE ~lost2 /\ good # {} /\ ~several
  <2>1. d = [NoDmarc(status, FALSE, FALSE, issues)
               EXCEPT !.found = TRUE, !.record = r, !.syntax = syntax, !.readiness = ready]
    BY <1>1, <1>8 DEF lost2
  <2>2. d.found /\ ~d.multiple /\ ~d.malformed /\ ~d.registry /\ d.record = r
    BY <2>1 DEF NoDmarc
  <2> QED BY <1>2, <1>3, <1>4, <1>8, <2>2
<1> QED BY <1>5, <1>6, <1>7, <1>8

\* And what the rest of the audit adds to it leaves that alone.
LEMMA AuditReads ==
  ASSUME NEW dns, NEW walk, NEW n, NEW psl, NEW external,
         NEW d, d = AuditDmarc(dns, walk, n, psl, external)
  PROVE  /\ d.found /\ ~d.multiple => d.record \in Goods(dns) /\ ~d.malformed /\ ~d.registry
         /\ \A x : ~IsLost(dns[<<"TXT", "_dmarc">>]) /\ Goods(dns) = {x} =>
              d.found /\ ~d.multiple /\ d.record = x
<1> DEFINE first == RawDmarc(dns)
           mid   == EnrichInheritance(first, dns, walk, n, psl)
<1>1. /\ first.found => ~first.malformed /\ ~first.registry
      /\ first.found /\ ~first.multiple => first.record \in Goods(dns)
      /\ \A x : ~IsLost(dns[<<"TXT", "_dmarc">>]) /\ Goods(dns) = {x} =>
              first.found /\ ~first.multiple /\ first.record = x
  <2> HIDE DEF first
  <2>1. first = RawDmarc(dns)
    BY DEF first
  <2> QED BY <2>1, RawDmarcReads
<1>2. first.found => mid = first
  BY DEF EnrichInheritance
<1>3. ~first.found => ~mid.found
  <2> SUFFICES ASSUME ~first.found PROVE ~mid.found
    OBVIOUS
  <2> DEFINE inherited == RecoveredPolicy(walk.policy, walk.record)
             source    == walk.source
             parent    == walk.record
             registry  == walk.source < psl
             below     == ~(walk.source < psl /\ psl = n)
             r         == CHOOSE x \in OneRecord(dns[<<"TXT", "_dmarc.org">>]) : TRUE
             theirs    == RecoveredPolicy(IF Has(r.sp) THEN r.sp ELSE r.p, r)
  <2>1. \/ mid = [first EXCEPT !.lost = TRUE]
        \/ mid = [first EXCEPT !.inherited = inherited, !.source = source, !.parent = parent,
                              !.registry = registry, !.isSubdomain = below]
        \/ mid = first
        \/ mid = [first EXCEPT !.inherited = theirs, !.source = psl, !.parent = r, !.isSubdomain = TRUE]
    BY DEF EnrichInheritance, FromPsl
  <2>2. DmarcSound(first)
    BY RawDmarcIs
  <2> HIDE DEF first, mid, inherited, source, parent, registry, below, r, theirs
  <2> QED BY <2>1, <2>2 DEF DmarcSound, DmarcFields
<1> HIDE DEF first
<1>4. DmarcSound(mid)
  BY RawDmarcIs, InheritanceIs DEF first
<1>5. d = WithReportAuth(mid, dns, external)
  BY DEF AuditDmarc, first
<1> HIDE DEF mid
<1> DEFINE tags  == {t \in {"rua", "ruf"} : Has(mid.record[t])}
           dests == {Destination(dns, t, external) : t \in tags}
           away  == {x \in dests : x.external}
           issues == mid.issues \cup (
                  IssueIf(\E x \in away : x.authorized = "no", "error", "destination not authorized")
             \cup IssueIf(\E x \in away : x.unchecked, "warning", "authorization not checked")
             \cup IssueIf(\E x \in away : x.hasMx = "no", "warning", "destination without mx")
             \cup IssueIf("ruf" \in tags, "info", "ruf"))
<1>6. \/ d = mid \/ d = [mid EXCEPT !.authUnknown = TRUE]
      \/ d = [mid EXCEPT !.destinations = dests, !.issues = issues]
  <2>1. d = IF ~mid.found \/ mid.multiple \/ tags = {} THEN mid
            ELSE IF IsLost(dns[<<"time", "report-auth">>]) THEN [mid EXCEPT !.authUnknown = TRUE]
            ELSE [mid EXCEPT !.destinations = dests, !.issues = issues]
    BY <1>5 DEF WithReportAuth
  <2> HIDE DEF tags, dests, issues
  <2> QED BY <2>1
<1> HIDE DEF tags, dests, issues
<1>7. /\ d.found = mid.found /\ d.multiple = mid.multiple /\ d.record = mid.record
      /\ d.malformed = mid.malformed /\ d.registry = mid.registry
  BY <1>4, <1>6 DEF DmarcSound, DmarcFields
<1>8. CASE first.found
  BY <1>1, <1>2, <1>7, <1>8
<1>9. CASE ~first.found
  BY <1>1, <1>3, <1>7, <1>9
<1> QED BY <1>8, <1>9

\* A domain whose record was read has a view of its own.
LEMMA OwnViewIs ==
  ASSUME NEW z, NEW r, NEW cs, DmarcSound(r.dmarc), r.dmarc.found, ~r.dmarc.multiple,
         ~r.dmarc.malformed, ~r.dmarc.registry
  PROVE  OwnView(ViewOf(z, r, cs), r.dmarc.record)
<1> DEFINE d     == r.dmarc
           v     == ViewOf(z, r, cs)
           above == AboveRegistry(d, r.walk.atOrg)
           force == RecordInForce(d, r.walk.atOrg)
<1>1. above = d
  BY DEF AboveRegistry
<1>2. ~Inherits(d)
  BY DEF Inherits
<1>3. force = {d.record}
  BY <1>1 DEF RecordInForce, DmarcSound
<1>4. /\ v.dmarc = above /\ v.force = force /\ v.inherited = Inherits(above)
      /\ v.shown = IF d.malformed THEN {d.record} ELSE force
  BY DEF ViewOf
<1> HIDE DEF v, above, force
<1>5. OwnView(v, d.record)
  BY <1>1, <1>2, <1>3, <1>4 DEF OwnView
<1> QED BY <1>5 DEF v

\* What says that a domain has no mail is in its MX and SPF answers alone.
IsNullMx(mx) ==
  /\ ~IsLost(mx) /\ mx.rc # "nx" /\ mx.rr # {}
  /\ Cardinality(mx.rr) = 1 /\ \E x \in {y \in mx.rr : MxNull(y)} : x.pref = 0
LEMMA NullMxIs ==
  ASSUME NEW dns
  PROVE  CheckMx(dns).null_mx = IsNullMx(dns[<<"MX", "domain">>])
<1> DEFINE m     == CheckMx(dns)
           mx    == dns[<<"MX", "domain">>]
           nulls == {x \in mx.rr : MxNull(x)}
           real == mx.rr \ nulls
           isNull == Cardinality(mx.rr) = 1 /\ \E x \in nulls : x.pref = 0
           issues == IssueIf(nulls # {}, "error",
                             IF real # {} THEN "null mx beside others" ELSE "null mx preference")
                     \cup MxHostIssues(dns, real)
           status == RawStatus(issues)
           details == {[host |-> x.host, provider |-> x.provider,
                         resolved |-> MxResolved(dns, x)] : x \in real}
           odd  == nulls # {}
           rr   == mx.rr
           gone == IsLost(mx)
           nx   == mx.rc = "nx"
           none == [ status |-> "info", records |-> rr, null_mx |-> TRUE, misconfigured |-> FALSE,
                     details |-> {}, issues |-> {Issue("info", "null mx")} ]
           some == [ status |-> status, records |-> rr, null_mx |-> FALSE, misconfigured |-> odd,
                     details |-> details, issues |-> issues ]
<1>1. m = IF gone         THEN MxEmpty("unavailable", {Issue("info", "mx lookup failed")})
          ELSE IF nx      THEN MxEmpty("error", {Issue("error", "no such domain")})
          ELSE IF rr = {} THEN MxEmpty("warning", {Issue("warning", "no mx records")})
          ELSE IF isNull  THEN none ELSE some
  BY DEF CheckMx
<1> HIDE DEF m, isNull, issues, status, details, odd, rr, gone, nx
<1>2. none.null_mx /\ ~some.null_mx /\ some.null_mx \in BOOLEAN /\ none.null_mx \in BOOLEAN
  OBVIOUS
<1>3. m.null_mx = IF ~gone /\ ~nx /\ rr # {} /\ isNull THEN TRUE ELSE FALSE
  <2>1. \A status2, issues2 : MxEmpty(status2, issues2).null_mx = FALSE
    BY DEF MxEmpty
  <2> HIDE DEF none, some
  <2> QED BY <1>1, <1>2, <2>1
<1>4. IsNullMx(mx) = IF ~gone /\ ~nx /\ rr # {} /\ isNull THEN TRUE ELSE FALSE
  <2>1. IsNullMx(mx) <=> (~gone /\ ~nx /\ rr # {} /\ isNull)
    BY Zenon DEF IsNullMx, gone, nx, rr, isNull
  <2>2. IsNullMx(mx) \in BOOLEAN
    BY Zenon DEF IsNullMx
  <2> QED BY <2>1, <2>2
<1> QED BY <1>3, <1>4 DEF m

\* So it is the same after any change of another record.
LEMMA NullSpfIs ==
  ASSUME NEW dns, NEW dns2, dns[<<"SPF", "domain">>] = dns2[<<"SPF", "domain">>]
  PROVE  RawSpf(dns).null = RawSpf(dns2).null
<1> DEFINE txt  == dns[<<"SPF", "domain">>]
           good == {x \in txt.rr : x.kind = "good"}
           one  == CHOOSE x \in good : TRUE
           gone == IsLost(txt)
           near == \E x \in txt.rr : x.kind = "near"
           many == Cardinality(good) > 1
           null == IF gone \/ good = {} \/ many THEN FALSE ELSE IsNullSpf(one)
<1>1. ASSUME NEW any, any[<<"SPF", "domain">>] = txt PROVE RawSpf(any).null = null
  <2> DEFINE s      == RawSpf(any)
             count  == CountSpfLookups(any)
             issues == SpfIssues(one, count)
             found  == FoundSpf(one, count, issues)
  <2>1. s = IF gone THEN NoSpf("unavailable", FALSE, FALSE, {})
            ELSE IF good = {} /\ near THEN NoSpf("error", TRUE, FALSE, {Issue("error", "malformed version tag")})
            ELSE IF good = {} THEN NoSpf("error", FALSE, FALSE, {Issue("error", "no record")})
            ELSE IF many THEN NoSpf("error", FALSE, TRUE, {Issue("error", "several records")})
            ELSE found
    BY <1>1 DEF RawSpf, OneSpf
  <2>2. found.null = IsNullSpf(one)
    <3> HIDE DEF one, count, issues
    <3> QED BY DEF FoundSpf
  <2>3. \A status, malformed, multiple, issues2 : NoSpf(status, malformed, multiple, issues2).null = FALSE
    BY DEF NoSpf
  <2> HIDE DEF s, found, gone, good, near, many, one
  <2>4. s.null = null
    BY <2>1, <2>2, <2>3
  <2> QED BY <2>4 DEF s
<1> HIDE DEF null
<1>2. RawSpf(dns).null = null
  BY <1>1
<1>3. RawSpf(dns2).null = null
  BY <1>1
<1> QED BY <1>2, <1>3

\* What an audit reads of the name itself.
LEMMA ResultsRead ==
  ASSUME NEW z, NEW dns
  PROVE  LET r == RawResults(z, dns)
         IN /\ r.mx = CheckMx(dns) /\ r.spf = RawSpf(dns)
            /\ r.dmarc = AuditDmarc(dns, TreeWalk(dns, z.n, z.psl), z.n, z.psl, z.external)
<1> DEFINE walk == TreeWalk(dns, z.n, z.psl)
           mx   == CheckMx(dns)
           dmarc == AuditDmarc(dns, walk, z.n, z.psl, z.external)
           dnssec == RawDnssec(dns)
           r    == RawResults(z, dns)
<1>1. r = ResultsWith(z, dns, mx, walk, dmarc, dnssec)
  BY DEF RawResults, ResultsOf
<1> HIDE DEF walk, mx, dmarc, dnssec, r
<1>2. r.spf = RawSpf(dns) /\ r.dmarc = dmarc /\ r.mx = mx
  BY <1>1 DEF ResultsWith
<1> QED BY <1>2 DEF dmarc, mx, walk, r

\* Of every zone the questions about its records have answers, and its DMARC record is one.
LEMMA SeenIs ==
  ASSUME zone \in Zones
  PROVE  /\ {<<"MX", "domain">>, <<"SPF", "domain">>, <<"TXT", "_dmarc">>} \subseteq DOMAIN Seen
         /\ Goods(Seen) \subseteq DmarcRecord
<1> DEFINE dns  == Over(zone.dns, Background)
           gone == [q \in DOMAIN lost |-> Lost(lost[q])]
           key  == <<"TXT", "_dmarc">>
<1>1. /\ {<<"MX", "domain">>, <<"SPF", "domain">>, <<"TXT", "_dmarc">>} \subseteq DOMAIN dns
      /\ \A x \in dns[key].rr : x.kind = "good" => x \in DmarcRecord
  <2>1. Asked(zone, dns) \subseteq DOMAIN dns /\ \A x \in dns[key].rr : x.kind = "good" => x \in DmarcRecord
    BY ZonesAssumption
  <2>2. /\ <<"MX", "domain">> \in AlwaysAsked /\ <<"SPF", "domain">> \in AlwaysAsked
        /\ <<"TXT", "_dmarc">> \in AlwaysAsked
    BY DEF AlwaysAsked
  <2> QED BY <2>1, <2>2 DEF Asked
<1>2. Seen = [q \in DOMAIN gone \cup DOMAIN dns |-> IF q \in DOMAIN gone THEN gone[q] ELSE dns[q]]
  BY DEF Seen, Answers, Over
<1>3. key \in DOMAIN dns
  BY <1>1
<1> HIDE DEF dns, key
<1>4. Seen[key] = IF key \in DOMAIN lost THEN Lost(lost[key]) ELSE dns[key]
  BY <1>2, <1>3
<1>5. \A rc : Lost(rc).rr = {}
  BY DEF Lost
<1>6. \A x \in Seen[key].rr : x.kind = "good" => x \in DmarcRecord
  BY <1>1, <1>4, <1>5
<1>7. Goods(Seen) = {x \in Seen[key].rr : x.kind = "good"}
  BY DEF Goods, key
<1>8. DOMAIN dns \subseteq DOMAIN Seen
  BY <1>2
<1> QED BY <1>1, <1>6, <1>7, <1>8

\* The next audit of a domain that published x reads x, and its mail as before.
LEMMA NextAuditIs ==
  ASSUME zone \in Zones, NEW x, x.kind = "good", NEW old, old = RawResults(zone, Seen)
  PROVE  LET new == RawResults(zone, NextAnswers(x))
         IN /\ OwnRecord(new) /\ new.dmarc.record = x
            /\ new.mx.null_mx = old.mx.null_mx /\ new.spf.null = old.spf.null
            /\ OwnView(ViewWith(new), x)
            /\ ViewWith(new).noMail = IsDefensive(new)
            /\ \E waived : RowsFit(ViewWith(new), waived, NextPlan(x))
<1> DEFINE dns == NextAnswers(x)
           key == <<"TXT", "_dmarc">>
           new == RawResults(zone, dns)
<1>1. /\ dns[key] = Ok({x})
      /\ dns[<<"MX", "domain">>] = Seen[<<"MX", "domain">>]
      /\ dns[<<"SPF", "domain">>] = Seen[<<"SPF", "domain">>]
  <2>1. /\ key # <<"DMARC", zone.n>>
        /\ <<"MX", "domain">> # key /\ <<"MX", "domain">> # <<"DMARC", zone.n>>
        /\ <<"SPF", "domain">> # key /\ <<"SPF", "domain">> # <<"DMARC", zone.n>>
    OBVIOUS
  <2>2. {<<"MX", "domain">>, <<"SPF", "domain">>, key} \subseteq DOMAIN Seen
    BY SeenIs
  <2> DEFINE mx  == <<"MX", "domain">>
             spf == <<"SPF", "domain">>
             own == <<"DMARC", zone.n>>
             one == Ok({x})
  <2>3. dns = [Seen EXCEPT ![key] = one, ![own] = one]
    BY DEF NextAnswers
  <2> HIDE DEF dns, key, mx, spf, own, one
  <2>4. dns[key] = one /\ dns[mx] = Seen[mx] /\ dns[spf] = Seen[spf]
    <3>1. key # own /\ mx # key /\ mx # own /\ spf # key /\ spf # own
      BY <2>1 DEF key, mx, spf, own
    <3>2. key \in DOMAIN Seen /\ mx \in DOMAIN Seen /\ spf \in DOMAIN Seen
      BY <2>2 DEF key, mx, spf
    <3> QED BY <2>3, <3>1, <3>2
  <2> QED BY <2>4 DEF key, mx, spf, one, dns
<1>2. ~IsLost(dns[key]) /\ Goods(dns) = {x}
  <2>1. dns[key].rr = {x} /\ dns[key].rc = "ok"
    BY <1>1 DEF Ok
  <2>2. Goods(dns) = {y \in dns[key].rr : y.kind = "good"}
    BY DEF Goods
  <2>3. \A y \in {x} : y.kind = "good"
    OBVIOUS
  <2> QED BY <2>1, <2>2, <2>3 DEF IsLost, LossCodes
<1> HIDE DEF dns
<1> DEFINE walk == TreeWalk(dns, zone.n, zone.psl)
           d    == AuditDmarc(dns, walk, zone.n, zone.psl, zone.external)
<1>3. new.dmarc = d /\ new.mx = CheckMx(dns) /\ new.spf = RawSpf(dns)
  BY ResultsRead
<1>4. old.mx = CheckMx(Seen) /\ old.spf = RawSpf(Seen)
  BY ResultsRead
<1>5. new.mx.null_mx = old.mx.null_mx /\ new.spf.null = old.spf.null
  BY <1>1, <1>3, <1>4, NullMxIs, NullSpfIs
<1>6. d.found /\ ~d.multiple /\ d.record = x /\ ~d.malformed /\ ~d.registry
  <2> HIDE DEF walk
  <2>1. /\ d.found /\ ~d.multiple => d.record \in Goods(dns) /\ ~d.malformed /\ ~d.registry
        /\ \A y : ~IsLost(dns[key]) /\ Goods(dns) = {y} => d.found /\ ~d.multiple /\ d.record = y
    BY AuditReads
  <2> QED BY <1>2, <2>1
<1>7. DmarcSound(d)
  BY AuditDmarcSound
<1> HIDE DEF d, walk, new
<1>8. OwnRecord(new) /\ new.dmarc.record = x
  BY <1>3, <1>6 DEF OwnRecord
<1>9. OwnView(ViewWith(new), x)
  BY <1>3, <1>6, <1>7, OwnViewIs DEF ViewWith
<1>10. ViewWith(new).noMail = IsDefensive(new)
  BY DEF ViewWith, ViewOf
<1>11. \E waived : RowsFit(ViewWith(new), waived, NextPlan(x))
  <2>1. Backed(ViewWith(new), IsDefensive(new) /\ SendsNoMail(new))
    BY ReportIsBacked DEF ViewWith, CardsOf, new
  <2>2. NextPlan(x) = Roadmap(ViewWith(new))
    BY DEF NextPlan, new, dns
  <2> QED BY <2>1, <2>2, RoadmapFits
<1> QED BY <1>5, <1>8, <1>9, <1>10, <1>11 DEF new, dns

\* What the target of a record says, as its own target repeats it.
LEMMA EndStateIs ==
  ASSUME NEW r \in DmarcRecord, NEW noMail, ~Unsettled(r)
  PROVE  LET end == EndState(r, noMail)
         IN /\ end \in DmarcRecord /\ (Has(end.rua) \/ noMail)
            /\ end.p = "reject" /\ end.sp = "reject" /\ end.np \in {"bad", "reject"}
            /\ end.t # "y" /\ end.psd # "y" /\ ~Has(end.pct) /\ end.odd \cap RetiredOdd = {}
            /\ end.fo = IF Has(end.ruf) THEN "one" ELSE "absent"
<1> DEFINE odd == r.odd \ RetiredOdd
           rua == IF Has(r.rua) \/ noMail THEN r.rua ELSE "mail"
           fo  == IF ~Has(r.ruf) THEN "absent" ELSE "one"
           np  == IF r.np \in {"absent", "none"} THEN "reject" ELSE r.np
           t   == IF r.t = "y" THEN "absent" ELSE r.t
           end == EndState(r, noMail)
           told == Reporting(r, noMail)
           bare == [told EXCEPT !.pct = "absent", !.odd = @ \ RetiredOdd]
<1>1. told \in DmarcRecord /\ told.rua = rua
      /\ \A f \in {"kind", "p", "sp", "np", "t", "psd", "pct", "fo", "ruf", "adkim", "aspf", "odd"} : told[f] = r[f]
  <2>1. CASE Has(r.rua) \/ noMail
    BY <2>1 DEF Reporting
  <2>2. CASE ~(Has(r.rua) \/ noMail)
    <3>1. told = [r EXCEPT !.rua = "mail"] /\ rua = "mail"
      BY <2>2 DEF Reporting
    <3> HIDE DEF told, rua
    <3> QED BY <3>1 DEF DmarcRecord
  <2> QED BY <2>1, <2>2
<1>2. end = [bare EXCEPT !.p = "reject", !.sp = "reject", !.np = np, !.fo = fo, !.t = t]
  BY DEF EndState, WithoutRetired
<1>3. /\ np \in {"bad", "reject"} /\ t \in {"absent", "bad", "n"} /\ fo \in {"absent", "one"}
      /\ r.psd \in {"absent", "bad", "n", "u"}
  BY DEF Unsettled, DmarcRecord, Policies
<1>4. bare \in DmarcRecord /\ bare.rua = rua /\ bare.ruf = r.ruf /\ bare.psd = r.psd
      /\ bare.pct = "absent" /\ bare.odd = odd
  <2>1. "absent" \in DOMAIN PctOf
    BY DEF PctOf
  <2> HIDE DEF told, rua
  <2> QED BY <1>1, <2>1 DEF DmarcRecord
<1> HIDE DEF told, bare, np, fo, t, end, rua, odd
<1>5. /\ end \in DmarcRecord
      /\ end.p = "reject" /\ end.sp = "reject" /\ end.np = np /\ end.fo = fo /\ end.t = t
      /\ end.rua = rua /\ end.ruf = r.ruf /\ end.psd = r.psd /\ end.pct = "absent" /\ end.odd = odd
  <2>1. /\ np \in {"absent", "bad", "none", "quarantine", "reject"}
        /\ fo \in {"absent", "bad", "zero", "one", "other"} /\ t \in {"absent", "bad", "n", "y"}
    BY <1>3
  <2> DEFINE one == [bare EXCEPT !.p = "reject"]
             two == [one EXCEPT !.sp = "reject"]
             three == [two EXCEPT !.np = np]
             four == [three EXCEPT !.fo = fo]
  <2>2. end \in DmarcRecord
    <3>1. end = [four EXCEPT !.t = t]
      BY <1>2
    <3>2. one \in DmarcRecord
      BY <1>4 DEF DmarcRecord, Policies
    <3> HIDE DEF one
    <3>3. two \in DmarcRecord
      BY <3>2 DEF DmarcRecord, Policies
    <3> HIDE DEF two
    <3>4. three \in DmarcRecord
      BY <2>1, <3>3 DEF DmarcRecord, Policies
    <3> HIDE DEF three
    <3>5. four \in DmarcRecord
      BY <2>1, <3>4 DEF DmarcRecord, Policies
    <3> HIDE DEF four
    <3> QED BY <2>1, <3>1, <3>5 DEF DmarcRecord, Policies
  <2>3. /\ end.p = "reject" /\ end.sp = "reject" /\ end.np = np /\ end.fo = fo /\ end.t = t
        /\ end.rua = bare.rua /\ end.ruf = bare.ruf /\ end.psd = bare.psd
        /\ end.pct = bare.pct /\ end.odd = bare.odd
    BY <1>2, <1>4 DEF DmarcRecord
  <2> QED BY <1>4, <2>2, <2>3
<1>6. Has(rua) \/ noMail
  BY DEF rua, Has
<1>7. odd \cap RetiredOdd = {}
  BY DEF odd
<1>8. fo = IF Has(end.ruf) THEN "one" ELSE "absent"
  BY <1>5 DEF fo
<1> QED BY <1>3, <1>5, <1>6, <1>7, <1>8 DEF Has, end

\* A target is its own target, is ready when it reports, and calls for no edit.
LEMMA EndStateRests ==
  ASSUME NEW end \in DmarcRecord, NEW noMail, Has(end.rua) \/ noMail,
         end.p = "reject", end.sp = "reject", end.np \in {"bad", "reject"},
         end.t # "y", end.psd # "y", ~Has(end.pct), end.odd \cap RetiredOdd = {},
         end.fo = IF Has(end.ruf) THEN "one" ELSE "absent"
  PROVE  /\ EndState(end, noMail) = end
         /\ Has(end.rua) => Health(end, noMail) = "ready"
         /\ \A noMail2, kind, s, m : Has(end.rua) \/ noMail2 => ~CalledFor(end, noMail2, kind, s, m)
<1>1. Reporting(end, noMail) = end
  BY DEF Reporting
<1>2. end.pct = "absent" /\ end.odd \ RetiredOdd = end.odd
  BY DEF Has
<1>3. EndState(end, noMail) = end
  <2> DEFINE fo  == IF ~Has(end.ruf) THEN "absent" ELSE "one"
             np  == IF end.np \in {"absent", "none"} THEN "reject" ELSE end.np
             t   == IF end.t = "y" THEN "absent" ELSE end.t
             odd == end.odd \ RetiredOdd
  <2>1. fo = end.fo /\ np = end.np /\ t = end.t /\ odd = end.odd
    BY <1>2
  <2>2. EndState(end, noMail) =
          [[end EXCEPT !.pct = "absent", !.odd = odd] EXCEPT
             !.p = "reject", !.sp = "reject", !.np = np, !.fo = fo, !.t = t]
    BY <1>1 DEF EndState, WithoutRetired
  <2> HIDE DEF fo, np, t, odd
  <2>3. [end EXCEPT !.pct = "absent", !.odd = odd] = end
    BY <1>2, <2>1 DEF DmarcRecord
  <2>4. [end EXCEPT !.p = "reject", !.sp = "reject", !.np = np, !.fo = fo, !.t = t] = end
    BY <2>1 DEF DmarcRecord
  <2> QED BY <2>2, <2>3, <2>4
<1>4. ~Weaker(end, "sp") /\ ~Weaker(end, "np") /\ ~Retired(end)
  BY DEF Weaker, Rank, Policies, Retired
<1>5. Has(end.rua) => Health(end, noMail) = "ready"
  <2>1. CriticalWarnings(end) = {}
    BY <1>4 DEF CriticalWarnings
  <2>2. AdvisoryWarnings(end, noMail) \cap LowersEnforcement = {}
    BY <1>4 DEF AdvisoryWarnings, LowersEnforcement
  <2> QED BY <1>4, <2>1, <2>2 DEF Health, Enforcing
<1>6. ASSUME NEW noMail2, NEW kind, NEW s, NEW m, Has(end.rua) \/ noMail2
      PROVE  ~CalledFor(end, noMail2, kind, s, m)
  <2>1. Has(end.p) /\ Has(end.np)
    BY DEF Has
  <2> QED BY <1>4, <1>6, <2>1 DEF CalledFor
<1> QED BY <1>3, <1>5, <1>6

\* A way that only goes up, so far; a step that lowers nothing keeps it one.
Level1(r) == PolicyLevels(r)[1]
Climbs(path) ==
  /\ path \in Seq(DmarcRecord) /\ path # <<>>
  /\ \A i \in 1..(Len(path) - 1) : Level1(path[i]) <= Level1(path[i + 1])

LEMMA StepClimbs ==
  ASSUME NEW path, Climbs(path), NEW applies \in BOOLEAN, NEW next \in DmarcRecord,
         applies => Level1(Latest(path)) <= Level1(next)
  PROVE  /\ Climbs(Step(path, applies, next))
         /\ Latest(Step(path, applies, next)) = IF applies THEN next ELSE Latest(path)
<1>1. CASE ~applies
  BY <1>1 DEF Step
<1>2. CASE applies
  <2> DEFINE n     == Len(path)
             after == Append(path, next)
  <2>1. Step(path, applies, next) = after
    BY <1>2 DEF Step
  <2>2. path \in Seq(DmarcRecord) /\ n \in Nat
    BY DEF Climbs
  <2>3. after \in Seq(DmarcRecord) /\ Len(after) = n + 1 /\ after[n + 1] = next
        /\ \A i \in 1..n : after[i] = path[i]
    BY <2>2
  <2>4. after # <<>>
    BY <2>2, <2>3
  <2>5. ASSUME NEW i \in 1..(Len(after) - 1) PROVE Level1(after[i]) <= Level1(after[i + 1])
    <3>1. CASE i = n
      BY <1>2, <2>2, <2>3, <2>5, <3>1 DEF Latest
    <3>2. CASE i # n
      <4>1. i \in 1..(Len(path) - 1) /\ i \in 1..n /\ i + 1 \in 1..n
        BY <2>2, <2>3, <3>2
      <4> QED BY <2>3, <4>1 DEF Climbs
    <3> QED BY <3>1, <3>2
  <2> HIDE DEF after
  <2>6. Climbs(after)
    BY <2>3, <2>4, <2>5 DEF Climbs
  <2>7. Latest(after) = next
    BY <2>3 DEF Latest
  <2> QED BY <1>2, <2>1, <2>6, <2>7
<1> QED BY <1>1, <1>2

\* The last record of a way is a record.
LEMMA LatestIs ==
  ASSUME NEW path, Climbs(path) PROVE Latest(path) \in DmarcRecord
BY DEF Climbs, Latest

\* The level of the policy itself.
LEMMA LevelIs == \A r : Level1(r) = IF r.p \in Policies THEN Rank[r.p] ELSE 0
BY DEF Level1, PolicyLevels

\* A policy tested and then enforced is a climb, if it is above the one in force.
LEMMA TestingClimbs ==
  ASSUME NEW path, Climbs(path), NEW applies \in BOOLEAN, NEW policy \in Policies,
         applies => Level1(Latest(path)) <= Rank[policy]
  PROVE  LET after == TestThenEnforce(path, applies, policy)
         IN /\ Climbs(after)
            /\ Latest(after).p = IF applies THEN policy ELSE Latest(path).p
<1> DEFINE first   == [Latest(path) EXCEPT !.p = policy, !.t = "y"]
           testing == Step(path, applies, first)
           second  == [Latest(testing) EXCEPT !.t = "absent"]
           after   == Step(testing, applies, second)
<1>1. first \in DmarcRecord /\ first.p = policy
  <2>1. Latest(path) \in DmarcRecord
    BY LatestIs
  <2> QED BY <2>1 DEF DmarcRecord
<1>2. TestThenEnforce(path, applies, policy) = after
  BY DEF TestThenEnforce
<1> HIDE DEF first
<1>3. /\ Climbs(testing) /\ Latest(testing) = IF applies THEN first ELSE Latest(path)
  BY <1>1, StepClimbs, LevelIs
<1> HIDE DEF testing
<1>4. second \in DmarcRecord /\ second.p = Latest(testing).p
  <2>1. Latest(testing) \in DmarcRecord
    BY <1>3, LatestIs
  <2> QED BY <2>1 DEF DmarcRecord
<1> HIDE DEF second
<1>5. Level1(Latest(testing)) = Level1(second)
  BY <1>4, LevelIs
<1>6. Level1(second) \in Nat
  BY LevelIs DEF Rank, Policies
<1>7. Climbs(after) /\ Latest(after) = IF applies THEN second ELSE Latest(testing)
  BY <1>3, <1>4, <1>5, <1>6, StepClimbs
<1> HIDE DEF after
<1> QED BY <1>1, <1>2, <1>3, <1>4, <1>7

\* The steps for the names below leave the policy itself alone.
LEMMA SubdomainsClimb ==
  ASSUME NEW path, Climbs(path), NEW r
  PROVE  LET after == SubdomainSteps(path, r)
         IN Climbs(after) /\ Latest(after).p = Latest(path).p
<1> DEFINE first  == [Latest(path) EXCEPT !.sp = "reject"]
           weak   == r.sp \in {"none", "quarantine"}
           fixed  == Step(path, weak, first)
           second == [Latest(fixed) EXCEPT !.fo = "one"]
           silent == Has(r.ruf) /\ r.fo \in {"absent", "zero"}
           told   == Step(fixed, silent, second)
           last   == Latest(told)
           sp     == IF Has(r.sp) THEN last.sp ELSE "reject"
           np     == IF Has(r.np) THEN last.np ELSE "reject"
           third  == [last EXCEPT !.sp = sp, !.np = np]
           short  == ~Has(r.sp) \/ ~Has(r.np)
           after  == Step(told, short, third)
<1>1. SubdomainSteps(path, r) = after
  BY DEF SubdomainSteps
<1>2. weak \in BOOLEAN /\ silent \in BOOLEAN /\ short \in BOOLEAN
  BY DEF Has
<1>3. \A x, y : x.p = y.p => Level1(x) <= Level1(y)
  <2>1. \A x : Level1(x) \in Nat
    BY LevelIs DEF Rank, Policies
  <2>2. \A x, y : x.p = y.p => Level1(x) = Level1(y)
    BY LevelIs
  <2> QED BY <2>1, <2>2
<1> HIDE DEF weak, silent, short
<1>4. first \in DmarcRecord /\ first.p = Latest(path).p
  BY LatestIs DEF DmarcRecord, Policies
<1> HIDE DEF first
<1>5. Climbs(fixed) /\ Latest(fixed).p = Latest(path).p
  BY <1>2, <1>3, <1>4, StepClimbs
<1> HIDE DEF fixed
<1>6. second \in DmarcRecord /\ second.p = Latest(fixed).p
  BY <1>5, LatestIs DEF DmarcRecord
<1> HIDE DEF second
<1>7. Climbs(told) /\ last.p = Latest(fixed).p
  BY <1>2, <1>3, <1>5, <1>6, StepClimbs
<1> HIDE DEF told
<1>8. last \in DmarcRecord
  BY <1>7, LatestIs
<1> HIDE DEF last
<1>9. third \in DmarcRecord /\ third.p = last.p
  <2>1. sp \in {"absent", "bad"} \cup Policies /\ np \in {"absent", "bad"} \cup Policies
    BY <1>8 DEF DmarcRecord, Policies
  <2> HIDE DEF sp, np
  <2> QED BY <1>8, <2>1 DEF DmarcRecord
<1> HIDE DEF third
<1>10. Climbs(after) /\ Latest(after).p = last.p
  BY <1>2, <1>3, <1>7, <1>9, StepClimbs DEF last
<1> HIDE DEF after
<1> QED BY <1>1, <1>5, <1>7, <1>10

\* The way to the target never lowers the policy, and leads to reject from every policy
\* of a record that is not ready.
LEMMA MigrationClimbs ==
  ASSUME NEW r \in DmarcRecord, NEW noMail \in BOOLEAN
  PROVE  LET path == MigrationPath(r, noMail)
         IN /\ Climbs(path)
            /\ r.p \in Policies /\ Health(r, noMail) # "ready" => Latest(path).p = "reject"
<1> DEFINE bare      == WithoutRetired(r)
           cleaned   == Step(<<r>>, Retired(r), bare)
           mute      == ~Has(r.rua) /\ ~noMail
           p         == IF Has(Latest(cleaned).p) THEN Latest(cleaned).p ELSE "none"
           told      == [Latest(cleaned) EXCEPT !.p = p, !.rua = "mail"]
           reporting == Step(cleaned, mute, told)
           none      == r.p = "none"
           low       == r.p \in {"none", "quarantine"}
           quarantine == TestThenEnforce(reporting, none, "quarantine")
           reject     == TestThenEnforce(quarantine, low, "reject")
           path       == MigrationPath(r, noMail)
<1>1. path = IF Health(r, noMail) = "ready" THEN <<r>> ELSE SubdomainSteps(reject, r)
  BY DEF MigrationPath
<1>2. Retired(r) \in BOOLEAN /\ mute \in BOOLEAN /\ none \in BOOLEAN /\ low \in BOOLEAN
  BY DEF Retired, Has
<1>3. \A x : Level1(x) \in Nat
  BY LevelIs DEF Rank, Policies
<1>4. Climbs(<<r>>) /\ Latest(<<r>>) = r
  BY DEF Climbs, Latest
<1>5. bare \in DmarcRecord /\ bare.p = r.p
  <2>1. "absent" \in DOMAIN PctOf
    BY DEF PctOf
  <2> QED BY <2>1 DEF WithoutRetired, DmarcRecord
<1> HIDE DEF bare, mute
<1>6. Climbs(cleaned) /\ Latest(cleaned).p = r.p
  <2>1. Level1(Latest(<<r>>)) <= Level1(bare)
    BY <1>3, <1>4, <1>5, LevelIs
  <2> QED BY <1>2, <1>4, <1>5, <2>1, StepClimbs
<1> HIDE DEF cleaned
<1>7. p = IF Has(r.p) THEN r.p ELSE "none"
  BY <1>6
<1>8. told \in DmarcRecord /\ told.p = p
  <2>1. Latest(cleaned) \in DmarcRecord
    BY <1>6, LatestIs
  <2>2. p \in {"absent", "bad", "none", "quarantine", "reject"}
    BY <1>7 DEF DmarcRecord, Policies
  <2> DEFINE last   == Latest(cleaned)
             mailed == [last EXCEPT !.rua = "mail"]
  <2>3. mailed \in DmarcRecord
    BY <2>1 DEF DmarcRecord
  <2>4. told = [mailed EXCEPT !.p = p]
    BY <2>1 DEF DmarcRecord
  <2> HIDE DEF told, p, mailed
  <2> QED BY <2>2, <2>3, <2>4 DEF DmarcRecord, Policies
<1> HIDE DEF told, p
<1>9. Climbs(reporting) /\ (Latest(reporting).p = p \/ Latest(reporting).p = r.p)
  <2>1. Level1(Latest(cleaned)) <= Level1(told)
    <3>1. Level1(Latest(cleaned)) = IF r.p \in Policies THEN Rank[r.p] ELSE 0
      BY <1>6, LevelIs
    <3>2. Level1(told) = IF p \in Policies THEN Rank[p] ELSE 0
      BY <1>8, LevelIs
    <3> QED BY <1>7, <3>1, <3>2 DEF Has, Policies, Rank
  <2>2. Climbs(reporting) /\ Latest(reporting) = IF mute THEN told ELSE Latest(cleaned)
    BY <1>2, <1>6, <1>8, <2>1, StepClimbs
  <2> HIDE DEF reporting
  <2> QED BY <1>6, <1>8, <2>2
<1>10. r.p \in Policies => Latest(reporting).p = r.p
  BY <1>7, <1>9 DEF Policies, Has
<1> HIDE DEF reporting, low, none
<1>11. /\ Climbs(quarantine)
       /\ Latest(quarantine).p = IF none THEN "quarantine" ELSE Latest(reporting).p
  <2>1. none => Level1(Latest(reporting)) <= Rank["quarantine"]
    BY <1>10, LevelIs DEF Policies, Rank, none
  <2>2. "quarantine" \in Policies
    BY DEF Policies
  <2>3. Climbs(reporting) /\ none \in BOOLEAN
    BY <1>2, <1>9
  <2>4. Climbs(TestThenEnforce(reporting, none, "quarantine"))
        /\ Latest(TestThenEnforce(reporting, none, "quarantine")).p =
              IF none THEN "quarantine" ELSE Latest(reporting).p
    BY <2>1, <2>2, <2>3, TestingClimbs
  <2> QED BY <2>4
<1> HIDE DEF quarantine
<1>12. Climbs(reject) /\ Latest(reject).p = IF low THEN "reject" ELSE Latest(quarantine).p
  <2>1. Level1(Latest(quarantine)) <= Rank["reject"]
    BY LevelIs DEF Policies, Rank
  <2>2. "reject" \in Policies
    BY DEF Policies
  <2>3. Climbs(quarantine) /\ low \in BOOLEAN
    BY <1>2, <1>11
  <2>4. Climbs(TestThenEnforce(quarantine, low, "reject"))
        /\ Latest(TestThenEnforce(quarantine, low, "reject")).p =
              IF low THEN "reject" ELSE Latest(quarantine).p
    BY <2>1, <2>2, <2>3, TestingClimbs
  <2> QED BY <2>4
<1> HIDE DEF reject
<1>13. r.p \in Policies => Latest(reject).p = "reject"
  BY <1>10, <1>11, <1>12 DEF Policies, low, none
<1>14. Climbs(SubdomainSteps(reject, r)) /\ Latest(SubdomainSteps(reject, r)).p = Latest(reject).p
  BY <1>12, SubdomainsClimb
<1> HIDE DEF path
<1>15. Climbs(path) /\ (r.p \in Policies /\ Health(r, noMail) # "ready" => Latest(path).p = "reject")
  BY <1>1, <1>4, <1>13, <1>14
<1> QED BY <1>15 DEF path

-----------------------------------------------------------------------------
(* The advice. *)

\* A domain that is defensive stays so when its record says reject.
LEMMA DefenseStays ==
  ASSUME NEW old, NEW new, IsDefensive(old), OwnReject(new),
         new.mx.null_mx = old.mx.null_mx, new.spf.null = old.spf.null
  PROVE  IsDefensive(new)
<1> DEFINE all == {"null mx", "null spf", "reject"}
           says(r, x) == CASE x = "null mx" -> r.mx.null_mx [] x = "null spf" -> r.spf.null
                           [] OTHER -> OwnReject(r)
           S(r) == {x \in all : says(r, x)}
<1>1. S(old) \subseteq S(new)
  OBVIOUS
<1>2. IsFiniteSet(all)
  <2>1. IsFiniteSet({}) /\ IsFiniteSet({} \cup {"null mx"})
    BY FS_EmptySet, FS_AddElement
  <2>2. IsFiniteSet(({} \cup {"null mx"}) \cup {"null spf"})
    BY <2>1, FS_AddElement
  <2>3. IsFiniteSet((({} \cup {"null mx"}) \cup {"null spf"}) \cup {"reject"})
    BY <2>2, FS_AddElement
  <2>4. (({} \cup {"null mx"}) \cup {"null spf"}) \cup {"reject"} = all
    OBVIOUS
  <2> QED BY <2>3, <2>4
<1>3. IsFiniteSet(S(new))
  BY <1>2, FS_Subset
<1> HIDE DEF S
<1>4. IsFiniteSet(S(old)) /\ Cardinality(S(old)) <= Cardinality(S(new))
  BY <1>1, <1>3, FS_Subset
<1>5. Cardinality(S(old)) \in Nat /\ Cardinality(S(new)) \in Nat
  BY <1>3, <1>4, FS_CardinalityType
<1>6. Cardinality(S(old)) >= 2 /\ (old.mx.null_mx \/ old.spf.null)
  BY DEF IsDefensive, S
<1>7. Cardinality(S(new)) >= 2
  BY <1>4, <1>5, <1>6
<1> QED BY <1>6, <1>7 DEF IsDefensive, S

\* What a finished audit of a domain with a record of its own made of it.
LEMMA OwnIsRead ==
  ASSUME Stages, Done, Own
  PROVE  LET r == raw.dmarc.record
         IN /\ zone \in Zones /\ raw = RawResults(zone, Seen)
            /\ r \in DmarcRecord /\ OwnView(View, r)
            /\ View.noMail = IsDefensive(raw) /\ View.noMail \in BOOLEAN
            /\ RowsFit(View, DkimWaived, plan.rows)
            /\ plan.changes = ChangeSet(View, plan.rows)
<1> DEFINE d == raw.dmarc
<1>1. zone \in Zones /\ raw = RawResults(zone, Seen)
  BY DEF Stages, Done
<1>2. d = AuditDmarc(Seen, TreeWalk(Seen, zone.n, zone.psl), zone.n, zone.psl, zone.external)
  BY <1>1, ResultsRead
<1>3. DmarcSound(d)
  BY <1>2, AuditDmarcSound
<1>4. d.found /\ ~d.multiple /\ d.record \in Goods(Seen) /\ ~d.malformed /\ ~d.registry
  BY <1>2, AuditReads DEF Own
<1>5. d.record \in DmarcRecord
  BY <1>1, <1>4, SeenIs
<1>6. OwnView(View, d.record)
  BY <1>3, <1>4, OwnViewIs DEF View
<1>7. View.noMail = IsDefensive(raw)
  BY DEF View, ViewOf
<1>8. IsDefensive(raw) \in BOOLEAN
  BY DEF IsDefensive
<1>9. Backed(View, DkimWaived) /\ plan = AdviceOn(View, Roadmap(View))
  BY DoneIsBacked
<1>10. plan.rows = Roadmap(View) /\ plan.changes = ChangeSet(View, Roadmap(View))
  BY <1>9, AdviceFields
<1>11. RowsFit(View, DkimWaived, plan.rows)
  BY <1>9, <1>10, RoadmapFits
<1> QED BY <1>1, <1>5, <1>6, <1>7, <1>8, <1>10, <1>11

\* The target of a record that is ready is one that the plan leaves alone.
LEMMA EndsAtRest ==
  ASSUME Stages, Done, Own, ~Unsettled(raw.dmarc.record) PROVE EndStateSettles
<1> DEFINE r   == raw.dmarc.record
           end == EndState(r, View.noMail)
           new == RawResults(zone, NextAnswers(end))
           rows == NextPlan(end)
<1>1. /\ zone \in Zones /\ raw = RawResults(zone, Seen) /\ r \in DmarcRecord
      /\ View.noMail = IsDefensive(raw)
  BY OwnIsRead
<1>2. /\ end \in DmarcRecord /\ (Has(end.rua) \/ View.noMail)
      /\ end.p = "reject" /\ end.sp = "reject" /\ end.np \in {"bad", "reject"}
      /\ end.t # "y" /\ end.psd # "y" /\ ~Has(end.pct) /\ end.odd \cap RetiredOdd = {}
      /\ end.fo = IF Has(end.ruf) THEN "one" ELSE "absent"
  BY <1>1, EndStateIs
<1> HIDE DEF end
<1>3. /\ EndState(end, View.noMail) = end
      /\ Has(end.rua) => Health(end, View.noMail) = "ready"
      /\ \A noMail2, kind, s, m : Has(end.rua) \/ noMail2 => ~CalledFor(end, noMail2, kind, s, m)
  BY <1>2, EndStateRests
<1>4. end.kind = "good"
  BY <1>2 DEF DmarcRecord
<1>5. /\ OwnRecord(new) /\ new.dmarc.record = end
      /\ new.mx.null_mx = raw.mx.null_mx /\ new.spf.null = raw.spf.null
      /\ OwnView(ViewWith(new), end) /\ ViewWith(new).noMail = IsDefensive(new)
      /\ \E waived : RowsFit(ViewWith(new), waived, rows)
  BY <1>1, <1>4, NextAuditIs
<1> HIDE DEF new, rows
<1>6. ~Has(end.rua) /\ View.noMail => ViewWith(new).noMail
  <2> SUFFICES ASSUME ~Has(end.rua), View.noMail PROVE ViewWith(new).noMail
    OBVIOUS
  <2>1. Policy(end) = "reject"
    BY <1>2 DEF Policy, Recovered, RuaValid, Has
  <2>2. OwnReject(new)
    BY <1>5, <2>1 DEF OwnReject
  <2> QED BY <1>1, <1>5, <2>2, DefenseStays
<1>7. Has(end.rua) \/ ViewWith(new).noMail
  BY <1>2, <1>6
<1>8. ASSUME NEW i \in DOMAIN rows PROVE ~IsEdit(rows[i])
  <2>1. PICK waived : Fits(ViewWith(new), waived, rows[i])
    BY <1>5, FitsAt
  <2>2. ~CalledFor(end, ViewWith(new).noMail, rows[i].kind, rows[i].set, rows[i].remove)
    BY <1>3, <1>7
  <2> QED BY <1>5, <2>1, <2>2 DEF Fits, EditSays
<1>9. EditKinds(rows) = {}
  BY <1>8 DEF EditKinds, ToSet
<1> QED BY <1>3, <1>9 DEF EndStateSettles, IsLeftAlone, end, rows

\* An edit that is published comes to an end.
LEMMA EditsEnd ==
  ASSUME Stages, Done, Own, NEW e \in ToSet(plan.changes), e.kind = "edit"
  PROVE  EditSettles(e)
<1> DEFINE r    == raw.dmarc.record
           new  == CHOOSE x \in e.value : TRUE
           next == RawResults(zone, NextAnswers(new))
<1>1. /\ zone \in Zones /\ raw = RawResults(zone, Seen)
      /\ r \in DmarcRecord /\ OwnView(View, r)
      /\ RowsFit(View, DkimWaived, plan.rows) /\ plan.changes = ChangeSet(View, plan.rows)
  BY OwnIsRead
<1> DEFINE fixed == IF e.enforcing THEN Followers ELSE {}
<1>2. /\ new.kind = "good"
      /\ \A k \in 1..3 : PolicyLevels(new)[k] >= PolicyLevels(r)[k]
      /\ \A v2, waived2, rows2 : OwnView(v2, new) /\ RowsFit(v2, waived2, rows2) =>
           EditKinds(rows2) \cap EditKinds(plan.rows) \subseteq fixed
  BY <1>1, EditsSettle
<1> HIDE DEF new, fixed
<1>3. OwnView(ViewWith(next), new) /\ \E waived : RowsFit(ViewWith(next), waived, NextPlan(new))
  BY <1>1, <1>2, NextAuditIs
<1> HIDE DEF next
<1>4. EditKinds(NextPlan(new)) \cap EditKinds(plan.rows) \subseteq fixed
  BY <1>2, <1>3
<1> QED BY <1>2, <1>4 DEF EditSettles, new, fixed

\* The two, and a way that only goes up, for an audit that is done.
LEMMA Settled ==
  ASSUME Stages PROVE AdviceSettles
<1> SUFFICES ASSUME Done, Own PROVE AdviceSettles
  BY DEF AdviceSettles
<1> DEFINE r    == raw.dmarc.record
           path == MigrationPath(r, View.noMail)
<1>1. \A e \in ToSet(plan.changes) : e.kind = "edit" => EditSettles(e)
  BY EditsEnd
<1>2. ~Unsettled(r) => EndStateSettles
  BY EndsAtRest
<1>3. PathRises
  <2>1. r \in DmarcRecord /\ View.noMail \in BOOLEAN
    BY OwnIsRead
  <2>2. /\ Climbs(path)
        /\ r.p \in Policies /\ Health(r, View.noMail) # "ready" => Latest(path).p = "reject"
    BY <2>1, MigrationClimbs
  <2> HIDE DEF path
  <2>3. Rises(path)
    BY <2>2 DEF Rises, Climbs, Level1, Latest
  <2> QED BY <2>3 DEF PathRises, path
<1> QED BY <1>1, <1>2, <1>3 DEF AdviceSettles

\* Advice that is followed comes to an end, for every record of every zone: an edit
\* published as the plan shows it lowers no policy and is not asked for again by the next
\* audit, the target is left alone by it, and the way to the target only goes up
\* (_edit_dmarc_record, _dmarc_end_state, _build_migration_path).
THEOREM AdviceIsSettled == Spec => []AdviceSettles
BY StagesHold, Settled, PTL
=============================================================================
