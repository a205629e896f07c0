----------------------------- MODULE AuditService -----------------------------
(***************************************************************************)
(* What the audit endpoints promise about the resources their requests     *)
(* share, without handlers, awaits, counters or futures: at most MaxAudits  *)
(* requests hold a slot, a key has at most one leader, the leader holds a   *)
(* slot for as long as it leads, and a request that is over holds nothing.  *)
(* AuditServer implements it.                                               *)
(***************************************************************************)
EXTENDS Integers, FiniteSets

CONSTANTS Requests, Keys, MaxAudits, NoOne

VARIABLES phase,    \* phase[r]: "new", "served" or "over"
          holders,  \* the requests that hold a slot
          leader    \* leader[k]: the request whose audit others may join

vars == <<phase, holders, leader>>

Init == /\ phase = [r \in Requests |-> "new"]
        /\ holders = {}
        /\ leader = [k \in Keys |-> NoOne]

\* Turned away, or answered at once.
Refuse(r) == /\ phase[r] = "new"
             /\ phase' = [phase EXCEPT ![r] = "over"]
             /\ UNCHANGED <<holders, leader>>

\* Waits for an audit that somebody else leads, and costs nothing.
Wait(r) == /\ phase[r] = "new"
           /\ \E k \in Keys : leader[k] # NoOne
           /\ phase' = [phase EXCEPT ![r] = "served"]
           /\ UNCHANGED <<holders, leader>>

Lead(r) == /\ r \notin {leader[k] : k \in Keys}
           /\ \E k \in Keys : leader[k] = NoOne /\ leader' = [leader EXCEPT ![k] = r]

Admit(r) == /\ phase[r] = "new"
            /\ Cardinality(holders) < MaxAudits
            /\ phase' = [phase EXCEPT ![r] = "served"]
            /\ holders' = holders \cup {r}
            /\ Lead(r) \/ UNCHANGED leader

Promote(r) == /\ r \in holders
              /\ Lead(r)
              /\ UNCHANGED <<phase, holders>>

Finish(r) == /\ phase[r] = "served"
             /\ phase' = [phase EXCEPT ![r] = "over"]
             /\ holders' = holders \ {r}
             /\ leader' = [k \in Keys |-> IF leader[k] = r THEN NoOne ELSE leader[k]]

Next == \E r \in Requests : Refuse(r) \/ Wait(r) \/ Admit(r) \/ Promote(r) \/ Finish(r)

Spec == Init /\ [][Next]_vars
=============================================================================
