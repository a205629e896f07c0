---------------------------- MODULE MCAuditServer ----------------------------
EXTENDS AuditServer, TLC

\* Every await at which the handlers clean up after a cancellation: all but a
\* pdf follower's and the stream's preflight.
SafeCancelPoints ==
  {<<"json", p>> : p \in {"preflight", "audit", "follow"}}
  \cup {<<"pdf", p>> : p \in {"preflight", "audit", "render"}}
  \cup {<<"sse", p>> : p \in {"stream", "closing"}}

\* The code's own comments let any await be cancelled ("also runs when the leader
\* is cancelled mid-request"): here a pdf follower's.
FollowerCancelled == SafeCancelPoints \cup {<<"pdf", "follow">>}

\* Nothing is cancelled: clients leave and clocks run out, that is all.
NoCancelPoints == {}

\* A leader goes away and leaves its followers behind, or a stream its slot.
LeadersCancelled == {<<"json", "audit">>, <<"pdf", "audit">>, <<"sse", "preflight">>}

\* The requests are interchangeable, so every mix of endpoints is checked once:
\* with the kinds in order. (Symmetry would do it, but not for liveness.)
Rank == [json |-> 1, pdf |-> 2, sse |-> 3]
OrderedInit == Init /\ \A r, s \in Requests : r < s => Rank[kind[r]] <= Rank[kind[s]]
LiveSpec == OrderedInit /\ [][Next]_vars /\ Fairness

Symmetry == Permutations(Requests) \cup Permutations(Keys)
=============================================================================
