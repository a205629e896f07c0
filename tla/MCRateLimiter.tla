---------------------------- MODULE MCRateLimiter ----------------------------
EXTENDS RateLimiter, TLC

\* The requests are interchangeable, so they are numbered as they arrive.
InOrder == \A r \in (admitted \cup refused)' : 1..r \subseteq (admitted \cup refused)'
OrderedSpec == Init /\ [][Next /\ InOrder]_vars

Symmetry == Permutations(IPs)
=============================================================================
