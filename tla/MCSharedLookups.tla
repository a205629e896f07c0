--------------------------- MODULE MCSharedLookups ---------------------------
(* Values of the constants of SharedLookups for TLC.                        *)
EXTENDS SharedLookups

CONSTANTS a1, a2, s1, s2, v1, v2

\* The scopes are alike, and so are the audits: one scope for both, or two.
MCScopings == {[a \in {a1, a2} |-> s1], [a \in {a1, a2} |-> IF a = a1 THEN s1 ELSE s2]}

\* A record that was changed before: it may be changed back.
MCPast == {<<v1, v2>>}
=============================================================================
