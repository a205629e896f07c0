---------------------------- MODULE MCAuditEngine ----------------------------
(* Values of the constants of AuditEngine for TLC: ticks of about 7 seconds, *)
(* and two of the scopes of SCOPE_CHECKS ("deliverability", "dns_security"). *)
EXTENDS AuditEngine

MCScopes == {{"dmarc", "spf", "dkim", "mx"},
             {"dnssec", "caa", "dane", "nameservers", "ct"}}
\* Past before the start, past before Phase 1 ends, and long enough to get anywhere.
MCDeadlines == {0, 1, 5}
=============================================================================
