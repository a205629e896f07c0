------------------------------- MODULE MCClient -------------------------------
EXTENDS Client

\* Another audit may be started at any await but that of an error response's body.
QuietAborts == Awaits \ {"refused", "failure"}
AllAborts == Awaits
=============================================================================
