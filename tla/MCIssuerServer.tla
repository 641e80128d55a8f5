----------------------------- MODULE MCIssuerServer -----------------------------
EXTENDS IssuerServer, TLC

\* Requests, and connections, are interchangeable; used by the safety run only.
IssuerSymmetry == Permutations(Request) \cup Permutations(Conn)

==============================================================================
