------------------------------ MODULE MCProxy -------------------------------
EXTENDS Proxy

CONSTANTS d1, d2, d3, n1, n2

\* A host of two names, and two names of two hosts.
MCResolutions == {<<n1, d1>>, <<n1, d2>>, <<n2, d1>>, <<n2, d3>>}
=============================================================================
