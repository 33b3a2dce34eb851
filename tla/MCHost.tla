------------------------------- MODULE MCHost -------------------------------
EXTENDS Host

CONSTANTS h1, h2

On(host, transport) == [host |-> host, transport |-> transport]

\* Nothing, one transport, and both, the other one first.
MCServerLists ==
    {<<>>, <<On(h1, "bip324")>>, <<On(h1, "rlpx"), On(h2, "bip324")>>}

\* One host, two, and one twice.
MCHostLists == {<<h1>>, <<h1, h2>>, <<h1, h1>>}
MCBackups == {<<>>, <<h1>>}
=============================================================================
