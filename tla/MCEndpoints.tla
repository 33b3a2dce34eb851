---------------------------- MODULE MCEndpoints -----------------------------
(* Three endpoints, two of them the same host and port.                    *)
EXTENDS Endpoints
MCUri == <<"a", "b", "a">>
=============================================================================
