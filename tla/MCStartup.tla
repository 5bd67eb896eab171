------------------------------ MODULE MCStartup ------------------------------
(***************************************************************************)
(* Settings that are as they should be but for one or two of them, and     *)
(* two requests.                                                           *)
(***************************************************************************)
EXTENDS Startup

CONSTANTS r1, r2

MCRequests == {r1, r2}

Good == [parsed |-> TRUE, db |-> TRUE, hydra |-> TRUE, baseURL |-> TRUE,
         ca |-> "good", pair |-> "rsa", portFree |-> TRUE,
         tracing |-> TRUE, grpc |-> "unset", http |-> "unset"]

MCSettings ==
    {[Good EXCEPT !.tracing = t, !.grpc = g, !.http = h] :
        t \in BOOLEAN, g \in Endpoints, h \in Endpoints}
    \cup {[Good EXCEPT !.parsed = FALSE], [Good EXCEPT !.portFree = FALSE],
          [Good EXCEPT !.db = FALSE], [Good EXCEPT !.hydra = FALSE],
          [Good EXCEPT !.baseURL = FALSE]}
    \cup {[Good EXCEPT !.ca = c] : c \in {"unset", "unreadable", "notPem"}}
    \cup {[Good EXCEPT !.pair = k] : k \in {"ecdsa", "unreadable"}}
=============================================================================
