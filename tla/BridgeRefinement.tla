-------------------------- MODULE BridgeRefinement --------------------------
(***************************************************************************)
(* SamlBridge implements SingleSignOn.  An authentication is granted when  *)
(* a session row is committed, and is good until the row expires; an agent *)
(* is recognised in a tab between the read of that row and the answer.     *)
(***************************************************************************)
EXTENDS SamlBridge

Granted == [a \in Agents |->
    {sessions[id].expire : id \in {i \in SessionIds : sessions[i].user = a}}]

Recognised == [t \in Tabs |-> pc[t] = "mapping"]

Told(t) == [user |-> response[t].user, request |-> response[t].request,
            relay |-> response[t].relay]

\* What a tab of which nothing was told holds.
NoAnswer == [user |-> NoUser, request |-> NoRequest, relay |-> << >>]

Answers == [t \in Tabs |-> Told(t)]

SSO == INSTANCE SingleSignOn
         WITH granted <- Granted, recognised <- Recognised, answer <- Answers

\* Every step of the bridge is a step of the single sign-on it promises, or none
\* that a user or a service provider could tell: nobody is recognised but by an
\* authentication still good, and no answer but the one asked for is given
\* (server.go and database.go, as SamlBridge maps them).
ImplementsSingleSignOn == SSO!Spec
=============================================================================
