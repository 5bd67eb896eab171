------------------------------ MODULE MCBridge ------------------------------
(***************************************************************************)
(* Small instances of SamlBridge: who owns which tab, which requests there *)
(* are, and what is registered.  A .cfg picks one definition for each      *)
(* constant.                                                               *)
(***************************************************************************)
EXTENDS BridgeRefinement, TLC

CONSTANTS t1, t2, a1, a2, r1, r2, e1, acs1, m1

AgentEach == t1 :> a1 @@ t2 :> a2
AgentShared == t1 :> a1 @@ t2 :> a1
AgentOne == t1 :> a1

\* Two requests, with a RelayState that has no colon and one that has.
TwoIds == r1 :> "id1" @@ r2 :> "id2"
TwoIssuers == r1 :> e1 @@ r2 :> e1
TwoRelays == r1 :> <<"x">> @@ r2 :> <<"https", "x">>
TwoGets == r1 :> "GET" @@ r2 :> "GET"

OneId == r1 :> "id1"
OneIssuer == r1 :> e1
OneRelay == r1 :> <<"https", "x">>
OneGet == r1 :> "GET"
OnePost == r1 :> "POST"

Plain == [acs |-> acs1, binding |-> "POST", mapping |-> NoMapping]
Mapped == [acs |-> acs1, binding |-> "POST", mapping |-> m1]
Redirected == [acs |-> acs1, binding |-> "Redirect", mapping |-> NoMapping]

PlainConfig == e1 :> Plain
MappedConfig == e1 :> Mapped
NoConfig == e1 :> Unregistered
Settled == {Plain}
Changing == {Plain, Mapped, Redirected}

TwoReadings == 1..2
ThreeReadings == 1..3
=============================================================================
