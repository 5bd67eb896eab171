-------------------------- MODULE SamlBridge_proofs --------------------------
(***************************************************************************)
(* Theorems about SamlBridge, for any number of tabs, agents, requests,    *)
(* session ids and ticks, and any number of faults and reloads.            *)
(***************************************************************************)
EXTENDS SamlBridge, SequenceTheorems, TLAPS

\* The state parameter comes back from Hydra as the pair it was built from: the
\* ID up to the first colon, the RelayState with its colons after it.
LEMMA StateRoundTrip ==
    ASSUME NEW id \in Texts, NEW relay \in Seq(Texts)
    PROVE  /\ BuildState(id, relay) \in Seq(Texts)
           /\ ParseState(BuildState(id, relay)) = [id |-> id, relay |-> relay]
<1>1. <<id>> \in Seq(Texts) /\ Len(<<id>>) = 1 /\ <<id>>[1] = id
  OBVIOUS
<1>2. <<id>> \o relay \in Seq(Texts) /\ Len(<<id>> \o relay) = 1 + Len(relay)
  BY <1>1
<1>3. Head(<<id>> \o relay) = id
  BY <1>1, <1>2
<1>4. Tail(<<id>> \o relay) = relay
  BY <1>1, <1>2
<1>5. QED
  BY <1>2, <1>3, <1>4 DEF BuildState, ParseState

-----------------------------------------------------------------------------
(* The inductive invariant: what a tab knows of its request, and which     *)
(* agent a session id belongs to.                                          *)

\* The SAMLRequest and RelayState a tab carries are those it was opened with, or
\* no SAMLRequest at all; between callback and lookup its state names them.
RequestOfTab(t) ==
    /\ pc[t] # "idle" => asked[t] \in Requests
    /\ query[t].request # NoRequest =>
            query[t].request = asked[t] /\ query[t].relay = RelayOf[asked[t]]
    /\ pc[t] \in {"session", "store", "mapping"} => query[t].request # NoRequest
    /\ pc[t] \in {"hydra", "reply", "callbackFailed"} \cup CallbackSteps =>
            state[t] = BuildState(IdOf[asked[t]], RelayOf[asked[t]])
    /\ response[t] # NoResponse =>
            /\ pc[t] = "done"
            /\ response[t].request = asked[t]
            /\ response[t].relay = RelayOf[asked[t]]

\* Whatever is captured under an ID is the request of that ID.
CapturedUnder(id) ==
    pendingRequests[id] # NoPending =>
        \E r \in Requests : /\ IdOf[r] = id
                            /\ pendingRequests[id] = [request |-> r, relay |-> RelayOf[r]]

RequestInv ==
    /\ \A t \in Tabs : RequestOfTab(t)
    /\ \A id \in Texts : CapturedUnder(id)

\* A tab of a's, a's cookie, or a row that speaks for a has session id `id`.
HeldBy(a, id) ==
    \/ \E t \in Tabs : AgentOf[t] = a /\ sid[t] = id
    \/ cookie[a] = id
    \/ sessions[id].user = a

SessionOfTab(t) ==
    /\ pc[t] = "save" => session[t].user = AgentOf[t] /\ sid[t] \in SessionIds
    /\ pc[t] = "mapping" => session[t].user = AgentOf[t] \/ sid[t] \in repeated
    /\ response[t] # NoResponse =>
            pc[t] = "done" /\ (response[t].user = AgentOf[t] \/ sid[t] \in repeated)

SessionInv ==
    /\ UniqueReadings => repeated = {}
    /\ \A id \in SessionIds \ repeated, a, b \in Agents : HeldBy(a, id) /\ HeldBy(b, id) => a = b
    /\ \A id \in SessionIds, a \in Agents : HeldBy(a, id) => id <= reading
    /\ \A id \in SessionIds : sessions[id] # NoSession => sessions[id].user \in Agents
    /\ \A t \in Tabs : SessionOfTab(t)

-----------------------------------------------------------------------------
(* Type correctness *)

LEMMA ExceptType ==
    ASSUME NEW S, NEW R, NEW f \in [S -> R], NEW x, NEW v \in R
    PROVE  [f EXCEPT ![x] = v] \in [S -> R]
  OBVIOUS

USE DEF Step, NoFault, Fault, Race, Again, Reload, Leave, clockVars, processVars, browserVars,
        handlerVars, historyVars

LEMMA InitTypeOK == Init => TypeOK
<1> SUFFICES ASSUME Init PROVE TypeOK
  OBVIOUS
<1> USE DatabaseAssumption, BridgeAssumption
<1>1. << >> \in Seq(Texts)
  OBVIOUS
<1>2. DatabaseTypeOK
  BY DEF Init, DatabaseTypeOK, Sessions, NoSession
<1>3. QED
  BY <1>1, <1>2 DEF Init, TypeOK, Phases, Methods, NoSession, Sessions, NoPending, NoQuery,
     NoResponse, NoCookie

\* A captured request is of the type of the map, and so is the state of a tab in
\* its callback.
LEMMA CallbackTypes ==
    ASSUME TypeOK, RequestInv, NEW t \in Tabs,
           pc[t] \in {"hydra", "reply", "callbackFailed"} \cup CallbackSteps
    PROVE  /\ asked[t] \in Requests
           /\ IdOf[asked[t]] \in Texts /\ RelayOf[asked[t]] \in Seq(Texts)
           /\ ParseState(state[t]).id = IdOf[asked[t]]
           /\ ParseState(state[t]).relay = RelayOf[asked[t]]
<1>1. asked[t] \in Requests
  BY DEF RequestInv, RequestOfTab, CallbackSteps
<1>2. IdOf[asked[t]] \in Texts /\ RelayOf[asked[t]] \in Seq(Texts)
  BY <1>1, BridgeAssumption
<1>3. state[t] = BuildState(IdOf[asked[t]], RelayOf[asked[t]])
  BY DEF RequestInv, RequestOfTab
<1>4. ParseState(state[t]) = [id |-> IdOf[asked[t]], relay |-> RelayOf[asked[t]]]
  BY <1>2, <1>3, StateRoundTrip
<1>5. QED
  BY <1>1, <1>2, <1>4

LeaveOfTab == \E t \in Tabs : Leave(t)

\* The counters and the history variables, whichever of the five a step is.
LEMMA HistoryTypes ==
    ASSUME TypeOK, NoFault \/ Fault \/ Race \/ Reload \/ LeaveOfTab
    PROVE  reloads' \in Nat /\ faults' \in Nat /\ raced' \in BOOLEAN /\ left' \subseteq Tabs
<1> USE DEF LeaveOfTab
<1>0. left' \subseteq Tabs
  BY DEF TypeOK
<1>1. reloads \in Nat /\ faults \in Nat /\ raced \in BOOLEAN
  BY DEF TypeOK
<1>2. reloads' \in {reloads, reloads + 1} /\ faults' \in {faults, faults + 1}
  OBVIOUS
<1>3. raced' = raced \/ raced' = TRUE
  BY Zenon
<1>4. raced' \in BOOLEAN
  BY <1>1, <1>3
<1>5. QED
  BY <1>0, <1>1, <1>2, <1>4

Responses == [Tabs -> [user : Agents \cup {NoUser}, request : Requests \cup {NoRequest},
                       relay : Seq(Texts), registration : Configs \cup {Unregistered},
                       mapping : Mappings]]

LEMMA RespondTypes ==
    ASSUME TypeOK, NEW t \in Tabs, NEW mapping \in Mappings, Respond(t, mapping)
    PROVE  pc' \in [Tabs -> Phases] /\ response' \in Responses
<1> DEFINE told == [user |-> session[t].user, request |-> query[t].request,
                    relay |-> query[t].relay, registration |-> registration[t],
                    mapping |-> mapping]
<1>1. pc' \in [Tabs -> Phases]
  BY DEF Respond, TypeOK, Phases, Failed
<1>2. /\ session[t].user \in Agents \cup {NoUser}
      /\ query[t].request \in Requests \cup {NoRequest} /\ query[t].relay \in Seq(Texts)
      /\ registration[t] \in Configs \cup {Unregistered}
  BY DEF TypeOK, Sessions
<1>3. response' = response \/ response' = [response EXCEPT ![t] = told]
  BY DEF Respond
<1>4. response' \in Responses
  <2> DEFINE R == [user : Agents \cup {NoUser}, request : Requests \cup {NoRequest},
                   relay : Seq(Texts), registration : Configs \cup {Unregistered},
                   mapping : Mappings]
  <2>1. told \in R
    BY <1>2
  <2>2. response \in [Tabs -> R]
    BY DEF TypeOK
  <2> HIDE DEF told, R
  <2>3. response' \in [Tabs -> R]
    BY <1>3, <2>1, <2>2, ExceptType
  <2>4. QED
    BY <2>3 DEF Responses, R
<1>5. QED
  BY <1>1, <1>4

\* Every step does one of five things to the history variables.
LEMMA HistoryStep == ASSUME [Next]_vars PROVE NoFault \/ Fault \/ Race \/ Reload \/ LeaveOfTab
<1> HIDE DEF NoFault, Fault, Race, Reload, Leave
<1>1. ASSUME NEW t \in Tabs, Progress(t) PROVE NoFault \/ Fault \/ Race \/ Leave(t)
  BY <1>1 DEF Progress, Serve, Validate, Refuse, SessionFound, SessionMissing, Capture, MapWrite,
     Answer, AnswerUnmapped, LogIn, Decline, NoCode, Exchange, TokenUnusable, CodeRefused,
     ExchangeFails, Save, SaveFails, LookupFinds, LookupMisses, Discard, Follow, LoseReply
<1>2. UNCHANGED vars => NoFault
  BY DEF vars, NoFault
<1>3. QED
  BY <1>1, <1>2 DEF Next, Open, ReloadSso, ReloadCallback, Abandon, MapFatal, Crash, ForgetCookie,
     Register, Tick, Rest, LeaveOfTab

LEMMA NextHistory ==
    ASSUME TypeOK, [Next]_vars
    PROVE  reloads' \in Nat /\ faults' \in Nat /\ raced' \in BOOLEAN /\ left' \subseteq Tabs
BY HistoryStep, HistoryTypes

\* A browser sends its cookie or none.
LEMMA SentTypes ==
    ASSUME TypeOK, NEW t \in Tabs, NEW method, NEW id \in SentCookies(t, method)
    PROVE  /\ id \in {cookie[AgentOf[t]], NoCookie}
           /\ id \in SessionIds \cup {NoCookie}
           /\ [sid EXCEPT ![t] = id] \in [Tabs -> SessionIds \cup {NoCookie}]
BY BridgeAssumption DEF SentCookies, TypeOK

LEMMA NextTypeOK == TypeOK /\ RequestInv /\ [Next]_vars => TypeOK'
<1> SUFFICES ASSUME TypeOK, RequestInv, [Next]_vars PROVE TypeOK'
  OBVIOUS
<1>0. reloads' \in Nat /\ faults' \in Nat /\ raced' \in BOOLEAN /\ left' \subseteq Tabs
  BY NextHistory
<1> HIDE DEF NoFault, Fault, Race, Reload, Leave
<1> USE DatabaseAssumption, BridgeAssumption
    DEF TypeOK, DatabaseTypeOK, Phases, SsoSteps, CallbackSteps, Failed, Methods, Sessions
<1>1. ASSUME NEW t \in Tabs, NEW r \in Requests, Open(t, r) PROVE TypeOK'
  <2>1. sid' \in [Tabs -> SessionIds \cup {NoCookie}]
    <3>1. PICK id \in SentCookies(t, MethodOf[r]) : sid' = [sid EXCEPT ![t] = id]
      BY <1>1 DEF Open
    <3>2. QED
      BY <3>1, SentTypes
  <2>2. QED
    BY <1>0, <1>1, <2>1 DEF Open
<1>2. ASSUME NEW t \in Tabs, Progress(t) PROVE TypeOK'
  <2>1. CASE Validate(t)
    BY <1>0, <2>1 DEF Validate, Acceptable, GetServiceProvider
  <2>2. CASE Refuse(t)
    BY <1>0, <2>2 DEF Refuse
  <2>3. CASE SessionFound(t)
    BY <1>0, <2>3 DEF SessionFound, GetSession, Retrievable, NoSession
  <2>4. CASE SessionMissing(t)
    BY <1>0, <2>4 DEF SessionMissing, NoSession
  <2>5. CASE Capture(t)
    <3>3. query[t].request \in Requests
      BY <2>5 DEF Capture, RequestInv, RequestOfTab
    <3>4. IdOf[query[t].request] \in Texts /\ query[t].relay \in Seq(Texts)
      BY <3>3
    <3>5. BuildState(IdOf[query[t].request], query[t].relay) \in Seq(Texts)
      BY <3>4, StateRoundTrip
    <3>6. Pending(t) \in [request : Requests \cup {NoRequest}, relay : Seq(Texts)]
      BY <3>3, <3>4 DEF Pending
    <3>7. pendingRequests' \in [Texts -> [request : Requests \cup {NoRequest}, relay : Seq(Texts)]]
      BY <2>5, <3>4, <3>6 DEF Capture, MapWrite
    <3>8. QED
      BY <1>0, <2>5, <3>5, <3>7 DEF Capture
  <2>6. CASE Answer(t)
    <3>1. query[t].request \in Requests
      BY <2>6 DEF Answer, Respond, RequestInv, RequestOfTab
    <3>2. AttributeMappingOf(t) \in Mappings
      BY <3>1 DEF AttributeMappingOf, GetAttributeMapping, Configs
    <3>3. pc' \in [Tabs -> Phases] /\ response' \in Responses
      BY <2>6, <3>2, RespondTypes DEF Answer
    <3>4. QED
      BY <1>0, <2>6, <3>3 DEF Answer, Responses
  <2>7. CASE AnswerUnmapped(t)
    <3>1. pc' \in [Tabs -> Phases] /\ response' \in Responses
      BY <2>7, RespondTypes DEF AnswerUnmapped
    <3>2. QED
      BY <1>0, <2>7, <3>1 DEF AnswerUnmapped, Responses
  <2>8. CASE LogIn(t)
    BY <1>0, <2>8 DEF LogIn
  <2>8b. CASE Decline(t) \/ NoCode(t)
    BY <1>0, <2>8b DEF Decline, NoCode
  <2>9. CASE Exchange(t)
    <3>1. PICK r \in NextReadings :
             /\ sid' = [sid EXCEPT ![t] = r]
             /\ reading' \in {r, reading} /\ repeated' \in {repeated, repeated \cup {r}}
      BY <2>9 DEF Exchange
    <3>2. r \in SessionIds
      BY DEF NextReadings
    <3>3. NewSession(t) \in Sessions
      BY DEF NewSession
    <3>4. QED
      BY <1>0, <2>9, <3>1, <3>2, <3>3 DEF Exchange
  <2>10. CASE TokenUnusable(t)
    BY <1>0, <2>10 DEF TokenUnusable
  <2>11. CASE CodeRefused(t)
    BY <1>0, <2>11 DEF CodeRefused
  <2>12. CASE ExchangeFails(t)
    <3>1. PICK c \in {code[t], "spent"} : code' = [code EXCEPT ![t] = c]
      BY <2>12 DEF ExchangeFails
    <3>2. hydraAvailable' \in {"up", "down"} /\ code' \in [Tabs -> {"none", "fresh", "spent"}]
      BY <2>12, <3>1 DEF ExchangeFails
    <3>3. QED
      BY <1>0, <2>12, <3>2 DEF ExchangeFails
  <2>13. CASE Save(t)
    BY <1>0, <2>13 DEF Save, SaveSession
  <2>14. CASE SaveFails(t)
    <3>1. sessions' \in [SessionIds -> Sessions]
      <4>1. sessions' = sessions \/ sessions' = [sessions EXCEPT ![sid[t]] = session[t]]
        BY <2>14 DEF SaveFails, SaveSession
      <4>2. sessions \in [SessionIds -> Sessions] /\ session[t] \in Sessions
        OBVIOUS
      <4> HIDE DEF Sessions
      <4>3. QED
        BY <4>1, <4>2, ExceptType
    <3>2. QED
      BY <1>0, <2>14, <3>1 DEF SaveFails
  <2>15. CASE LookupFinds(t)
    <3> DEFINE p == pendingRequests[IdOf[asked[t]]]
    <3>1. ParseState(state[t]).id = IdOf[asked[t]] /\ IdOf[asked[t]] \in Texts
      BY <2>15, CallbackTypes DEF LookupFinds
    <3>2. p \in [request : Requests \cup {NoRequest}, relay : Seq(Texts)]
      BY <3>1
    <3>3. query' = [query EXCEPT ![t] = Replay(p)]
      BY <2>15, <3>1 DEF LookupFinds
    <3>4. Replay(p) \in [request : Requests \cup {NoRequest}, relay : Seq(Texts), method : Methods]
      BY <3>2 DEF Replay
    <3>5. query' \in [Tabs -> [request : Requests \cup {NoRequest}, relay : Seq(Texts),
                              method : Methods]]
      BY <3>3, <3>4, ExceptType
    <3>6. QED
      BY <1>0, <2>15, <3>5 DEF LookupFinds
  <2>16. CASE LookupMisses(t)
    <3>3. ParseState(state[t]).relay \in Seq(Texts)
      BY <2>16, CallbackTypes DEF LookupMisses
    <3>4. query' = [query EXCEPT ![t] = [request |-> NoRequest,
                                         relay |-> ParseState(state[t]).relay,
                                         method |-> "GET"]]
      BY <2>16 DEF LookupMisses
    <3>5. query' \in [Tabs -> [request : Requests \cup {NoRequest}, relay : Seq(Texts),
                              method : Methods]]
      BY <3>3, <3>4, ExceptType
    <3>6. QED
      BY <1>0, <2>16, <3>5 DEF LookupMisses
  <2>17. CASE Discard(t)
    <3>3. ParseState(state[t]).id \in Texts
      BY <2>17, CallbackTypes DEF Discard
    <3>4. pendingRequests' \in [Texts -> [request : Requests \cup {NoRequest}, relay : Seq(Texts)]]
      <4> DEFINE R == [request : Requests \cup {NoRequest}, relay : Seq(Texts)]
                 id == ParseState(state[t]).id
      <4>1. NoPending \in R /\ pendingRequests \in [Texts -> R]
        BY DEF NoPending
      <4>2. \/ pendingRequests' = pendingRequests
            \/ pendingRequests' = [pendingRequests EXCEPT ![id] = NoPending]
        BY <2>17 DEF Discard, MapWrite
      <4> HIDE DEF R, id, TypeOK
      <4>3. pendingRequests' \in [Texts -> R]
        BY <4>1, <4>2, ExceptType
      <4>4. QED
        BY <4>3 DEF R
    <3>5. QED
      BY <1>0, <2>17, <3>4 DEF Discard
  <2>18. CASE Follow(t)
    BY <1>0, <2>18 DEF Follow, SetCookie
  <2>19. CASE LoseReply(t)
    BY <1>0, <2>19 DEF LoseReply
  <2>20. QED
    BY <1>2, <2>1, <2>2, <2>3, <2>4, <2>5, <2>6, <2>7, <2>8, <2>8b, <2>9, <2>10, <2>11, <2>12,
       <2>13, <2>14, <2>15, <2>16, <2>17, <2>18, <2>19 DEF Progress, Serve
<1>3. ASSUME NEW t \in Tabs, ReloadSso(t) PROVE TypeOK'
  <2>1. sid' \in [Tabs -> SessionIds \cup {NoCookie}]
    BY <1>3, SentTypes DEF ReloadSso
  <2>2. QED
    BY <1>0, <1>3, <2>1 DEF ReloadSso
<1>4. ASSUME NEW t \in Tabs, ReloadCallback(t) PROVE TypeOK'
  BY <1>0, <1>4 DEF ReloadCallback
<1>4b. ASSUME NEW t \in Tabs, Abandon(t) PROVE TypeOK'
  <2>1. PICK c \in {code[t], "spent"} : code' = [code EXCEPT ![t] = c]
    BY <1>4b DEF Abandon
  <2>2. hydraAvailable' \in {"up", "down"} /\ code' \in [Tabs -> {"none", "fresh", "spent"}]
    BY <1>4b, <2>1 DEF Abandon
  <2>3. QED
    BY <1>0, <1>4b, <2>2 DEF Abandon
<1>5. CASE Restart
  <2>1. pc' \in [Tabs -> Phases]
    BY <1>5 DEF Restart
  <2>2. pendingRequests' \in [Texts -> [request : Requests \cup {NoRequest}, relay : Seq(Texts)]]
    BY <1>5 DEF Restart, NoPending
  <2>3. QED
    BY <1>0, <1>5, <2>1, <2>2 DEF Restart
<1>6. ASSUME NEW a \in Agents, ForgetCookie(a) PROVE TypeOK'
  BY <1>0, <1>6 DEF ForgetCookie, NoCookie
<1>7. ASSUME NEW e \in EntityIds, NEW config \in Registrations, Register(e, config) PROVE TypeOK'
  BY <1>0, <1>7 DEF Register, SaveServiceProvider
<1>8. CASE Tick
  BY <1>0, <1>8 DEF Tick
<1>9. CASE Rest \/ UNCHANGED vars
  BY <1>0, <1>9 DEF Rest, vars
<1>10. QED
  BY <1>1, <1>2, <1>3, <1>4, <1>4b, <1>5, <1>6, <1>7, <1>8, <1>9 DEF Next, MapFatal, Crash


-----------------------------------------------------------------------------
(* Requests *)

LEMMA InitRequestInv == Init => RequestInv
<1> SUFFICES ASSUME Init PROVE RequestInv
  OBVIOUS
<1>1. ASSUME NEW t \in Tabs PROVE RequestOfTab(t)
  BY <1>1 DEF Init, RequestOfTab, CallbackSteps, NoQuery
<1>2. ASSUME NEW id \in Texts PROVE CapturedUnder(id)
  BY <1>2 DEF Init, CapturedUnder
<1>3. QED
  BY <1>1, <1>2 DEF RequestInv

\* A step of tab t to phase `to` that touches no request, when the invariant allows
\* t to be in that phase.
LEMMA QuietStep ==
    ASSUME TypeOK, RequestInv, NEW t \in Tabs, NEW from, NEW to, Step(t, from, to),
           from # "idle", from # "done",
           UNCHANGED <<pendingRequests, asked, query, state, response>>,
           to \in {"session", "store", "mapping"} => query[t].request # NoRequest,
           to \in {"hydra", "reply", "callbackFailed"} \cup CallbackSteps =>
                state[t] = BuildState(IdOf[asked[t]], RelayOf[asked[t]])
    PROVE  RequestInv'
<1>1. \A id \in Texts : CapturedUnder(id)'
  BY DEF RequestInv, CapturedUnder
<1>2. ASSUME NEW u \in Tabs PROVE RequestOfTab(u)'
  <2>1. RequestOfTab(u) /\ RequestOfTab(t)
    BY DEF RequestInv
  <2>2. CASE u = t
    BY <2>1, <2>2 DEF RequestOfTab, TypeOK
  <2>3. CASE u # t
    <3>1. pc'[u] = pc[u]
      BY <2>3 DEF TypeOK
    <3>2. QED
      BY <2>1, <3>1 DEF RequestOfTab
  <2>4. QED
    BY <2>2, <2>3
<1>3. QED
  BY <1>1, <1>2 DEF RequestInv

\* A step of tab t leaves the other tabs' requests as they are.
LEMMA OtherTabs ==
    ASSUME TypeOK, RequestInv, NEW t \in Tabs, NEW u \in Tabs, u # t,
           pc'[u] = pc[u], asked'[u] = asked[u], query'[u] = query[u], state'[u] = state[u],
           response'[u] = response[u]
    PROVE  RequestOfTab(u)'
  BY DEF RequestInv, RequestOfTab

\* When the map changes at one ID only, to nothing or to that ID's request.
LEMMA MapStep ==
    ASSUME TypeOK, RequestInv, NEW t \in Tabs, NEW id \in Texts, NEW entry,
           MapWrite(t, id, entry),
           \/ entry = NoPending
           \/ \E r \in Requests : IdOf[r] = id /\ entry = [request |-> r, relay |-> RelayOf[r]]
    PROVE  \A other \in Texts : CapturedUnder(other)'
<1>1. \/ pendingRequests' = pendingRequests
      \/ pendingRequests' = [pendingRequests EXCEPT ![id] = entry]
  BY DEF MapWrite
<1>2. \A other \in Texts :
        \/ pendingRequests'[other] = pendingRequests[other]
        \/ other = id /\ pendingRequests'[other] = entry
  BY <1>1 DEF TypeOK
<1>3. QED
  BY <1>2 DEF RequestInv, CapturedUnder

\* The answer tells of the request the tab holds, which is the one asked.
LEMMA RespondStep ==
    ASSUME TypeOK, RequestInv, NEW t \in Tabs, NEW mapping, Respond(t, mapping),
           UNCHANGED <<pendingRequests, asked, query, state>>
    PROVE  RequestInv'
<1>1. RequestOfTab(t) /\ pc[t] = "mapping"
  BY DEF RequestInv, Respond
<1>2. asked[t] \in Requests /\ query[t].request = asked[t] /\ query[t].relay = RelayOf[asked[t]]
  BY <1>1 DEF RequestOfTab
<1>3. CASE registration[t].binding = "POST"
  <2>1. /\ pc'[t] = "done"
        /\ response'[t].request = asked[t] /\ response'[t].relay = RelayOf[asked[t]]
    BY <1>2, <1>3 DEF Respond, TypeOK
  <2>2. RequestOfTab(t)'
    BY <1>1, <2>1 DEF RequestOfTab, CallbackSteps
  <2>3. ASSUME NEW u \in Tabs, u # t PROVE RequestOfTab(u)'
    BY <1>3, <2>3, OtherTabs DEF Respond, TypeOK
  <2>4. \A id \in Texts : CapturedUnder(id)'
    BY DEF RequestInv, CapturedUnder
  <2>5. QED
    BY <2>2, <2>3, <2>4 DEF RequestInv
<1>4. CASE registration[t].binding # "POST"
  BY <1>4, QuietStep DEF Respond, CallbackSteps
<1>5. QED
  BY <1>3, <1>4

LEMMA NextRequestInv == TypeOK /\ RequestInv /\ [Next]_vars => RequestInv'
<1> SUFFICES ASSUME TypeOK, RequestInv, [Next]_vars PROVE RequestInv'
  OBVIOUS
<1>1. ASSUME NEW t \in Tabs, Progress(t) PROVE RequestInv'
  <2> USE DEF CallbackSteps
  <2>0. RequestOfTab(t)
    BY DEF RequestInv
  <2>1. CASE Validate(t)
    BY <2>0, <2>1, QuietStep DEF Validate, Acceptable, RequestOfTab
  <2>2. CASE Refuse(t)
    BY <2>0, <2>2, QuietStep DEF Refuse, RequestOfTab
  <2>3. CASE SessionFound(t)
    BY <2>0, <2>3, QuietStep DEF SessionFound, RequestOfTab
  <2>4. CASE SessionMissing(t)
    BY <2>0, <2>4, QuietStep DEF SessionMissing, RequestOfTab
  <2>5. CASE LogIn(t)
    BY <2>0, <2>5, QuietStep DEF LogIn, RequestOfTab
  <2>5b. CASE Decline(t) \/ NoCode(t)
    BY <2>0, <2>5b, QuietStep DEF Decline, NoCode, RequestOfTab
  <2>6. CASE Exchange(t)
    BY <2>0, <2>6, QuietStep DEF Exchange, RequestOfTab
  <2>7. CASE TokenUnusable(t)
    BY <2>0, <2>7, QuietStep DEF TokenUnusable, RequestOfTab
  <2>8. CASE CodeRefused(t)
    BY <2>0, <2>8, QuietStep DEF CodeRefused, RequestOfTab
  <2>9. CASE ExchangeFails(t)
    BY <2>0, <2>9, QuietStep DEF ExchangeFails, RequestOfTab
  <2>10. CASE Save(t)
    BY <2>0, <2>10, QuietStep DEF Save, RequestOfTab
  <2>11. CASE SaveFails(t)
    BY <2>0, <2>11, QuietStep DEF SaveFails, RequestOfTab
  <2>12. CASE Follow(t)
    BY <2>0, <2>12, QuietStep DEF Follow, RequestOfTab
  <2>13. CASE LoseReply(t)
    BY <2>0, <2>13, QuietStep DEF LoseReply, RequestOfTab
  <2>14. CASE Capture(t)
    <3>1. query[t].request = asked[t] /\ asked[t] \in Requests /\ query[t].relay = RelayOf[asked[t]]
      BY <2>0, <2>14 DEF Capture, RequestOfTab
    <3>2. IdOf[asked[t]] \in Texts
      BY <3>1, BridgeAssumption
    <3>3. Pending(t) = [request |-> asked[t], relay |-> RelayOf[asked[t]]]
      BY <3>1 DEF Pending
    <3>4. MapWrite(t, IdOf[asked[t]], Pending(t))
      BY <2>14, <3>1 DEF Capture
    <3>5. \A id \in Texts : CapturedUnder(id)'
      BY <3>1, <3>2, <3>3, <3>4, MapStep
    <3>6. ASSUME NEW u \in Tabs, u # t PROVE RequestOfTab(u)'
      BY <2>14, <3>6, OtherTabs DEF Capture, TypeOK
    <3>7. state'[t] = BuildState(IdOf[asked[t]], RelayOf[asked[t]]) /\ pc'[t] = "hydra"
      BY <2>14, <3>1 DEF Capture, TypeOK
    <3>8. RequestOfTab(t)'
      BY <2>0, <2>14, <3>7 DEF Capture, RequestOfTab
    <3>9. QED
      BY <3>5, <3>6, <3>8 DEF RequestInv
  <2>15. CASE Answer(t)
    BY <2>15, RespondStep DEF Answer
  <2>16. CASE AnswerUnmapped(t)
    BY <2>16, RespondStep DEF AnswerUnmapped
  <2>17. CASE LookupFinds(t)
    <3> DEFINE id == IdOf[asked[t]]
               p == pendingRequests[id]
    <3>1. asked[t] \in Requests /\ id \in Texts /\ ParseState(state[t]).id = id
      BY <2>17, CallbackTypes DEF LookupFinds
    <3>2. p # NoPending /\ query' = [query EXCEPT ![t] = Replay(p)]
      BY <2>17, <3>1 DEF LookupFinds
    <3>3. PICK r \in Requests : IdOf[r] = id /\ p = [request |-> r, relay |-> RelayOf[r]]
      BY <3>1, <3>2 DEF RequestInv, CapturedUnder
    <3>4. r = asked[t]
      BY <3>1, <3>3, UniqueIds
    <3>5. query'[t].request = asked[t] /\ query'[t].relay = RelayOf[asked[t]]
      BY <3>2, <3>3, <3>4 DEF Replay, TypeOK
    <3>6. RequestOfTab(t)'
      BY <2>0, <2>17, <3>1, <3>5 DEF LookupFinds, RequestOfTab, TypeOK
    <3>7. ASSUME NEW u \in Tabs, u # t PROVE RequestOfTab(u)'
      BY <2>17, <3>2, <3>7, OtherTabs DEF LookupFinds, TypeOK
    <3>8. \A other \in Texts : CapturedUnder(other)'
      BY <2>17 DEF LookupFinds, RequestInv, CapturedUnder
    <3>9. QED
      BY <3>6, <3>7, <3>8 DEF RequestInv
  <2>18. CASE LookupMisses(t)
    <3>1. query'[t].request = NoRequest /\ pc'[t] = "reply"
      BY <2>18 DEF LookupMisses, TypeOK
    <3>2. RequestOfTab(t)'
      BY <2>0, <2>18, <3>1 DEF LookupMisses, RequestOfTab
    <3>3. ASSUME NEW u \in Tabs, u # t PROVE RequestOfTab(u)'
      BY <2>18, <3>3, OtherTabs DEF LookupMisses, TypeOK
    <3>4. \A id \in Texts : CapturedUnder(id)'
      BY <2>18 DEF LookupMisses, RequestInv, CapturedUnder
    <3>5. QED
      BY <3>2, <3>3, <3>4 DEF RequestInv
  <2>19. CASE Discard(t)
    <3>1. ParseState(state[t]).id \in Texts
      BY <2>19, CallbackTypes DEF Discard
    <3>2. \A id \in Texts : CapturedUnder(id)'
      BY <2>19, <3>1, MapStep DEF Discard
    <3>3. RequestOfTab(t)'
      BY <2>0, <2>19 DEF Discard, RequestOfTab, TypeOK
    <3>4. ASSUME NEW u \in Tabs, u # t PROVE RequestOfTab(u)'
      BY <2>19, <3>4, OtherTabs DEF Discard, TypeOK
    <3>5. QED
      BY <3>2, <3>3, <3>4 DEF RequestInv
  <2>20. QED
    BY <1>1, <2>1, <2>2, <2>3, <2>4, <2>5, <2>5b, <2>6, <2>7, <2>8, <2>9, <2>10, <2>11, <2>12,
       <2>13, <2>14, <2>15, <2>16, <2>17, <2>18, <2>19 DEF Progress, Serve
<1>2. ASSUME NEW t \in Tabs, NEW r \in Requests, Open(t, r) PROVE RequestInv'
  <2>1. /\ asked'[t] = r /\ pc'[t] = "sso" /\ response'[t] = response[t]
        /\ query'[t].request = r /\ query'[t].relay = RelayOf[r]
    BY <1>2 DEF Open, TypeOK
  <2>2. response[t] = NoResponse
    BY <1>2 DEF Open, RequestInv, RequestOfTab
  <2>3. RequestOfTab(t)'
    BY <2>1, <2>2 DEF RequestOfTab, NoResponse, CallbackSteps
  <2>4. ASSUME NEW u \in Tabs, u # t PROVE RequestOfTab(u)'
    BY <1>2, <2>4, OtherTabs DEF Open, TypeOK
  <2>5. \A id \in Texts : CapturedUnder(id)'
    BY <1>2 DEF Open, RequestInv, CapturedUnder
  <2>6. QED
    BY <2>3, <2>4, <2>5 DEF RequestInv
<1>3. ASSUME NEW t \in Tabs, ReloadSso(t) PROVE RequestInv'
  BY <1>3, QuietStep DEF ReloadSso, CallbackSteps
<1>4. ASSUME NEW t \in Tabs, ReloadCallback(t) PROVE RequestInv'
  BY <1>4, QuietStep DEF ReloadCallback, RequestInv, RequestOfTab
<1>4b. ASSUME NEW t \in Tabs, Abandon(t) PROVE RequestInv'
  BY <1>4b, QuietStep DEF Abandon, RequestInv, RequestOfTab, CallbackSteps
<1>5. ASSUME Restart PROVE RequestInv'
  <2>1. ASSUME NEW u \in Tabs PROVE RequestOfTab(u)'
    <3>1. RequestOfTab(u)
      BY DEF RequestInv
    <3>2. pc'[u] = IF pc[u] \in SsoSteps THEN "ssoFailed"
                   ELSE IF pc[u] \in CallbackSteps THEN "callbackFailed" ELSE pc[u]
      BY <1>5 DEF Restart, SsoSteps, CallbackSteps
    <3>3. QED
      BY <1>5, <3>1, <3>2 DEF Restart, RequestOfTab, SsoSteps, CallbackSteps
  <2>2. ASSUME NEW id \in Texts PROVE CapturedUnder(id)'
    BY <1>5 DEF Restart, CapturedUnder
  <2>3. QED
    BY <2>1, <2>2 DEF RequestInv
<1>6. ASSUME UNCHANGED <<pc, asked, query, state, response, pendingRequests>> PROVE RequestInv'
  BY <1>6 DEF RequestInv, RequestOfTab, CapturedUnder
<1>7. QED
  BY <1>1, <1>2, <1>3, <1>4, <1>4b, <1>5, <1>6
  DEF Next, MapFatal, Crash, ForgetCookie, Register, Tick, Rest, vars

\* In every reachable state every variable is of its type.
THEOREM TypeCorrect == Spec => []TypeOK
<1>1. Init => TypeOK /\ RequestInv
  BY InitTypeOK, InitRequestInv
<1>2. TypeOK /\ RequestInv /\ [Next]_vars => (TypeOK /\ RequestInv)'
  BY NextTypeOK, NextRequestInv
<1>3. QED
  BY <1>1, <1>2, PTL DEF Spec

\* Every response answers the request its tab was opened with, RelayState
\* included, for any tabs, requests, races, crashes and faults.
THEOREM AnswersAskedCorrect == Spec => []AnswersAsked
<1>1. Init => TypeOK /\ RequestInv
  BY InitTypeOK, InitRequestInv
<1>2. TypeOK /\ RequestInv /\ [Next]_vars => (TypeOK /\ RequestInv)'
  BY NextTypeOK, NextRequestInv
<1>3. RequestInv => AnswersAsked
  BY DEF RequestInv, RequestOfTab, AnswersAsked
<1>4. QED
  BY <1>1, <1>2, <1>3, PTL DEF Spec

-----------------------------------------------------------------------------
(* Sessions *)

LEMMA InitSessionInv == Init => SessionInv
<1> SUFFICES ASSUME Init PROVE SessionInv
  OBVIOUS
<1>1. ASSUME NEW a \in Agents, NEW id \in SessionIds PROVE ~HeldBy(a, id)
  BY <1>1, DatabaseAssumption, BridgeAssumption DEF Init, HeldBy, NoSession, NoCookie
<1>2. ASSUME NEW t \in Tabs PROVE SessionOfTab(t)
  BY <1>2 DEF Init, SessionOfTab
<1>3. QED
  BY <1>1, <1>2 DEF Init, SessionInv

\* A step by which no agent comes to hold a session id that it did not hold.
LEMMA NoNewHolder ==
    ASSUME TypeOK, SessionInv, UNCHANGED clockVars,
           \A id \in SessionIds, a \in Agents : HeldBy(a, id)' => HeldBy(a, id),
           \A id \in SessionIds : sessions'[id] # NoSession => sessions'[id].user \in Agents,
           \A t \in Tabs : SessionOfTab(t)'
    PROVE  SessionInv'
  BY DEF SessionInv

\* A step of tab t that touches no session id, and does not put t in a phase
\* where the session it holds matters.
LEMMA QuietSession ==
    ASSUME TypeOK, SessionInv, NEW t \in Tabs, NEW from, NEW to, Step(t, from, to),
           from # "done", to \notin {"save", "mapping"},
           UNCHANGED <<sessions, cookie, sid, clockVars, response>>,
           \A u \in Tabs : u # t => session'[u] = session[u]
    PROVE  SessionInv'
<1>1. \A id \in SessionIds, a \in Agents : HeldBy(a, id)' => HeldBy(a, id)
  BY DEF HeldBy
<1>2. ASSUME NEW u \in Tabs PROVE SessionOfTab(u)'
  BY <1>2 DEF SessionInv, SessionOfTab, TypeOK
<1>3. QED
  BY <1>1, <1>2, NoNewHolder DEF SessionInv

LEMMA NextSessionInv == TypeOK /\ SessionInv /\ [Next]_vars => SessionInv'
<1> SUFFICES ASSUME TypeOK, SessionInv, [Next]_vars PROVE SessionInv'
  OBVIOUS
<1>1. ASSUME NEW t \in Tabs, Progress(t) PROVE SessionInv'
  <2>0. SessionOfTab(t)
    BY DEF SessionInv
  <2>1. CASE Validate(t)
    BY <2>1, QuietSession DEF Validate
  <2>2. CASE Refuse(t)
    BY <2>2, QuietSession DEF Refuse
  <2>3. CASE Capture(t)
    BY <2>3, QuietSession DEF Capture
  <2>4. CASE LogIn(t)
    BY <2>4, QuietSession DEF LogIn
  <2>4b. CASE Decline(t) \/ NoCode(t)
    BY <2>4b, QuietSession DEF Decline, NoCode
  <2>5. CASE TokenUnusable(t)
    BY <2>5, QuietSession DEF TokenUnusable
  <2>6. CASE CodeRefused(t)
    BY <2>6, QuietSession DEF CodeRefused
  <2>7. CASE ExchangeFails(t)
    <3>1. /\ Step(t, "callback", "callbackFailed")
          /\ UNCHANGED <<sessions, cookie, sid, clockVars, response, session>>
      BY <2>7 DEF ExchangeFails
    <3>2. QED
      BY <3>1, QuietSession
  <2>8. CASE LookupFinds(t)
    BY <2>8, QuietSession DEF LookupFinds
  <2>9. CASE LookupMisses(t)
    BY <2>9, QuietSession DEF LookupMisses
  <2>10. CASE Discard(t)
    BY <2>10, QuietSession DEF Discard
  <2>11. CASE LoseReply(t)
    BY <2>11, QuietSession DEF LoseReply
  <2>12. CASE SessionMissing(t)
    BY <2>12, QuietSession DEF SessionMissing, TypeOK
  <2>13. CASE SessionFound(t)
    <3> DEFINE row == sessions[sid[t]]
    <3>1. sid[t] \in SessionIds /\ row # NoSession /\ session' = [session EXCEPT ![t] = row]
      BY <2>13 DEF SessionFound, GetSession, Retrievable
    <3>2. row.user \in Agents
      BY <3>1 DEF SessionInv
    <3>3. HeldBy(row.user, sid[t]) /\ HeldBy(AgentOf[t], sid[t])
      BY DEF HeldBy
    <3>4. row.user = AgentOf[t] \/ sid[t] \in repeated
      BY <3>1, <3>2, <3>3, BridgeAssumption DEF SessionInv
    <3>5. \A id \in SessionIds, a \in Agents : HeldBy(a, id)' => HeldBy(a, id)
      BY <2>13 DEF SessionFound, HeldBy
    <3>6. ASSUME NEW u \in Tabs PROVE SessionOfTab(u)'
      BY <2>13, <3>1, <3>4, <3>6 DEF SessionFound, SessionInv, SessionOfTab, TypeOK
    <3>7. QED
      BY <2>13, <3>5, <3>6, NoNewHolder DEF SessionFound, SessionInv
  <2>14. ASSUME NEW mapping, Respond(t, mapping),
                UNCHANGED <<sessions, cookie, sid, clockVars, session>>
         PROVE  SessionInv'
    <3>1. \A id \in SessionIds, a \in Agents : HeldBy(a, id)' => HeldBy(a, id)
      BY <2>14 DEF HeldBy
    <3>2. pc[t] = "mapping" /\ (session[t].user = AgentOf[t] \/ sid[t] \in repeated)
      BY <2>0, <2>14 DEF Respond, SessionOfTab
    <3>3. ASSUME NEW u \in Tabs PROVE SessionOfTab(u)'
      <4>1. SessionOfTab(u)
        BY DEF SessionInv
      <4>2. CASE u = t
        <5>1. response'[t] = response[t] \/ response'[t].user = AgentOf[t] \/ sid[t] \in repeated
          BY <2>14, <3>2 DEF Respond, TypeOK
        <5>2. pc'[t] \in {"done", "ssoFailed"} /\ (response'[t] # response[t] => pc'[t] = "done")
          BY <2>14 DEF Respond, TypeOK
        <5>3. QED
          BY <2>0, <2>14, <3>2, <4>2, <5>1, <5>2 DEF SessionOfTab
      <4>3. CASE u # t
        <5>1. pc'[u] = pc[u] /\ response'[u] = response[u]
          BY <2>14, <4>3 DEF Respond, TypeOK
        <5>2. QED
          BY <2>14, <4>1, <5>1 DEF SessionOfTab
      <4>4. QED
        BY <4>2, <4>3
    <3>4. QED
      BY <2>14, <3>1, <3>3, NoNewHolder DEF SessionInv
  <2>15. CASE Answer(t) \/ AnswerUnmapped(t)
    BY <2>14, <2>15 DEF Answer, AnswerUnmapped
  <2>16. CASE Exchange(t)
    <3>0. PICK r \in NextReadings :
             /\ sid' = [sid EXCEPT ![t] = r]
             /\ \/ r > reading /\ reading' = r /\ UNCHANGED repeated
                \/ ~(r > reading) /\ repeated' = repeated \cup {r} /\ UNCHANGED reading
      BY <2>16 DEF Exchange
    <3>1. /\ r \in SessionIds /\ r \in Nat /\ reading \in Nat /\ reading' \in Nat
          /\ r <= reading' /\ reading <= reading' /\ repeated \subseteq repeated'
          /\ r \in repeated' \/ r > reading
          /\ UniqueReadings => r > reading
      BY <3>0, BridgeAssumption DEF NextReadings, TypeOK
    <3>2. sid' = [sid EXCEPT ![t] = r] /\ (UniqueReadings => repeated' = {})
      BY <3>0, <3>1 DEF SessionInv
    <3>3. ASSUME NEW id \in SessionIds, NEW a \in Agents, HeldBy(a, id)'
          PROVE  HeldBy(a, id) \/ (id = r /\ a = AgentOf[t])
      <4>1. UNCHANGED <<sessions, cookie>>
        BY <2>16 DEF Exchange
      <4>2. ASSUME NEW u \in Tabs, AgentOf[u] = a, sid'[u] = id
            PROVE  HeldBy(a, id) \/ (id = r /\ a = AgentOf[t])
        <5>1. CASE u = t
          BY <3>2, <4>2, <5>1 DEF TypeOK
        <5>2. CASE u # t
          BY <3>2, <4>2, <5>2 DEF HeldBy, TypeOK
        <5>3. QED
          BY <5>1, <5>2
      <4>3. QED
        BY <3>3, <4>1, <4>2 DEF HeldBy
    <3>5. ASSUME NEW id \in SessionIds, NEW a \in Agents, HeldBy(a, id)' PROVE id <= reading'
      <4>1. CASE HeldBy(a, id)
        <5>1. id <= reading /\ id \in Nat
          BY <3>5, <4>1, BridgeAssumption DEF SessionInv
        <5>2. QED
          BY <3>1, <5>1
      <4>2. CASE id = r
        BY <3>1, <4>2
      <4>3. QED
        BY <3>3, <3>5, <4>1, <4>2
    <3>6. ASSUME NEW id \in SessionIds \ repeated', NEW a \in Agents, NEW b \in Agents,
                 HeldBy(a, id)', HeldBy(b, id)'
          PROVE  a = b
      <4>1. CASE id = r
        <5>1. r > reading
          BY <3>1, <3>6, <4>1
        <5>2. ~HeldBy(a, id) /\ ~HeldBy(b, id)
          BY <3>1, <4>1, <5>1 DEF SessionInv
        <5>3. QED
          BY <3>3, <3>6, <5>2
      <4>2. CASE id # r
        <5>1. HeldBy(a, id) /\ HeldBy(b, id)
          BY <3>3, <3>6, <4>2
        <5>2. id \in SessionIds \ repeated
          BY <3>1, <3>6
        <5>3. QED
          BY <5>1, <5>2 DEF SessionInv
      <4>3. QED
        BY <4>1, <4>2
    <3>7. session'[t].user = AgentOf[t]
      BY <2>16 DEF Exchange, NewSession, TypeOK
    <3>8. ASSUME NEW u \in Tabs PROVE SessionOfTab(u)'
      <4>1. SessionOfTab(u)
        BY DEF SessionInv
      <4>2. CASE u = t
        <5>1. pc'[t] = "save" /\ sid'[t] = r
          BY <2>16, <3>2 DEF Exchange, TypeOK
        <5>3. response[t] = NoResponse
          BY <2>16, <4>1, <4>2 DEF Exchange, SessionOfTab
        <5>4. QED
          BY <2>16, <3>1, <3>7, <4>2, <5>1, <5>3 DEF Exchange, SessionOfTab
      <4>3. CASE u # t
        <5>1. pc'[u] = pc[u] /\ sid'[u] = sid[u] /\ session'[u] = session[u]
          BY <2>16, <3>2, <4>3 DEF Exchange, TypeOK
        <5>2. QED
          BY <2>16, <3>1, <4>1, <5>1 DEF Exchange, SessionOfTab
      <4>4. QED
        BY <4>2, <4>3
    <3>9. UNCHANGED sessions
      BY <2>16 DEF Exchange
    <3>10. QED
      BY <3>2, <3>5, <3>6, <3>8, <3>9 DEF SessionInv
  <2>17. CASE Save(t) \/ SaveFails(t)
    <3>1. /\ pc[t] = "save" /\ UNCHANGED <<cookie, sid, clockVars, session, response>>
          /\ SaveSession(sid[t], session[t]) \/ UNCHANGED sessions
      BY <2>17 DEF Save, SaveFails
    <3>2. session[t].user = AgentOf[t] /\ sid[t] \in SessionIds
      BY <2>0, <3>1 DEF SessionOfTab
    <3>3. ASSUME NEW id \in SessionIds
          PROVE  sessions'[id] = sessions[id] \/ (id = sid[t] /\ sessions'[id].user = AgentOf[t])
      <4>1. DOMAIN sessions = SessionIds
        BY DEF TypeOK, DatabaseTypeOK
      <4>2. CASE id = sid[t]
        BY <3>1, <3>2, <4>1, <4>2 DEF SaveSession
      <4>3. CASE id # sid[t]
        BY <3>1, <4>1, <4>3 DEF SaveSession
      <4>4. QED
        BY <4>2, <4>3
    <3>4. \A id \in SessionIds, a \in Agents : HeldBy(a, id)' => HeldBy(a, id)
      BY <3>1, <3>3 DEF HeldBy
    <3>5. ASSUME NEW id \in SessionIds, sessions'[id] # NoSession
          PROVE  sessions'[id].user \in Agents
      BY <3>3, <3>5, BridgeAssumption DEF SessionInv
    <3>6. ASSUME NEW u \in Tabs PROVE SessionOfTab(u)'
      BY <2>17, <3>1, <3>6 DEF Save, SaveFails, SessionInv, SessionOfTab, TypeOK
    <3>7. QED
      BY <3>1, <3>4, <3>5, <3>6, NoNewHolder
  <2>18. CASE Follow(t)
    <3>1. cookie' = [cookie EXCEPT ![AgentOf[t]] = sid[t]] /\ sid' = [sid EXCEPT ![t] = sid[t]]
      BY <2>18, BridgeAssumption DEF Follow, SetCookie, TypeOK
    <3>2. \A id \in SessionIds, a \in Agents : HeldBy(a, id)' => HeldBy(a, id)
      BY <2>18, <3>1 DEF Follow, HeldBy, TypeOK
    <3>3. ASSUME NEW u \in Tabs PROVE SessionOfTab(u)'
      BY <2>18, <3>1, <3>3 DEF Follow, SessionInv, SessionOfTab, TypeOK
    <3>4. QED
      BY <2>18, <3>2, <3>3, NoNewHolder DEF Follow, SessionInv
  <2>19. QED
    BY <1>1, <2>1, <2>2, <2>3, <2>4, <2>4b, <2>5, <2>6, <2>7, <2>8, <2>9, <2>10, <2>11, <2>12,
       <2>13, <2>15, <2>16, <2>17, <2>18 DEF Progress, Serve
<1>2. ASSUME NEW t \in Tabs, NEW from, NEW to, Step(t, from, to), to = "sso",
             NEW sent \in {cookie[AgentOf[t]], NoCookie}, sid' = [sid EXCEPT ![t] = sent],
             from # "done", UNCHANGED <<sessions, cookie, clockVars, session, response>>
      PROVE  SessionInv'
  <2>0. NoCookie \notin SessionIds
    BY BridgeAssumption DEF NoCookie
  <2>1. \A id \in SessionIds, a \in Agents : HeldBy(a, id)' => HeldBy(a, id)
    BY <1>2, <2>0 DEF HeldBy, TypeOK
  <2>2. ASSUME NEW u \in Tabs PROVE SessionOfTab(u)'
    BY <1>2, <2>2 DEF SessionInv, SessionOfTab, TypeOK
  <2>3. QED
    BY <1>2, <2>1, <2>2, NoNewHolder DEF SessionInv
<1>3. ASSUME NEW t \in Tabs, NEW r \in Requests, Open(t, r) PROVE SessionInv'
  <2>1. PICK id \in SentCookies(t, MethodOf[r]) : sid' = [sid EXCEPT ![t] = id]
    BY <1>3 DEF Open
  <2>2. id \in {cookie[AgentOf[t]], NoCookie}
    BY SentTypes
  <2>3. QED
    BY <1>2, <1>3, <2>1, <2>2 DEF Open
<1>4. ASSUME NEW t \in Tabs, ReloadSso(t) PROVE SessionInv'
  BY <1>2, <1>4, SentTypes DEF ReloadSso
<1>5. ASSUME NEW t \in Tabs, ReloadCallback(t) PROVE SessionInv'
  BY <1>5, QuietSession DEF ReloadCallback
<1>5b. ASSUME NEW t \in Tabs, Abandon(t) PROVE SessionInv'
  <2>1. /\ Step(t, "callback", "callbackFailed")
        /\ UNCHANGED <<sessions, cookie, sid, clockVars, response, session>>
    BY <1>5b DEF Abandon
  <2>2. QED
    BY <2>1, QuietSession
<1>6. ASSUME Restart PROVE SessionInv'
  <2>1. \A id \in SessionIds, a \in Agents : HeldBy(a, id)' => HeldBy(a, id)
    BY <1>6 DEF Restart, HeldBy
  <2>2. ASSUME NEW u \in Tabs PROVE SessionOfTab(u)'
    BY <1>6, <2>2 DEF Restart, SessionInv, SessionOfTab, SsoSteps, CallbackSteps
  <2>3. QED
    BY <1>6, <2>1, <2>2, NoNewHolder DEF Restart, SessionInv
<1>7. ASSUME NEW a \in Agents, ForgetCookie(a) PROVE SessionInv'
  <2>1. \A id \in SessionIds, b \in Agents : HeldBy(b, id)' => HeldBy(b, id)
    BY <1>7, BridgeAssumption DEF ForgetCookie, HeldBy, TypeOK, NoCookie
  <2>2. ASSUME NEW u \in Tabs PROVE SessionOfTab(u)'
    BY <1>7, <2>2 DEF ForgetCookie, SessionInv, SessionOfTab
  <2>3. QED
    BY <1>7, <2>1, <2>2, NoNewHolder DEF ForgetCookie, SessionInv
<1>8. ASSUME UNCHANGED <<pc, sessions, cookie, sid, clockVars, session, response>>
      PROVE  SessionInv'
  BY <1>8 DEF SessionInv, SessionOfTab, HeldBy
<1>9. QED
  BY <1>1, <1>3, <1>4, <1>5, <1>5b, <1>6, <1>7, <1>8
  DEF Next, MapFatal, Crash, Register, Tick, Rest, vars

\* Whoever asks, in whatever order callbacks and tabs interleave, and whatever
\* fails: a response speaks for the user of the browser it is sent through, unless
\* two callbacks made their session ids from the reading this tab's id was made of.
THEOREM ResponseIdentityCorrect == Spec => []ResponseIdentity
<1>1. Init => SessionInv
  BY InitSessionInv
<1>2. TypeOK /\ SessionInv /\ [Next]_vars => SessionInv'
  BY NextSessionInv
<1>3. SessionInv => ResponseIdentity
  BY DEF SessionInv, SessionOfTab, ResponseIdentity
<1>4. QED
  BY <1>1, <1>2, <1>3, TypeCorrect, PTL DEF Spec

LEMMA OnlySavesWrite ==
    ASSUME [Next]_vars
    PROVE  \/ UNCHANGED sessions
           \/ \E t \in Tabs : /\ pc[t] = "save"
                              /\ SaveSession(sid[t], session[t])
<1>1. ASSUME NEW t \in Tabs, Progress(t)
      PROVE  \/ UNCHANGED sessions
             \/ pc[t] = "save" /\ SaveSession(sid[t], session[t])
  BY <1>1 DEF Progress, Serve, Validate, Refuse, SessionFound, SessionMissing, Capture, Answer,
     AnswerUnmapped, LogIn, Decline, NoCode, Exchange, TokenUnusable, CodeRefused, ExchangeFails,
     Save, SaveFails, LookupFinds, LookupMisses, Discard, Follow, LoseReply
<1>2. QED
  BY <1>1 DEF Next, Open, ReloadSso, ReloadCallback, Abandon, MapFatal, Restart, Crash,
     ForgetCookie, Register, Tick, Rest, vars

LEMMA FaultsStay ==
    ASSUME TypeOK, Next PROVE faults' \in {faults, faults + 1}
  BY HistoryStep DEF LeaveOfTab

LEMMA MapStays ==
    ASSUME NEW t \in Tabs, Progress(t) PROVE UNCHANGED pendingRequests \/ Capture(t) \/ Discard(t)
  BY DEF Progress, Serve, Validate, Refuse, SessionFound, SessionMissing, Answer, AnswerUnmapped,
     LogIn, Decline, NoCode, Exchange, TokenUnusable, CodeRefused, ExchangeFails, Save,
     SaveFails, LookupFinds, LookupMisses, Follow, LoseReply

LEMMA RestartEndsProcess == ASSUME TypeOK, Restart PROVE EndsProcess
  BY DEF TypeOK, Restart, EndsProcess, SsoSteps, CallbackSteps, Failed

\* A captured request leaves the map by the callback whose state names it or with
\* the process, in every interleaving and whatever the races on the map do.
THEOREM LeavesByItsCallbackCorrect == Spec => LeavesByItsCallback
<1>1. ASSUME TypeOK, RequestInv, [Next]_vars PROVE KeepsCaptured
  <2> SUFFICES ASSUME NEW id \in Texts, pendingRequests[id] # NoPending,
                      pendingRequests'[id] = NoPending
               PROVE  LeavesFor(id)
    BY DEF KeepsCaptured
  <2>0. DOMAIN pendingRequests = Texts
    BY <1>1 DEF TypeOK
  <2>1. ASSUME NEW t \in Tabs, Capture(t) PROVE FALSE
    <3>1. Pending(t) # NoPending
      BY <1>1, <2>1 DEF Capture, RequestInv, RequestOfTab, Pending, NoPending
    <3>2. QED
      BY <2>0, <2>1, <3>1 DEF Capture, MapWrite
  <2>2. ASSUME NEW t \in Tabs, Discard(t) PROVE LeavesFor(id)
    <3>1. pc[t] = "delete" /\ pc'[t] = "reply"
      BY <1>1, <2>2 DEF Discard, TypeOK
    <3>2. ParseState(state[t]).id = id
      BY <2>0, <2>2 DEF Discard, MapWrite
    <3>3. QED
      BY <3>1, <3>2 DEF LeavesFor
  <2>3. ASSUME NEW t \in Tabs, Progress(t) PROVE LeavesFor(id)
    BY <2>1, <2>2, <2>3, MapStays
  <2>4. CASE Restart
    BY <1>1, <2>4, RestartEndsProcess DEF LeavesFor
  <2>5. CASE UNCHANGED pendingRequests
    BY <2>5
  <2>6. QED
    BY <1>1, <2>3, <2>4, <2>5 DEF Next, Open, ReloadSso, ReloadCallback, Abandon, MapFatal, Crash,
       ForgetCookie, Register, Tick, Rest, vars
<1>2. TypeOK /\ RequestInv /\ [Next]_vars => [KeepsCaptured]_vars
  BY <1>1
<1>3. Init => RequestInv
  BY InitRequestInv
<1>4. TypeOK /\ RequestInv /\ [Next]_vars => RequestInv'
  BY NextRequestInv
<1>5. QED
  BY <1>2, <1>3, <1>4, TypeCorrect, PTL DEF Spec, LeavesByItsCallback

-----------------------------------------------------------------------------
(* Registrations *)

MadeInForce(t) ==
    /\ response[t].registration \in inForce[t]
    /\ \/ \E config \in inForce[t] : config.mapping = response[t].mapping
       \/ faults > 0 /\ response[t].mapping = NoMapping

\* While the library has the request, the endpoint it read and the row as it is
\* now are among the registrations in force since; the row does not vanish.
ConfigOfTab(t) ==
    /\ pc[t] \in {"session", "store", "mapping"} =>
            /\ registration[t] \in inForce[t]
            /\ serviceProviders[IssuerOf[query[t].request]] \in inForce[t] \ {Unregistered}
    /\ response[t] # NoResponse => MadeInForce(t)

ConfigInv == \A t \in Tabs : ConfigOfTab(t)

LEMMA QuietConfig ==
    ASSUME TypeOK, ConfigInv, NEW t \in Tabs, NEW to, pc' = [pc EXCEPT ![t] = to],
           UNCHANGED <<serviceProviders, registration, response, inForce>>,
           faults' \in {faults, faults + 1},
           \A u \in Tabs : query'[u] = query[u] \/ u = t,
           to \notin {"session", "store", "mapping"} \/ (pc[t] = "session" /\ query' = query)
    PROVE  ConfigInv'
<1>1. faults > 0 => faults' > 0
  BY DEF TypeOK
<1>2. ASSUME NEW u \in Tabs PROVE ConfigOfTab(u)'
  <2>1. MadeInForce(u) => MadeInForce(u)'
    BY <1>1 DEF MadeInForce
  <2>2. ConfigOfTab(u)
    BY DEF ConfigInv
  <2>3. CASE u = t
    BY <1>1, <2>1, <2>2, <2>3 DEF ConfigOfTab, TypeOK
  <2>4. CASE u # t
    BY <1>1, <2>1, <2>2, <2>4 DEF ConfigOfTab, TypeOK
  <2>5. QED
    BY <2>3, <2>4
<1>3. QED
  BY <1>2 DEF ConfigInv

LEMMA RespondConfig ==
    ASSUME TypeOK, RequestInv, ConfigInv, NEW t \in Tabs, NEW mapping, Respond(t, mapping),
           UNCHANGED <<serviceProviders, query, registration, inForce>>,
           faults' \in {faults, faults + 1},
           mapping = AttributeMappingOf(t) \/ (mapping = NoMapping /\ faults' > 0)
    PROVE  ConfigInv'
<1>1. faults > 0 => faults' > 0
  BY DEF TypeOK
<1>2. pc[t] = "mapping" /\ query[t].request \in Requests
  BY DEF Respond, RequestInv, RequestOfTab
<1>3. CASE response' = response
  <2>1. pc' = [pc EXCEPT ![t] = "done"] \/ pc' = [pc EXCEPT ![t] = "ssoFailed"]
    BY DEF Respond
  <2>2. QED
    BY <1>3, <2>1, QuietConfig
<1>4. CASE response' # response
  <2>1. /\ pc' = [pc EXCEPT ![t] = "done"]
        /\ response' = [response EXCEPT ![t] =
                           [user |-> session[t].user, request |-> query[t].request,
                            relay |-> query[t].relay, registration |-> registration[t],
                            mapping |-> mapping]]
    BY <1>4 DEF Respond
  <2>2. ASSUME NEW u \in Tabs, u # t PROVE ConfigOfTab(u)'
    <3>1. response'[u] = response[u] /\ pc'[u] = pc[u]
      BY <2>1, <2>2 DEF TypeOK
    <3>2. ConfigOfTab(u)
      BY DEF ConfigInv
    <3>3. QED
      BY <1>1, <3>1, <3>2 DEF ConfigOfTab, MadeInForce
  <2>3. pc'[t] = "done"
    BY <2>1 DEF TypeOK
  <2>4. response'[t].registration = registration[t] /\ response'[t].mapping = mapping
    BY <2>1 DEF TypeOK
  <2>5. ConfigOfTab(t)
    BY DEF ConfigInv
  <2>6. MadeInForce(t)'
    <3>1. CASE mapping = AttributeMappingOf(t)
      <4>1. mapping = serviceProviders[IssuerOf[query[t].request]].mapping
        BY <1>2, <2>5, <3>1 DEF ConfigOfTab, AttributeMappingOf, GetAttributeMapping
      <4>2. QED
        BY <1>2, <2>4, <2>5, <4>1 DEF ConfigOfTab, MadeInForce
    <3>2. CASE mapping = NoMapping /\ faults' > 0
      BY <1>2, <2>4, <2>5, <3>2 DEF ConfigOfTab, MadeInForce
    <3>3. QED
      BY <3>1, <3>2
  <2>7. ConfigOfTab(t)'
    BY <2>3, <2>6 DEF ConfigOfTab
  <2>8. QED
    BY <2>2, <2>7 DEF ConfigInv
<1>5. QED
  BY <1>3, <1>4

LEMMA NextConfigInv == TypeOK /\ RequestInv /\ ConfigInv /\ [Next]_vars => ConfigInv'
<1> SUFFICES ASSUME TypeOK, RequestInv, ConfigInv, [Next]_vars PROVE ConfigInv'
  OBVIOUS
<1>1. CASE UNCHANGED vars
  BY <1>1 DEF vars, ConfigInv, ConfigOfTab, MadeInForce
<1>2. CASE Next
  <2>1. faults' \in {faults, faults + 1} /\ faults \in Nat
    BY <1>2, FaultsStay DEF TypeOK
  <2>2. ASSUME NEW t \in Tabs, Validate(t) PROVE ConfigInv'
    <3>1. query[t].request \in Requests
      BY <2>2 DEF Validate, Acceptable, TypeOK
    <3>2. ASSUME NEW u \in Tabs, u # t PROVE ConfigOfTab(u)'
      <4>1. ConfigOfTab(u)
        BY DEF ConfigInv
      <4>2. /\ pc'[u] = pc[u] /\ registration'[u] = registration[u]
            /\ inForce'[u] = inForce[u]
        BY <2>2, <3>2 DEF Validate, TypeOK
      <4>3. QED
        BY <2>2, <4>1, <4>2 DEF Validate, ConfigOfTab, MadeInForce
    <3>3. response[t] = NoResponse
      BY <2>2 DEF Validate, RequestInv, RequestOfTab
    <3>4. /\ registration'[t] = serviceProviders[IssuerOf[query[t].request]]
          /\ inForce'[t] = {serviceProviders[IssuerOf[query[t].request]]}
      BY <2>2 DEF Validate, GetServiceProvider, TypeOK
    <3>5. ConfigOfTab(t)'
      BY <2>2, <3>3, <3>4 DEF Validate, Acceptable, GetServiceProvider, ConfigOfTab
    <3>6. QED
      BY <3>2, <3>5 DEF ConfigInv
  <2>3. ASSUME NEW t \in Tabs, Answer(t) \/ AnswerUnmapped(t) PROVE ConfigInv'
    <3>1. CASE Answer(t)
      BY <2>1, <3>1, RespondConfig DEF Answer
    <3>2. CASE AnswerUnmapped(t)
      BY <2>1, <3>2, RespondConfig DEF AnswerUnmapped
    <3>3. QED
      BY <2>3, <3>1, <3>2
  <2>4. ASSUME NEW t \in Tabs, SessionFound(t) \/ SessionMissing(t) PROVE ConfigInv'
    BY <2>1, <2>4, QuietConfig DEF SessionFound, SessionMissing
  <2>5. ASSUME NEW t \in Tabs, LookupFinds(t) \/ LookupMisses(t) PROVE ConfigInv'
    <3>1. \A u \in Tabs : query'[u] = query[u] \/ u = t
      BY <2>5 DEF LookupFinds, LookupMisses, TypeOK
    <3>2. QED
      BY <2>1, <2>5, <3>1, QuietConfig DEF LookupFinds, LookupMisses
  <2>6. ASSUME NEW t \in Tabs, NEW r \in Requests, Open(t, r) PROVE ConfigInv'
    <3>1. \A u \in Tabs : query'[u] = query[u] \/ u = t
      BY <2>6 DEF Open, TypeOK
    <3>2. QED
      BY <2>1, <2>6, <3>1, QuietConfig DEF Open
  <2>7. ASSUME NEW t \in Tabs,
               \/ Refuse(t) \/ Capture(t) \/ LogIn(t) \/ Decline(t) \/ NoCode(t) \/ Exchange(t)
               \/ TokenUnusable(t) \/ Abandon(t) \/ CodeRefused(t) \/ ExchangeFails(t)
               \/ Save(t) \/ SaveFails(t) \/ Discard(t)
               \/ Follow(t) \/ LoseReply(t) \/ ReloadSso(t) \/ ReloadCallback(t)
        PROVE  ConfigInv'
    <3>1. UNCHANGED <<serviceProviders, registration, response, inForce, query>>
      BY <2>7 DEF Refuse, Capture, LogIn, Decline, NoCode, Exchange, TokenUnusable, CodeRefused,
         ExchangeFails,
         Save, SaveFails, Discard, Follow, LoseReply, ReloadSso, ReloadCallback, Abandon
    <3>2. PICK to \in {"ssoFailed", "hydra", "callback", "save", "callbackFailed", "lookup",
                       "reply", "sso"} : pc' = [pc EXCEPT ![t] = to]
      BY <2>7 DEF Refuse, Capture, LogIn, Decline, NoCode, Exchange, TokenUnusable, CodeRefused,
         ExchangeFails,
         Save, SaveFails, Discard, Follow, LoseReply, ReloadSso, ReloadCallback, Abandon
    <3>3. QED
      BY <2>1, <3>1, <3>2, QuietConfig
  <2>8. CASE Restart
    <3>1. ASSUME NEW t \in Tabs PROVE ConfigOfTab(t)'
      <4>1. ConfigOfTab(t) /\ (faults > 0 => faults' > 0)
        BY <2>1 DEF ConfigInv
      <4>2. pc'[t] \notin {"session", "store", "mapping"}
        BY <2>8 DEF Restart, SsoSteps, CallbackSteps
      <4>3. QED
        BY <2>1, <2>8, <4>1, <4>2 DEF Restart, ConfigInv, ConfigOfTab, MadeInForce
    <3>2. QED
      BY <3>1 DEF ConfigInv
  <2>9. ASSUME NEW e \in EntityIds, NEW config \in Registrations, Register(e, config)
        PROVE  ConfigInv'
    <3>1. config # Unregistered
      BY BridgeAssumption, DatabaseAssumption
    <3>2. ASSUME NEW t \in Tabs PROVE ConfigOfTab(t)'
      <4>1. ConfigOfTab(t) /\ inForce[t] \subseteq inForce'[t]
        BY <2>9 DEF ConfigInv, Register, TypeOK
      <4>2. MadeInForce(t) => MadeInForce(t)'
        BY <2>9, <4>1 DEF MadeInForce, Register
      <4>3. ASSUME pc[t] \in {"session", "store", "mapping"}
            PROVE  /\ registration[t] \in inForce'[t]
                   /\ serviceProviders'[IssuerOf[query[t].request]]
                            \in inForce'[t] \ {Unregistered}
        <5>1. query[t].request \in Requests
          BY <4>3 DEF RequestInv, RequestOfTab, TypeOK
        <5>2. IssuerOf[query[t].request] \in EntityIds
          BY <5>1, BridgeAssumption
        <5>3. CASE IssuerOf[query[t].request] = e
          <6>1. serviceProviders'[e] = config
            BY <2>9 DEF Register, SaveServiceProvider, TypeOK, DatabaseTypeOK
          <6>2. config \in inForce'[t]
            BY <2>9, <4>3, <5>3 DEF Register, SsoSteps
          <6>3. QED
            BY <3>1, <4>1, <4>3, <5>3, <6>1, <6>2 DEF ConfigOfTab
        <5>4. CASE IssuerOf[query[t].request] # e
          <6>1. serviceProviders'[IssuerOf[query[t].request]]
                    = serviceProviders[IssuerOf[query[t].request]]
            BY <2>9, <5>2, <5>4 DEF Register, SaveServiceProvider, TypeOK, DatabaseTypeOK
          <6>2. QED
            BY <4>1, <4>3, <6>1 DEF ConfigOfTab
        <5>5. QED
          BY <5>3, <5>4
      <4>4. QED
        BY <2>9, <4>1, <4>2, <4>3 DEF Register, ConfigOfTab
    <3>3. QED
      BY <3>2 DEF ConfigInv
  <2>10. CASE UNCHANGED <<serviceProviders, pc, query, registration, response, inForce, faults>>
    BY <2>10 DEF ConfigInv, ConfigOfTab, MadeInForce
  <2>11. QED
    BY <1>2, <2>2, <2>3, <2>4, <2>5, <2>6, <2>7, <2>8, <2>9, <2>10
    DEF Next, Progress, Serve, MapFatal, Crash, ForgetCookie, Tick, Rest, vars
<1>3. QED
  BY <1>1, <1>2

\* An answer is made of registrations that were in force while it was made, however
\* often and whenever administrators register; a statement that failed can only
\* leave the mapping out.
THEOREM ConfigInForceCorrect == Spec => []ConfigInForce
<1>1. Init => ConfigInv
  BY DEF Init, ConfigInv, ConfigOfTab
<1>2. TypeOK /\ RequestInv /\ ConfigInv /\ [Next]_vars => ConfigInv'
  BY NextConfigInv
<1>3. ConfigInv => ConfigInForce
  BY DEF ConfigInv, ConfigOfTab, MadeInForce, ConfigInForce
<1>4. Init => RequestInv
  BY InitRequestInv
<1>5. TypeOK /\ RequestInv /\ [Next]_vars => RequestInv'
  BY NextRequestInv
<1>6. QED
  BY <1>1, <1>2, <1>3, <1>4, <1>5, TypeCorrect, PTL DEF Spec
==============================================================================
