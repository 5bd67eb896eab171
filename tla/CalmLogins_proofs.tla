-------------------------- MODULE CalmLogins_proofs --------------------------
(***************************************************************************)
(* What SamlBridge does while nothing has failed and no race on the        *)
(* unlocked map has gone wrong: captured requests are there when they are  *)
(* looked for, and a failed page has a cause that can be named.            *)
(***************************************************************************)
EXTENDS SamlBridge_proofs

Calm == faults = 0 /\ ~raced

KnownConfigs(e) == Registrations \cup {InitialConfig[e]}

InSso == {"session", "store", "mapping"}

\* A tab has asked for an issued request unless it is idle, and was validated against
\* a registration that administrators have made.
KnownOfTab(t) ==
    /\ IF pc[t] = "idle" THEN asked[t] = NoRequest ELSE issuedAt[asked[t]] \in Nat
    /\ pc[t] \in InSso => registration[t] \in KnownConfigs(IssuerOf[asked[t]])

KnownInv ==
    /\ \A e \in EntityIds : serviceProviders[e] \in KnownConfigs(e)
    /\ \A t \in Tabs : KnownOfTab(t)

\* The captured request of the tab may still be looked for.
Waiting(t) ==
    \/ pc[t] \in {"hydra", "save", "lookup"}
    \/ pc[t] \in {"callback", "callbackFailed"} /\ code[t] = "fresh"

InMap(t) == pendingRequests[IdOf[asked[t]]].request = asked[t]

\* The request a tab holds has not been lost, nor changed its encoding.
Intact(t) ==
    /\ query[t].request # NoRequest
    /\ MethodOf[query[t].request] = query[t].method

\* A tab at a failed page, or bound to come to one, can say why.
CalmTab(t) ==
    /\ Waiting(t) => Shared(t) \/ InMap(t)
    /\ pc[t] \in Failed => Explained(t)
    /\ pc[t] = "callback" /\ code[t] = "spent" => Explained(t)
    /\ pc[t] \in {"save", "lookup", "delete", "reply"} => code[t] = "spent"
    /\ pc[t] \in {"sso", "delete", "reply"} => Explained(t) \/ Intact(t)

CalmInv == Calm => \A t \in Tabs : CalmTab(t)

USE DEF Step, NoFault, Fault, Race, Again, Reload, Leave, clockVars, processVars, browserVars,
        handlerVars, historyVars

LEMMA InitCalm == Init => KnownInv /\ CalmInv
<1> SUFFICES ASSUME Init PROVE KnownInv /\ CalmInv
  OBVIOUS
<1>1. KnownInv
  BY DEF Init, KnownInv, KnownOfTab, KnownConfigs, InSso
<1>2. CalmInv
  BY DEF Init, CalmInv, CalmTab, Waiting, Failed
<1>3. QED
  BY <1>1, <1>2

-----------------------------------------------------------------------------
(* What one step can change *)

Own(t) == Progress(t) \/ ReloadSso(t) \/ ReloadCallback(t) \/ Abandon(t)

\* A tab's own step.
LEMMA OwnStep ==
    ASSUME TypeOK, NEW t \in Tabs, Own(t)
    PROVE  /\ UNCHANGED <<asked, issuedAt, now, serviceProviders>>
           /\ pc[t] # "idle" /\ pc'[t] # "idle"
           /\ pc'[t] \in InSso =>
                 Validate(t) \/ SessionFound(t) \/ SessionMissing(t)
           /\ \A u \in Tabs : u # t => /\ pc'[u] = pc[u] /\ query'[u] = query[u]
                                       /\ code'[u] = code[u] /\ registration'[u] = registration[u]
<1> USE DEF Own, Progress, Serve, Validate, Refuse, SessionFound, SessionMissing, Capture,
        Respond, Answer, AnswerUnmapped, LogIn, Decline, NoCode, Exchange, TokenUnusable,
        CodeRefused, ExchangeFails, Save, SaveFails, LookupFinds, LookupMisses, Discard, Follow,
        LoseReply, ReloadSso, ReloadCallback, Abandon
<1>1. UNCHANGED <<asked, issuedAt, now, serviceProviders>>
  OBVIOUS
<1>2. PICK to : pc' = [pc EXCEPT ![t] = to] /\ to # "idle" /\ pc[t] # "idle"
                /\ (to \in InSso => Validate(t) \/ SessionFound(t) \/ SessionMissing(t))
  <2>1. ASSUME NEW mapping, Respond(t, mapping)
        PROVE  \E to \in {"done", "ssoFailed"} : pc' = [pc EXCEPT ![t] = to] /\ pc[t] = "mapping"
    BY <2>1
  <2>2. CASE Answer(t) \/ AnswerUnmapped(t)
    BY <2>1, <2>2 DEF InSso
  <2>3. CASE ~(Answer(t) \/ AnswerUnmapped(t))
    BY <2>3 DEF InSso
  <2>4. QED
    BY <2>2, <2>3
<1>3. ASSUME NEW u \in Tabs, u # t
      PROVE  query'[u] = query[u] /\ code'[u] = code[u] /\ registration'[u] = registration[u]
  BY <1>3 DEF TypeOK
<1>4. QED
  BY <1>1, <1>2, <1>3 DEF TypeOK

\* Nothing is taken back that a tab which is not idle has asked for.
LEMMA AskedStays ==
    ASSUME TypeOK, RequestInv, KnownInv, [Next]_vars, NEW u \in Tabs, pc[u] # "idle"
    PROVE  /\ asked'[u] = asked[u] /\ asked[u] \in Requests
           /\ issuedAt'[asked[u]] = issuedAt[asked[u]] /\ issuedAt[asked[u]] \in Nat
           /\ now' >= now
<1>1. asked[u] \in Requests /\ issuedAt[asked[u]] \in Nat
  BY DEF RequestInv, RequestOfTab, KnownInv, KnownOfTab
<1>2. CASE UNCHANGED <<asked, issuedAt, now>>
  BY <1>1, <1>2 DEF TypeOK, DatabaseTypeOK
<1>3. ASSUME NEW t \in Tabs, NEW r \in Requests, Open(t, r)
      PROVE  /\ asked'[u] = asked[u] /\ issuedAt'[asked[u]] = issuedAt[asked[u]] /\ now' >= now
  BY <1>1, <1>3 DEF Open, TypeOK, DatabaseTypeOK
<1>4. CASE Tick
  BY <1>1, <1>4 DEF Tick, TypeOK, DatabaseTypeOK
<1>5. ASSUME NEW t \in Tabs, Own(t) PROVE UNCHANGED <<asked, issuedAt, now>>
  BY <1>5, OwnStep
<1>6. QED
  BY <1>1, <1>2, <1>3, <1>4, <1>5 DEF Next, Own, MapFatal, Restart, Crash, ForgetCookie,
     Register, Rest, vars

\* A login that Hydra ended without a code is over: reloading its callback does not help.
LEMMA DeclinedStays ==
    ASSUME TypeOK, [Next]_vars, NEW u \in Tabs, Declined(u) PROVE Declined(u)'
<1>1. pc[u] \in {"callback", "callbackFailed"} /\ code[u] = "none"
  BY DEF Declined
<1>2. ASSUME Own(u) PROVE Declined(u)'
  BY <1>1, <1>2 DEF Own, Progress, Serve, Validate, Refuse, SessionFound, SessionMissing, Capture,
     Respond, Answer, AnswerUnmapped, LogIn, Decline, NoCode, Exchange, TokenUnusable, CodeRefused,
     ExchangeFails, Save, SaveFails, LookupFinds, LookupMisses, Discard, Follow, LoseReply,
     ReloadSso, ReloadCallback, Abandon, Declined, TypeOK
<1>3. ASSUME NEW t \in Tabs, t # u, Own(t) PROVE Declined(u)'
  BY <1>1, <1>3, OwnStep DEF Declined
<1>4. ASSUME NEW t \in Tabs, NEW r \in Requests, Open(t, r) PROVE Declined(u)'
  BY <1>1, <1>4 DEF Open, Declined, TypeOK
<1>5. CASE Restart
  BY <1>1, <1>5 DEF Restart, Declined, SsoSteps, CallbackSteps
<1>6. CASE UNCHANGED <<pc, code>>
  BY <1>6 DEF Declined
<1>7. QED
  BY <1>2, <1>3, <1>4, <1>5, <1>6 DEF Next, Own, MapFatal, Crash, ForgetCookie, Register, Tick,
     Rest, vars

\* A cause stays a cause.
LEMMA ExplainedStays ==
    ASSUME TypeOK, RequestInv, KnownInv, [Next]_vars, NEW u \in Tabs, pc[u] # "idle"
    PROVE  (Shared(u) => Shared(u)') /\ (Explained(u) => Explained(u)')
<1>1. /\ asked'[u] = asked[u] /\ asked[u] \in Requests
      /\ issuedAt'[asked[u]] = issuedAt[asked[u]] /\ issuedAt[asked[u]] \in Nat
      /\ now' >= now
  BY AskedStays
<1>2. ASSUME Shared(u) PROVE Shared(u)'
  <2>1. PICK w \in Tabs \ {u} : asked[w] = asked[u]
    BY <1>2 DEF Shared
  <2>2. pc[w] # "idle"
    BY <1>1, <2>1, BridgeAssumption DEF KnownInv, KnownOfTab
  <2>3. asked'[w] = asked[w]
    BY <2>2, AskedStays
  <2>4. QED
    BY <1>1, <2>1, <2>3 DEF Shared
<1>3. now > issuedAt[asked[u]] + MaxIssueDelay => now' > issuedAt'[asked'[u]] + MaxIssueDelay
  <2>1. now \in Nat /\ now' \in Nat /\ MaxIssueDelay \in Nat
    <3>1. TypeOK'
      BY NextTypeOK
    <3>2. QED
      BY <3>1, BridgeAssumption DEF TypeOK, DatabaseTypeOK
  <2>2. QED
    BY <1>1, <2>1
<1>4. left \subseteq left'
  BY HistoryStep DEF LeaveOfTab
<1>5. Declined(u) => Declined(u)'
  BY DeclinedStays
<1>6. Explained(u) => Explained(u)'
  BY <1>1, <1>2, <1>3, <1>4, <1>5 DEF Explained
<1>7. QED
  BY <1>2, <1>6

LEMMA NextKnownInv ==
    ASSUME TypeOK, RequestInv, KnownInv, [Next]_vars PROVE KnownInv'
<1>1. ASSUME NEW t \in Tabs, Own(t) PROVE KnownInv'
  <2>1. UNCHANGED <<asked, issuedAt, now, serviceProviders>> /\ pc[t] # "idle" /\ pc'[t] # "idle"
    BY <1>1, OwnStep
  <2>2. ASSUME NEW u \in Tabs, u # t PROVE KnownOfTab(u)'
    BY <1>1, <2>1, <2>2, OwnStep DEF KnownInv, KnownOfTab
  <2>3. ASSUME pc'[t] \in InSso
        PROVE  registration'[t] \in KnownConfigs(IssuerOf[asked[t]])
    <3>1. CASE Validate(t)
      <4>1. query[t].request = asked[t] /\ asked[t] \in Requests
        BY <3>1 DEF Validate, Acceptable, RequestInv, RequestOfTab
      <4>2. registration'[t] = serviceProviders[IssuerOf[asked[t]]]
        BY <3>1, <4>1 DEF Validate, GetServiceProvider, TypeOK
      <4>3. QED
        BY <4>1, <4>2, BridgeAssumption DEF KnownInv
    <3>2. CASE SessionFound(t) \/ SessionMissing(t)
      BY <3>2 DEF SessionFound, SessionMissing, KnownInv, KnownOfTab, InSso
    <3>3. QED
      BY <1>1, <2>3, <3>1, <3>2, OwnStep
  <2>4. KnownOfTab(t)'
    BY <2>1, <2>3 DEF KnownInv, KnownOfTab
  <2>5. QED
    BY <2>1, <2>2, <2>4 DEF KnownInv
<1>2. ASSUME NEW t \in Tabs, NEW r \in Requests, Open(t, r) PROVE KnownInv'
  <2>1. KnownOfTab(t)'
    <3>1. asked'[t] = r /\ pc'[t] = "sso"
      BY <1>2 DEF Open, TypeOK
    <3>2. issuedAt'[r] \in Nat
      BY <1>2 DEF Open, TypeOK, DatabaseTypeOK
    <3>3. QED
      BY <3>1, <3>2 DEF KnownOfTab, InSso
  <2>2. ASSUME NEW u \in Tabs, u # t PROVE KnownOfTab(u)'
    <3>1. pc'[u] = pc[u] /\ asked'[u] = asked[u] /\ registration' = registration
      BY <1>2, <2>2 DEF Open, TypeOK
    <3>2. pc[u] # "idle" => issuedAt'[asked[u]] = issuedAt[asked[u]]
      BY AskedStays
    <3>3. QED
      BY <3>1, <3>2 DEF KnownInv, KnownOfTab
  <2>3. QED
    BY <1>2, <2>1, <2>2 DEF Open, KnownInv
<1>3. CASE Restart
  <2>1. ASSUME NEW u \in Tabs PROVE KnownOfTab(u)'
    <3>1. pc'[u] \notin InSso /\ (pc'[u] = "idle" <=> pc[u] = "idle")
      BY <1>3 DEF Restart, InSso, SsoSteps, CallbackSteps
    <3>2. QED
      BY <1>3, <3>1 DEF Restart, KnownInv, KnownOfTab
  <2>2. QED
    BY <1>3, <2>1 DEF Restart, KnownInv
<1>4. ASSUME NEW e \in EntityIds, NEW config \in Registrations, Register(e, config)
      PROVE  KnownInv'
  <2>1. \A f \in EntityIds : serviceProviders'[f] \in KnownConfigs(f)
    BY <1>4 DEF Register, SaveServiceProvider, KnownInv, KnownConfigs, TypeOK, DatabaseTypeOK
  <2>2. UNCHANGED <<pc, asked, issuedAt, registration>>
    BY <1>4 DEF Register
  <2>3. QED
    BY <2>1, <2>2 DEF KnownInv, KnownOfTab
<1>5. CASE UNCHANGED <<pc, asked, issuedAt, registration, serviceProviders>>
  BY <1>5 DEF KnownInv, KnownOfTab
<1>6. QED
  BY <1>1, <1>2, <1>3, <1>4, <1>5 DEF Next, Own, MapFatal, Crash, ForgetCookie, Tick, Rest, vars

\* Calm is not restored, and a step that keeps it is none of a fault or a race.
LEMMA CalmBefore ==
    ASSUME TypeOK, [Next]_vars, Calm'
    PROVE  Calm /\ faults' = faults /\ raced' = raced
<1>1. CASE UNCHANGED vars
  BY <1>1 DEF vars, Calm
<1>2. CASE Next
  <2>1. faults' \in {faults, faults + 1} /\ faults \in Nat
    BY <1>2, FaultsStay DEF TypeOK
  <2>2. raced' \in {raced, TRUE}
    BY HistoryStep DEF LeaveOfTab
  <2>3. faults' = 0 /\ ~raced'
    BY DEF Calm
  <2>4. faults = 0
    BY <2>1, <2>3
  <2>5. raced' = raced
    BY <2>2, <2>3, Zenon
  <2>6. QED
    BY <2>3, <2>4, <2>5 DEF Calm
<1>3. QED
  BY <1>1, <1>2

-----------------------------------------------------------------------------
(* Calm logins stay explained *)

\* A tab that a step leaves where it is, with its request captured or shared.
LEMMA CalmStays ==
    ASSUME TypeOK, RequestInv, KnownInv, [Next]_vars, NEW u \in Tabs, CalmTab(u),
           UNCHANGED <<pc[u], query[u], code[u]>>,
           Waiting(u) /\ InMap(u) => InMap(u)' \/ Shared(u)
    PROVE  CalmTab(u)'
<1>1. CASE pc[u] = "idle"
  BY <1>1 DEF CalmTab, Waiting, Failed
<1>2. CASE pc[u] # "idle"
  <2>1. (Shared(u) => Shared(u)') /\ (Explained(u) => Explained(u)')
    BY <1>2, ExplainedStays
  <2>2. Intact(u) => Intact(u)'
    BY DEF Intact
  <2>3. QED
    BY <2>1, <2>2 DEF CalmTab, Waiting
<1>3. QED
  BY <1>1, <1>2

\* What a write to the map under one request's ID leaves of another's.
LEMMA OtherEntries ==
    ASSUME TypeOK, RequestInv, KnownInv, [Next]_vars, NEW t \in Tabs, NEW u \in Tabs, u # t,
           pc[t] # "idle", pc[u] # "idle", NEW entry,
           \/ pendingRequests' = [pendingRequests EXCEPT ![IdOf[asked[t]]] = entry]
           \/ UNCHANGED pendingRequests,
           InMap(u)
    PROVE  InMap(u)' \/ Shared(u)
<1>1. asked'[u] = asked[u] /\ asked[u] \in Requests /\ asked[t] \in Requests
  BY AskedStays
<1>2. CASE asked[t] = asked[u]
  BY <1>2 DEF Shared
<1>3. CASE asked[t] # asked[u]
  <2>1. IdOf[asked[t]] # IdOf[asked[u]]
    BY <1>1, <1>3, UniqueIds
  <2>2. pendingRequests'[IdOf[asked[u]]] = pendingRequests[IdOf[asked[u]]]
    BY <1>1, <2>1, BridgeAssumption DEF TypeOK
  <2>3. QED
    BY <1>1, <2>2 DEF InMap
<1>4. QED
  BY <1>2, <1>3

\* The steps that leave the map, and every other tab, alone.
LEMMA CalmOthers ==
    ASSUME TypeOK, RequestInv, KnownInv, CalmInv, [Next]_vars, Calm', NEW t \in Tabs, Own(t),
           NEW u \in Tabs, u # t
    PROVE  CalmTab(u)'
<1>1. Calm
  BY CalmBefore
<1>2. CalmTab(u)
  BY <1>1 DEF CalmInv
<1>3. UNCHANGED <<pc[u], query[u], code[u]>> /\ pc[t] # "idle"
  BY OwnStep
<1>4. ASSUME Waiting(u), InMap(u) PROVE InMap(u)' \/ Shared(u)
  <2>1. pc[u] # "idle"
    BY <1>4 DEF Waiting
  <2>2. asked'[u] = asked[u]
    BY <2>1, AskedStays
  <2>3. CASE UNCHANGED pendingRequests
    BY <1>4, <2>2, <2>3 DEF InMap
  <2>4. CASE Capture(t)
    <3>1. query[t].request = asked[t]
      BY <2>4 DEF Capture, RequestInv, RequestOfTab
    <3>2. \/ pendingRequests' = [pendingRequests EXCEPT ![IdOf[asked[t]]] = Pending(t)]
          \/ UNCHANGED pendingRequests
      BY <2>4, <3>1 DEF Capture, MapWrite
    <3>3. QED
      BY <1>3, <1>4, <2>1, <3>2, OtherEntries
  <2>5. CASE Discard(t)
    <3>1. ParseState(state[t]).id = IdOf[asked[t]]
      BY <2>5, CallbackTypes DEF Discard, CallbackSteps
    <3>2. \/ pendingRequests' = [pendingRequests EXCEPT ![IdOf[asked[t]]] = NoPending]
          \/ UNCHANGED pendingRequests
      BY <2>5, <3>1 DEF Discard, MapWrite
    <3>3. QED
      BY <1>3, <1>4, <2>1, <3>2, OtherEntries
  <2>6. CASE Progress(t)
    BY <2>3, <2>4, <2>5, <2>6, MapStays
  <2>7. CASE ReloadSso(t) \/ ReloadCallback(t) \/ Abandon(t)
    BY <2>3, <2>7 DEF ReloadSso, ReloadCallback, Abandon
  <2>8. QED
    BY <2>6, <2>7 DEF Own
<1>5. QED
  BY <1>2, <1>3, <1>4, CalmStays

\* A request the tab lost, or that is refused in a calm system, is explained.
LEMMA RefusalExplained ==
    ASSUME TypeOK, RequestInv, KnownInv, CalmInv, Calm, NEW t \in Tabs, pc[t] = "sso",
           ~Acceptable(query[t])
    PROVE  Explained(t)
<1>1. CalmTab(t)
  BY DEF CalmInv
<1>2. CASE Intact(t)
  <2>1. query[t].request = asked[t] /\ asked[t] \in Requests
    BY <1>2 DEF Intact, RequestInv, RequestOfTab
  <2>2. CASE GetServiceProvider(IssuerOf[asked[t]]) = Unregistered
    <3>1. IssuerOf[asked[t]] \in EntityIds
      BY <2>1, BridgeAssumption
    <3>2. serviceProviders[IssuerOf[asked[t]]] = Unregistered
      BY <2>2 DEF GetServiceProvider
    <3>3. Unregistered \in KnownConfigs(IssuerOf[asked[t]])
      BY <3>1, <3>2 DEF KnownInv
    <3>4. QED
      BY <3>3 DEF Explained, KnownConfigs, Answerable
  <2>3. CASE ~(now <= issuedAt[asked[t]] + MaxIssueDelay)
    <3>1. now \in Nat /\ issuedAt[asked[t]] \in Nat /\ MaxIssueDelay \in Nat
      BY BridgeAssumption DEF TypeOK, DatabaseTypeOK, KnownInv, KnownOfTab
    <3>2. now > issuedAt[asked[t]] + MaxIssueDelay
      BY <2>3, <3>1
    <3>3. QED
      BY <3>2 DEF Explained
  <2>4. QED
    BY <1>2, <2>1, <2>2, <2>3 DEF Acceptable, Intact
<1>3. QED
  BY <1>1, <1>2 DEF CalmTab

\* A tab's own step.
LEMMA CalmOwn ==
    ASSUME TypeOK, RequestInv, KnownInv, CalmInv, [Next]_vars, Calm', NEW t \in Tabs, Own(t)
    PROVE  CalmTab(t)'
<1>0. Calm /\ faults' = faults /\ raced' = raced
  BY CalmBefore
<1>1. /\ faults' # faults + 1
      /\ ~raced'
  BY <1>0 DEF Calm
<1>2. CalmTab(t) /\ pc[t] # "idle"
  BY <1>0, OwnStep DEF CalmInv
<1>3. (Shared(t) => Shared(t)') /\ (Explained(t) => Explained(t)')
  BY <1>2, ExplainedStays
<1>4. asked'[t] = asked[t] /\ asked[t] \in Requests
  BY <1>2, AskedStays
<1>5. ASSUME Waiting(t), UNCHANGED pendingRequests PROVE Shared(t)' \/ InMap(t)'
  BY <1>2, <1>3, <1>4, <1>5 DEF CalmTab, InMap
<1>6. CASE Validate(t) \/ SessionFound(t) \/ SessionMissing(t) \/ Follow(t)
  <2>1. CASE Follow(t)
    <3>1. pc[t] = "reply" /\ pc'[t] = "sso" /\ query'[t] = query[t]
      BY <2>1 DEF Follow, TypeOK
    <3>2. QED
      BY <1>2, <1>3, <3>1 DEF CalmTab, Intact, Waiting, Failed
  <2>2. CASE ~Follow(t)
    <3>1. pc'[t] \in InSso
      BY <1>6, <2>2 DEF Validate, SessionFound, SessionMissing, TypeOK, InSso
    <3>2. QED
      BY <3>1 DEF CalmTab, Waiting, Failed, InSso
  <2>3. QED
    BY <2>1, <2>2
<1>7. CASE Refuse(t)
  <2>1. ~Acceptable(query[t]) /\ pc[t] = "sso" /\ pc'[t] = "ssoFailed"
    BY <1>1, <1>7 DEF Refuse, TypeOK
  <2>2. Explained(t)'
    BY <1>0, <1>3, <2>1, RefusalExplained
  <2>3. QED
    BY <2>1, <2>2 DEF CalmTab, Waiting, Failed
<1>8. CASE Capture(t)
  <2>1. pc'[t] = "hydra" /\ query[t].request = asked[t]
    BY <1>8 DEF Capture, RequestInv, RequestOfTab, TypeOK
  <2>2. pendingRequests' = [pendingRequests EXCEPT ![IdOf[asked[t]]] = Pending(t)]
    BY <1>1, <1>8, <2>1 DEF Capture, MapWrite
  <2>3. pendingRequests'[IdOf[asked[t]]] = Pending(t)
    BY <1>4, <2>2, BridgeAssumption DEF TypeOK
  <2>4. InMap(t)'
    BY <1>4, <2>1, <2>3 DEF InMap, Pending
  <2>5. QED
    BY <2>1, <2>4 DEF CalmTab, Failed
<1>9. CASE Answer(t) \/ AnswerUnmapped(t)
  <2>1. PICK mapping : Respond(t, mapping)
    BY <1>9 DEF Answer, AnswerUnmapped
  <2>2. pc[t] = "mapping"
    BY <2>1 DEF Respond
  <2>3. CASE registration[t].binding = "POST"
    <3>1. pc'[t] = "done"
      BY <2>1, <2>3 DEF Respond, TypeOK
    <3>2. QED
      BY <3>1 DEF CalmTab, Waiting, Failed
  <2>4. CASE registration[t].binding # "POST"
    <3>1. pc'[t] = "ssoFailed"
      BY <2>1, <2>4 DEF Respond, TypeOK
    <3>2. registration[t] \in KnownConfigs(IssuerOf[asked[t]])
      BY <2>2 DEF KnownInv, KnownOfTab, InSso
    <3>3. Explained(t)'
      BY <1>3, <2>4, <3>2 DEF Explained, KnownConfigs, Answerable
    <3>4. QED
      BY <3>1, <3>3 DEF CalmTab, Waiting, Failed
  <2>5. QED
    BY <2>3, <2>4
<1>10. CASE LogIn(t) \/ Exchange(t) \/ Save(t)
  <2>1. CASE LogIn(t)
    <3>1. /\ Waiting(t) /\ UNCHANGED pendingRequests
          /\ pc'[t] = "callback" /\ code'[t] = "fresh"
      BY <2>1 DEF LogIn, TypeOK, Waiting
    <3>2. QED
      BY <1>5, <3>1 DEF CalmTab, Failed
  <2>2. CASE Exchange(t) \/ Save(t)
    <3>1. /\ Waiting(t) /\ UNCHANGED pendingRequests
          /\ pc'[t] \in {"save", "lookup"} /\ code'[t] = "spent"
      BY <1>2, <2>2 DEF Exchange, Save, TypeOK, Waiting, CalmTab
    <3>2. QED
      BY <1>5, <3>1 DEF CalmTab, Failed
  <2>3. QED
    BY <1>10, <2>1, <2>2
<1>10b. CASE Decline(t) \/ NoCode(t)
  <2>1. code'[t] = "none" /\ pc'[t] \in {"callback", "callbackFailed"}
    BY <1>10b DEF Decline, NoCode, TypeOK
  <2>2. Explained(t)'
    BY <2>1 DEF Explained, Declined
  <2>3. QED
    BY <2>1, <2>2 DEF CalmTab, Waiting
<1>11. CASE TokenUnusable(t) \/ CodeRefused(t)
  <2>1. /\ pc[t] = "callback" /\ pc'[t] = "callbackFailed"
        /\ code[t] = "fresh" => code'[t] = "spent"
        /\ code[t] # "fresh" => code'[t] = code[t]
    BY <1>1, <1>11 DEF TokenUnusable, CodeRefused, TypeOK
  <2>2. Explained(t)
    <3>1. CASE TokenUnusable(t)
      BY <1>1, <3>1 DEF TokenUnusable, Explained
    <3>2. CASE CodeRefused(t)
      BY <1>1, <1>2, <2>1, <3>2 DEF CodeRefused, CalmTab
    <3>3. QED
      BY <1>11, <3>1, <3>2
  <2>3. QED
    BY <1>3, <2>1, <2>2 DEF CalmTab, Waiting, Failed
<1>11b. CASE Abandon(t) \/ (LoseReply(t) /\ Leave(t))
  <2>1. t \in left' /\ UNCHANGED pendingRequests /\ pc'[t] = "callbackFailed"
    BY <1>11b DEF Abandon, LoseReply, TypeOK
  <2>2. Explained(t)'
    BY <2>1 DEF Explained
  <2>3. code'[t] = "fresh" => Waiting(t)
    <3>1. CASE Abandon(t)
      <4>1. PICK c \in {code[t], "spent"} : code' = [code EXCEPT ![t] = c]
        BY <3>1 DEF Abandon
      <4>2. QED
        BY <3>1, <4>1 DEF Abandon, TypeOK, Waiting
    <3>2. CASE LoseReply(t)
      BY <1>2, <3>2 DEF LoseReply, CalmTab
    <3>3. QED
      BY <1>11b, <3>1, <3>2
  <2>4. QED
    BY <1>5, <2>1, <2>2, <2>3 DEF CalmTab, Waiting
<1>12. CASE ExchangeFails(t) \/ SaveFails(t) \/ (LoseReply(t) /\ ~Leave(t))
  BY <1>1, <1>12 DEF ExchangeFails, SaveFails, LoseReply
<1>13. CASE LookupFinds(t)
  <2>1. pc[t] = "lookup" /\ pc'[t] = "delete" /\ code'[t] = code[t]
    BY <1>13 DEF LookupFinds, TypeOK
  <2>2. query'[t] = Replay(pendingRequests[IdOf[asked[t]]])
    BY <1>13, CallbackTypes DEF LookupFinds, CallbackSteps, TypeOK
  <2>3. CASE Shared(t)
    BY <1>2, <1>3, <2>1, <2>3 DEF CalmTab, Waiting, Failed, Explained
  <2>4. CASE InMap(t)
    <3>1. query'[t].request = asked[t] /\ query'[t].method = "GET"
      BY <2>2, <2>4 DEF Replay, InMap
    <3>2. MethodOf[asked[t]] \in {"GET", "POST"} /\ asked[t] # NoRequest
      BY <1>4, BridgeAssumption DEF Methods
    <3>3. Explained(t)' \/ Intact(t)'
      BY <1>3, <3>1, <3>2 DEF Explained, Intact
    <3>4. QED
      BY <1>2, <2>1, <3>3 DEF CalmTab, Waiting, Failed
  <2>5. QED
    BY <1>2, <2>1, <2>3, <2>4 DEF CalmTab, Waiting
<1>14. CASE LookupMisses(t)
  <2>1. pc[t] = "lookup" /\ pc'[t] = "reply" /\ code'[t] = code[t]
    BY <1>14 DEF LookupMisses, TypeOK
  <2>2. pendingRequests[IdOf[asked[t]]] = NoPending
    BY <1>1, <1>14, CallbackTypes DEF LookupMisses, CallbackSteps
  <2>3. ~InMap(t)
    BY <1>4, <2>2, BridgeAssumption DEF InMap, NoPending
  <2>4. Explained(t)'
    BY <1>2, <1>3, <2>1, <2>3 DEF CalmTab, Waiting, Explained
  <2>5. QED
    BY <1>2, <2>1, <2>4 DEF CalmTab, Waiting, Failed
<1>15. CASE Discard(t)
  <2>1. pc[t] = "delete" /\ pc'[t] = "reply" /\ UNCHANGED <<query[t], code[t]>>
    BY <1>15 DEF Discard, TypeOK
  <2>2. QED
    BY <1>2, <1>3, <2>1 DEF CalmTab, Waiting, Failed, Intact
<1>16. CASE ReloadSso(t)
  <2>1. pc[t] = "ssoFailed" /\ pc'[t] = "sso"
    BY <1>16 DEF ReloadSso, TypeOK
  <2>2. QED
    BY <1>2, <1>3, <2>1 DEF CalmTab, Waiting, Failed
<1>17. CASE ReloadCallback(t)
  <2>1. pc[t] = "callbackFailed" /\ pc'[t] = "callback"
        /\ UNCHANGED <<pendingRequests, code>>
    BY <1>17 DEF ReloadCallback, TypeOK
  <2>2. QED
    BY <1>2, <1>3, <1>5, <2>1 DEF CalmTab, Waiting, Failed
<1>18. QED
  BY <1>6, <1>7, <1>8, <1>9, <1>10, <1>10b, <1>11, <1>11b, <1>12, <1>13, <1>14, <1>15, <1>16, <1>17
  DEF Own, Progress, Serve

LEMMA NextCalmInv ==
    ASSUME TypeOK, RequestInv, KnownInv, CalmInv, [Next]_vars PROVE CalmInv'
<1> SUFFICES ASSUME Calm', NEW u \in Tabs PROVE CalmTab(u)'
  BY DEF CalmInv
<1>1. Calm /\ CalmTab(u) /\ faults' # faults + 1 /\ ~raced'
  BY CalmBefore DEF Calm, CalmInv
<1>2. ASSUME NEW t \in Tabs, Own(t) PROVE CalmTab(u)'
  BY <1>2, CalmOwn, CalmOthers
<1>3. ASSUME NEW t \in Tabs, NEW r \in Requests, Open(t, r) PROVE CalmTab(u)'
  <2>1. CASE u = t
    <3>1. pc'[u] = "sso" /\ query'[u] = [request |-> r, relay |-> RelayOf[r],
                                         method |-> MethodOf[r]]
      BY <1>3, <2>1 DEF Open, TypeOK
    <3>2. Intact(u)'
      BY <3>1, BridgeAssumption DEF Intact
    <3>3. QED
      BY <3>1, <3>2 DEF CalmTab, Waiting, Failed
  <2>2. CASE u # t
    <3>1. UNCHANGED <<pc[u], query[u], code[u], asked[u], pendingRequests>>
      BY <1>3, <2>2 DEF Open, TypeOK
    <3>2. InMap(u) => InMap(u)'
      BY <3>1 DEF InMap
    <3>3. QED
      BY <1>1, <3>1, <3>2, CalmStays
  <2>3. QED
    BY <2>1, <2>2
<1>4. CASE UNCHANGED <<pc, query, code, asked, pendingRequests>>
  <2>1. InMap(u) => InMap(u)'
    BY <1>4 DEF InMap
  <2>2. QED
    BY <1>1, <1>4, <2>1, CalmStays
<1>5. QED
  BY <1>1, <1>2, <1>3, <1>4 DEF Next, Own, MapFatal, Crash, ForgetCookie, Register, Tick, Rest,
     vars

\* What has been established of every reachable state.
CalmStateInv == TypeOK /\ RequestInv /\ KnownInv /\ CalmInv

THEOREM CalmStateCorrect == Spec => []CalmStateInv
<1>1. Init => CalmStateInv
  BY InitTypeOK, InitRequestInv, InitCalm DEF CalmStateInv
<1>2. CalmStateInv /\ [Next]_vars => CalmStateInv'
  BY NextTypeOK, NextRequestInv, NextKnownInv, NextCalmInv DEF CalmStateInv
<1>3. QED
  BY <1>1, <1>2, PTL DEF Spec

\* While nothing fails and no racing access goes wrong, the request a callback is
\* to replay is in the map when it looks, unless the same request is open in
\* another tab, whose callback may have taken it: for any number of tabs.
THEOREM CapturedUnlessRacedCorrect == Spec => []CapturedUnlessRaced
<1>1. CalmStateInv => CapturedUnlessRaced
  <2> SUFFICES ASSUME CalmStateInv, ~raced, faults = 0, NEW t \in Tabs
               PROVE  WaitsFor(t) \/ Shared(t)
    BY DEF CapturedUnlessRaced, CapturedForReplay
  <2>1. CalmTab(t)
    BY DEF CalmStateInv, CalmInv, Calm
  <2>2. QED
    BY <2>1 DEF CalmTab, Waiting, InMap, WaitsFor
<1>2. QED
  BY <1>1, CalmStateCorrect, PTL

\* While nothing fails and no racing access goes wrong, every failed page has one
\* of the causes of Explained: the list is complete.
THEOREM FailuresExplainedCorrect == Spec => []FailuresExplained
<1>1. CalmStateInv => FailuresExplained
  <2> SUFFICES ASSUME CalmStateInv, faults = 0, ~raced, NEW t \in Tabs, pc[t] \in Failed
               PROVE  Explained(t)
    BY DEF FailuresExplained
  <2>1. CalmTab(t)
    BY DEF CalmStateInv, CalmInv, Calm
  <2>2. QED
    BY <2>1 DEF CalmTab
<1>2. QED
  BY <1>1, CalmStateCorrect, PTL
=============================================================================
