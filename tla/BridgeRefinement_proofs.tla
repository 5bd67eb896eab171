----------------------- MODULE BridgeRefinement_proofs -----------------------
(***************************************************************************)
(* SamlBridge implements SingleSignOn for every instance, provided no two  *)
(* callbacks read the same nanosecond from the clock: initial states map   *)
(* to initial states, and a step to a step or to none.                     *)
(***************************************************************************)
EXTENDS BridgeRefinement, SamlBridge_proofs

\* A tab has a request once it was opened; the session it is about to save is
\* its own, for no longer than SessionTTL, under an id no row and no other such tab has.
SavesAnew(t) ==
    /\ pc[t] = "idle" => asked[t] = NoRequest
    /\ pc[t] = "save" =>
            /\ session[t].expire \in 0..(now + SessionTTL)
            /\ sessions[sid[t]] = NoSession
            /\ \A u \in Tabs \ {t} : pc[u] = "save" => sid[u] # sid[t]

SaveInv == \A t \in Tabs : SavesAnew(t)

USE DEF Step, NoFault, Fault, Race, Again, Reload, Leave, clockVars, processVars, browserVars,
        handlerVars, historyVars

LEMMA InitSaveInv == Init => SaveInv
  BY DEF Init, SaveInv, SavesAnew

LEMMA UpToGrows ==
    ASSUME NEW a \in Nat, NEW b \in Nat, NEW n \in Nat, a <= b
    PROVE  \A x \in 0..(a + n) : x \in 0..(b + n)
  OBVIOUS

\* A step that makes no session leaves the property alone.
LEMMA QuietSave ==
    ASSUME TypeOK, SaveInv, UNCHANGED <<sessions, session>>,
           now' \in {now, now + 1},
           \A t \in Tabs : /\ pc'[t] = "save" => pc[t] = "save" /\ sid'[t] = sid[t]
                           /\ pc'[t] = "idle" => pc[t] = "idle" /\ asked'[t] = asked[t]
    PROVE  SaveInv'
<1>1. now \in Nat /\ SessionTTL \in Nat
  BY BridgeAssumption DEF TypeOK, DatabaseTypeOK
<1>2. now' \in Nat /\ now <= now'
  BY <1>1
<1>3. ASSUME NEW t \in Tabs PROVE SavesAnew(t)'
  <2>1. SavesAnew(t)
    BY DEF SaveInv
  <2>2. session[t].expire \in 0..(now + SessionTTL)
        => session'[t].expire \in 0..(now' + SessionTTL)
    BY <1>1, <1>2, UpToGrows
  <2>3. QED
    BY <2>1, <2>2 DEF SavesAnew
<1>4. QED
  BY <1>3 DEF SaveInv

LEMMA NextSaveInv ==
    ASSUME UniqueReadings
    PROVE  TypeOK /\ SessionInv /\ SaveInv /\ [Next]_vars => SaveInv'
<1> SUFFICES ASSUME TypeOK, SessionInv, SaveInv, [Next]_vars PROVE SaveInv'
  OBVIOUS
<1>0. DOMAIN pc = Tabs /\ DOMAIN sid = Tabs /\ DOMAIN asked = Tabs /\ DOMAIN session = Tabs
  BY DEF TypeOK
<1>1. ASSUME NEW t \in Tabs, Exchange(t) PROVE SaveInv'
  <2>1. reading \in Nat /\ reading' = reading + 1 /\ reading' \in SessionIds
    BY <1>1, BridgeAssumption DEF Exchange, NextReadings, TypeOK
  <2>2. sid'[t] = reading' /\ session'[t] = NewSession(t) /\ pc'[t] = "save"
    BY <1>0, <1>1, <2>1 DEF Exchange, NextReadings
  <2>3. ASSUME NEW u \in Tabs, u # t
        PROVE  pc'[u] = pc[u] /\ sid'[u] = sid[u] /\ session'[u] = session[u]
    BY <1>0, <1>1, <2>3 DEF Exchange
  <2>4. ASSUME NEW u \in Tabs, pc[u] = "save" PROVE sid[u] # reading'
    <3>1. sid[u] \in SessionIds /\ HeldBy(AgentOf[u], sid[u]) /\ AgentOf[u] \in Agents
      BY <2>4, BridgeAssumption DEF SessionInv, SessionOfTab, HeldBy
    <3>2. sid[u] <= reading
      BY <3>1 DEF SessionInv
    <3>3. sid[u] \in Nat
      BY <3>1, BridgeAssumption
    <3>4. QED
      BY <2>1, <3>2, <3>3
  <2>5. sessions[reading'] = NoSession
    <3>1. SUFFICES ASSUME sessions[reading'] # NoSession PROVE FALSE
      OBVIOUS
    <3>2. sessions[reading'].user \in Agents /\ HeldBy(sessions[reading'].user, reading')
      BY <2>1, <3>1 DEF SessionInv, HeldBy
    <3>3. reading' <= reading
      BY <2>1, <3>2 DEF SessionInv
    <3>4. QED
      BY <2>1, <3>3
  <2>6. NewSession(t).expire \in 0..(now + SessionTTL)
    BY BridgeAssumption DEF NewSession, TypeOK, DatabaseTypeOK
  <2>7. ASSUME NEW u \in Tabs PROVE SavesAnew(u)'
    <3>1. SavesAnew(u)
      BY DEF SaveInv
    <3>2. CASE u = t
      BY <1>1, <2>2, <2>3, <2>4, <2>5, <2>6, <3>2 DEF Exchange, SavesAnew
    <3>3. CASE u # t
      BY <1>1, <2>2, <2>3, <2>4, <3>1, <3>3 DEF Exchange, SavesAnew
    <3>4. QED
      BY <3>2, <3>3
  <2>8. QED
    BY <2>7 DEF SaveInv
<1>2. ASSUME NEW t \in Tabs, Save(t) \/ SaveFails(t) PROVE SaveInv'
  <2>1. /\ pc[t] = "save" /\ pc'[t] \notin {"idle", "save"}
        /\ UNCHANGED <<now, asked, sid, session>>
    BY <1>0, <1>2 DEF Save, SaveFails
  <2>2. ASSUME NEW u \in Tabs, u # t PROVE pc'[u] = pc[u]
    BY <1>0, <1>2, <2>2 DEF Save, SaveFails
  <2>3. ASSUME NEW u \in Tabs, pc'[u] = "save" PROVE sessions'[sid[u]] = NoSession
    <3>1. u # t /\ pc[u] = "save"
      BY <2>1, <2>2, <2>3
    <3>2. sid[u] # sid[t] /\ sessions[sid[u]] = NoSession
      BY <2>1, <3>1 DEF SaveInv, SavesAnew
    <3>3. sid[u] \in SessionIds /\ DOMAIN sessions = SessionIds
      BY <3>1 DEF SessionInv, SessionOfTab, TypeOK, DatabaseTypeOK
    <3>4. QED
      BY <1>2, <3>2, <3>3 DEF Save, SaveFails, SaveSession
  <2>4. ASSUME NEW u \in Tabs PROVE SavesAnew(u)'
    <3>1. SavesAnew(u)
      BY DEF SaveInv
    <3>2. pc'[u] \in {"idle", "save"} => pc'[u] = pc[u]
      BY <2>1, <2>2
    <3>3. QED
      BY <2>1, <2>2, <2>3, <3>1, <3>2 DEF SavesAnew
  <2>5. QED
    BY <2>4 DEF SaveInv
<1>3. ASSUME NEW t \in Tabs, SessionFound(t) \/ SessionMissing(t) PROVE SaveInv'
  <2>1. /\ UNCHANGED <<sessions, now, asked, sid>>
        /\ \A u \in Tabs : pc'[u] \in {"idle", "save"} => u # t /\ pc'[u] = pc[u]
    BY <1>0, <1>3 DEF SessionFound, SessionMissing
  <2>2. \A u \in Tabs : u # t => session'[u] = session[u]
    BY <1>0, <1>3 DEF SessionFound, SessionMissing
  <2>3. ASSUME NEW u \in Tabs PROVE SavesAnew(u)'
    <3>1. SavesAnew(u)
      BY DEF SaveInv
    <3>2. QED
      BY <2>1, <2>2, <3>1 DEF SavesAnew
  <2>4. QED
    BY <2>3 DEF SaveInv
<1>4. ASSUME NEW t \in Tabs, NEW r \in Requests, Open(t, r) PROVE SaveInv'
  BY <1>0, <1>4, QuietSave DEF Open
<1>5. ASSUME NEW t \in Tabs, NEW to, to \notin {"idle", "save"}, pc' = [pc EXCEPT ![t] = to],
             UNCHANGED <<sessions, session, now, asked>>,
             \A u \in Tabs : sid'[u] = sid[u] \/ u = t
      PROVE  SaveInv'
  BY <1>0, <1>5, QuietSave
<1>6. ASSUME NEW t \in Tabs,
             \/ Validate(t) \/ Refuse(t) \/ Capture(t) \/ LogIn(t) \/ Decline(t) \/ NoCode(t)
             \/ TokenUnusable(t) \/ Abandon(t) \/ CodeRefused(t) \/ ExchangeFails(t)
             \/ LookupFinds(t) \/ LookupMisses(t)
             \/ Discard(t) \/ LoseReply(t) \/ ReloadCallback(t)
      PROVE  SaveInv'
  <2>1. UNCHANGED <<sessions, session, now, asked, sid>>
    BY <1>6 DEF Validate, Refuse, Capture, LogIn, Decline, NoCode, TokenUnusable, Abandon,
       CodeRefused, ExchangeFails, LookupFinds, LookupMisses, Discard, LoseReply, ReloadCallback
  <2>2. PICK to \in {"session", "ssoFailed", "hydra", "callback", "callbackFailed", "delete",
                     "reply"} : pc' = [pc EXCEPT ![t] = to]
    BY <1>6 DEF Validate, Refuse, Capture, LogIn, Decline, NoCode, TokenUnusable, Abandon,
       CodeRefused, ExchangeFails, LookupFinds, LookupMisses, Discard, LoseReply, ReloadCallback
  <2>3. QED
    BY <1>5, <2>1, <2>2
<1>7. ASSUME NEW t \in Tabs, Follow(t) \/ ReloadSso(t) PROVE SaveInv'
  <2>1. \A u \in Tabs : sid'[u] = sid[u] \/ u = t
    BY <1>0, <1>7 DEF Follow, ReloadSso
  <2>2. QED
    BY <1>5, <1>7, <2>1 DEF Follow, ReloadSso
<1>8. ASSUME NEW t \in Tabs, Answer(t) \/ AnswerUnmapped(t) PROVE SaveInv'
  <2>1. UNCHANGED <<sessions, session, now, asked, sid>>
    BY <1>8 DEF Answer, AnswerUnmapped
  <2>2. pc' = [pc EXCEPT ![t] = "done"] \/ pc' = [pc EXCEPT ![t] = "ssoFailed"]
    BY <1>8 DEF Answer, AnswerUnmapped, Respond
  <2>3. QED
    BY <1>5, <2>1, <2>2
<1>9. CASE Restart
  <2>1. \A t \in Tabs : pc'[t] \notin {"save"} /\ (pc'[t] = "idle" => pc[t] = "idle")
    BY <1>9 DEF Restart, SsoSteps, CallbackSteps
  <2>2. QED
    BY <1>9, <2>1, QuietSave DEF Restart
<1>10. ASSUME UNCHANGED <<sessions, session, pc, sid, asked>>, now' \in {now, now + 1}
       PROVE  SaveInv'
  BY <1>10, QuietSave
<1>11. QED
  BY <1>1, <1>2, <1>3, <1>4, <1>6, <1>7, <1>8, <1>9, <1>10
  DEF Next, Progress, Serve, MapFatal, Crash, ForgetCookie, Register, Tick, Rest, vars

-----------------------------------------------------------------------------
(* Initial states and steps *)

LEMMA InitImplements == Init => SSO!Init
<1> SUFFICES ASSUME Init PROVE SSO!Init
  OBVIOUS
<1>1. Granted = [a \in Agents |-> {}]
  <2>1. \A id \in SessionIds : sessions[id].user \notin Agents
    BY DatabaseAssumption DEF Init, NoSession
  <2>2. QED
    BY <2>1 DEF Granted
<1>2. Recognised = [t \in Tabs |-> FALSE]
  BY DEF Init, Recognised
<1>3. Answers = [t \in Tabs |-> NoAnswer]
  BY DEF Init, Answers, Told, NoAnswer, NoResponse
<1>4. QED
  BY <1>1, <1>2, <1>3 DEF Init, SSO!Init

\* A step after which nobody new is recognised, and nothing else is told.
LEMMA NothingTold ==
    ASSUME UNCHANGED <<now, asked, sessions, response>>,
           \A t \in Tabs : pc'[t] = "mapping" => pc[t] = "mapping"
    PROVE  SSO!Next
<1> DEFINE lost == {t \in Tabs : pc'[t] # "mapping"}
<1>1. Granted' = Granted /\ Answers' = Answers
  BY DEF Granted, Answers, Told
<1>2. Recognised' = [t \in Tabs |-> Recognised[t] /\ t \notin lost]
  BY DEF Recognised
<1>3. SSO!LoseRecognition(lost)
  BY <1>1, <1>2 DEF SSO!LoseRecognition
<1>4. QED
  BY <1>3 DEF SSO!Next

LEMMA SaveAuthenticates ==
    ASSUME TypeOK, RequestInv, SessionInv, SaveInv, NEW t \in Tabs, pc[t] = "save",
           SaveSession(sid[t], session[t]), UNCHANGED <<now, asked, response>>,
           \A u \in Tabs : pc'[u] = "mapping" <=> pc[u] = "mapping"
    PROVE  SSO!Next
<1> DEFINE a == AgentOf[t]
           until == session[t].expire
<1>1. sid[t] \in SessionIds /\ session[t].user = a /\ a \in Agents
  BY BridgeAssumption DEF SessionInv, SessionOfTab
<1>2. sessions[sid[t]] = NoSession /\ until \in 0..(now + SessionTTL)
  BY DEF SaveInv, SavesAnew
<1>3. /\ sessions'[sid[t]] = session[t]
      /\ \A id \in SessionIds : id # sid[t] => sessions'[id] = sessions[id]
  BY <1>1 DEF SaveSession, TypeOK, DatabaseTypeOK
<1>4. sessions[sid[t]].user \notin Agents
  BY <1>2, DatabaseAssumption DEF NoSession
<1>5. Granted' = [Granted EXCEPT ![a] = @ \cup {until}]
  <2>1. ASSUME NEW b \in Agents, b # a PROVE Granted'[b] = Granted[b]
    BY <1>1, <1>3, <1>4, <2>1 DEF Granted
  <2>2. Granted'[a] = Granted[a] \cup {until}
    BY <1>1, <1>3, <1>4 DEF Granted
  <2>3. DOMAIN Granted' = Agents /\ DOMAIN Granted = Agents
    BY DEF Granted
  <2>4. QED
    BY <1>1, <2>1, <2>2, <2>3 DEF Granted
<1>6. Recognised' = Recognised /\ Answers' = Answers
  BY DEF Recognised, Answers, Told
<1>7. asked[t] # NoRequest
  BY BridgeAssumption DEF RequestInv, RequestOfTab
<1>8. SSO!Authenticate(a)
  BY <1>2, <1>5, <1>6, <1>7 DEF SSO!Authenticate
<1>9. QED
  BY <1>1, <1>8 DEF SSO!Next

LEMMA FoundRecognises ==
    ASSUME UniqueReadings, TypeOK, RequestInv, SessionInv, NEW t \in Tabs, SessionFound(t)
    PROVE  SSO!Next
<1>1. pc[t] = "session" /\ UNCHANGED <<now, asked, sessions, response>>
  BY DEF SessionFound
<1>2. sid[t] \in SessionIds /\ sessions[sid[t]].expire > now
  BY DEF SessionFound, GetSession, Retrievable
<1>3. sessions[sid[t]] # NoSession
  BY <1>2 DEF NoSession, TypeOK, DatabaseTypeOK
<1>4. sessions[sid[t]].user = AgentOf[t]
  <2>1. sessions[sid[t]].user \in Agents /\ AgentOf[t] \in Agents
    BY <1>2, <1>3, BridgeAssumption DEF SessionInv
  <2>2. HeldBy(AgentOf[t], sid[t]) /\ HeldBy(sessions[sid[t]].user, sid[t])
    BY DEF HeldBy
  <2>3. QED
    BY <1>2, <2>1, <2>2 DEF SessionInv
<1>5. sessions[sid[t]].expire \in Granted[AgentOf[t]]
  BY <1>2, <1>4, BridgeAssumption DEF Granted
<1>6. Granted' = Granted /\ Answers' = Answers
  BY <1>1 DEF Granted, Answers, Told
<1>7. Recognised' = [Recognised EXCEPT ![t] = TRUE]
  <2>1. \A u \in Tabs : pc'[u] = IF u = t THEN "mapping" ELSE pc[u]
    BY DEF SessionFound, TypeOK
  <2>2. QED
    BY <2>1 DEF Recognised
<1>8. asked[t] # NoRequest
  BY <1>1, BridgeAssumption DEF RequestInv, RequestOfTab
<1>9. Answers[t] = NoAnswer
  BY <1>1 DEF RequestInv, RequestOfTab, Answers, Told, NoAnswer, NoResponse
<1>10. SSO!Recognise(t)
  BY <1>1, <1>2, <1>5, <1>6, <1>7, <1>8, <1>9 DEF SSO!Recognise
<1>11. QED
  BY <1>10 DEF SSO!Next

LEMMA RespondAnswers ==
    ASSUME UniqueReadings, TypeOK, RequestInv, SessionInv, NEW t \in Tabs, NEW mapping,
           Respond(t, mapping), UNCHANGED <<now, asked, sessions>>
    PROVE  SSO!Next
<1>1. pc[t] = "mapping"
  BY DEF Respond
<1>2. \A u \in Tabs : pc'[u] = "mapping" <=> u # t /\ pc[u] = "mapping"
  BY DEF Respond, TypeOK
<1>3. CASE response' = response
  BY <1>2, <1>3, NothingTold
<1>4. CASE response' # response
  <2>1. response' = [response EXCEPT ![t] =
                        [user |-> session[t].user, request |-> query[t].request,
                         relay |-> query[t].relay, registration |-> registration[t],
                         mapping |-> mapping]]
    BY <1>4 DEF Respond
  <2>2. session[t].user = AgentOf[t]
    BY <1>1 DEF SessionInv, SessionOfTab
  <2>3. query[t].request = asked[t] /\ query[t].relay = RelayOf[asked[t]]
    BY <1>1 DEF RequestInv, RequestOfTab
  <2>4. Answers' = [Answers EXCEPT ![t] = [user |-> AgentOf[t], request |-> asked[t],
                                           relay |-> RelayOf[asked[t]]]]
    <3>1. /\ response'[t].user = AgentOf[t] /\ response'[t].request = asked[t]
          /\ response'[t].relay = RelayOf[asked[t]]
      BY <2>1, <2>2, <2>3 DEF TypeOK
    <3>2. ASSUME NEW u \in Tabs, u # t PROVE response'[u] = response[u]
      BY <2>1, <3>2 DEF TypeOK
    <3>3. QED
      BY <3>1, <3>2 DEF Answers, Told
  <2>5. Answers[t] = NoAnswer
    BY <1>1 DEF RequestInv, RequestOfTab, Answers, Told, NoAnswer, NoResponse
  <2>6. Granted' = Granted
    BY DEF Granted
  <2>7. Recognised[t] /\ Recognised' = [Recognised EXCEPT ![t] = FALSE]
    BY <1>1, <1>2 DEF Recognised
  <2>8. SSO!Answer(t)
    BY <2>4, <2>5, <2>6, <2>7 DEF SSO!Answer
  <2>9. QED
    BY <2>8 DEF SSO!Next
<1>5. QED
  BY <1>3, <1>4

LEMMA OpenAsks ==
    ASSUME TypeOK, SaveInv, NEW t \in Tabs, NEW r \in Requests, Open(t, r)
    PROVE  SSO!Next
<1>1. asked[t] = NoRequest
  BY DEF Open, SaveInv, SavesAnew
<1>2. \A u \in Tabs : pc'[u] = "mapping" <=> pc[u] = "mapping"
  BY DEF Open, TypeOK
<1>3. Granted' = Granted /\ Answers' = Answers /\ Recognised' = Recognised
  BY <1>2 DEF Open, Granted, Answers, Told, Recognised
<1>4. SSO!Ask(t, r)
  BY <1>1, <1>3 DEF Open, SSO!Ask
<1>5. QED
  BY <1>4 DEF SSO!Next

LEMMA StepImplements ==
    ASSUME UniqueReadings
    PROVE  TypeOK /\ RequestInv /\ SessionInv /\ SaveInv /\ [Next]_vars =>
               [SSO!Next]_(SSO!ssoVars)
<1> SUFFICES ASSUME TypeOK, RequestInv, SessionInv, SaveInv, [Next]_vars
             PROVE  SSO!Next \/ UNCHANGED SSO!ssoVars
  OBVIOUS
<1>1. ASSUME NEW t \in Tabs, Save(t) \/ SaveFails(t) PROVE SSO!Next
  <2>1. /\ pc[t] = "save" /\ UNCHANGED <<now, asked, response>>
        /\ \A u \in Tabs : pc'[u] = "mapping" <=> pc[u] = "mapping"
    BY <1>1 DEF Save, SaveFails, TypeOK
  <2>2. CASE UNCHANGED sessions
    BY <2>1, <2>2, NothingTold
  <2>3. CASE SaveSession(sid[t], session[t])
    BY <2>1, <2>3, SaveAuthenticates
  <2>4. QED
    BY <1>1, <2>2, <2>3 DEF Save, SaveFails
<1>2. ASSUME NEW t \in Tabs, Answer(t) \/ AnswerUnmapped(t) PROVE SSO!Next
  <2>1. UNCHANGED <<now, asked, sessions>>
    BY <1>2 DEF Answer, AnswerUnmapped
  <2>2. Respond(t, AttributeMappingOf(t)) \/ Respond(t, NoMapping)
    BY <1>2 DEF Answer, AnswerUnmapped
  <2>3. QED
    BY <2>1, <2>2, RespondAnswers
<1>3. ASSUME NEW t \in Tabs, Progress(t) \/ ReloadSso(t) \/ ReloadCallback(t) \/ Abandon(t)
      PROVE  SSO!Next
  <2>1. CASE \/ Validate(t) \/ Refuse(t) \/ SessionMissing(t) \/ Capture(t) \/ LogIn(t)
             \/ Decline(t) \/ NoCode(t) \/ Exchange(t) \/ TokenUnusable(t) \/ CodeRefused(t)
             \/ ExchangeFails(t) \/ LookupFinds(t) \/ LookupMisses(t) \/ Discard(t)
             \/ Follow(t) \/ LoseReply(t) \/ ReloadSso(t) \/ ReloadCallback(t) \/ Abandon(t)
    <3>1. UNCHANGED <<now, asked, sessions, response>>
      BY <2>1 DEF Validate, Refuse, SessionMissing, Capture, LogIn, Decline, NoCode, Exchange,
         TokenUnusable, CodeRefused, ExchangeFails, LookupFinds, LookupMisses, Discard,
         Follow, LoseReply, Abandon, ReloadSso, ReloadCallback
    <3>2. PICK to \in Phases \ {"mapping"} : pc' = [pc EXCEPT ![t] = to]
      BY <2>1 DEF Validate, Refuse, SessionMissing, Capture, LogIn, Decline, NoCode, Exchange,
         TokenUnusable, CodeRefused, ExchangeFails, LookupFinds, LookupMisses, Discard,
         Follow, LoseReply, Abandon, ReloadSso, ReloadCallback, Phases, SsoSteps, CallbackSteps,
            Failed
    <3>3. \A u \in Tabs : pc'[u] = "mapping" => pc[u] = "mapping"
      BY <3>2 DEF TypeOK
    <3>4. QED
      BY <3>1, <3>3, NothingTold
  <2>2. QED
    BY <1>1, <1>2, <1>3, <2>1, FoundRecognises DEF Progress, Serve
<1>4. ASSUME Restart PROVE SSO!Next
  <2>1. \A t \in Tabs : pc'[t] # "mapping" /\ UNCHANGED <<now, asked, sessions, response>>
    BY <1>4 DEF Restart, SsoSteps, CallbackSteps
  <2>2. QED
    BY <1>4, <2>1, NothingTold DEF Restart
<1>5. ASSUME Tick PROVE SSO!Next
  <2>1. Granted' = Granted /\ Answers' = Answers /\ Recognised' = Recognised
    BY <1>5 DEF Tick, Granted, Answers, Told, Recognised
  <2>2. SSO!Tick
    BY <1>5, <2>1 DEF Tick, SSO!Tick
  <2>3. QED
    BY <2>2 DEF SSO!Next
<1>6. CASE UNCHANGED <<now, asked, sessions, response, pc>>
  BY <1>6, NothingTold
<1>7. QED
  BY <1>3, <1>4, <1>5, <1>6, OpenAsks
  DEF Next, MapFatal, Crash, ForgetCookie, Register, Rest, vars

\* Nobody is told of a user who has not authenticated and whose authentication is
\* not still good, nor anything but the answer to what was asked, once: for any
\* number of users, tabs, faults and races, if no two callbacks read the same
\* nanosecond.
THEOREM Implements == ASSUME UniqueReadings PROVE Spec => ImplementsSingleSignOn
<1>1. Init => SSO!Init /\ RequestInv /\ SessionInv /\ SaveInv
  BY InitImplements, InitRequestInv, InitSessionInv, InitSaveInv
<1>2. TypeOK /\ RequestInv /\ [Next]_vars => RequestInv'
  BY NextRequestInv
<1>3. TypeOK /\ SessionInv /\ [Next]_vars => SessionInv'
  BY NextSessionInv
<1>4. TypeOK /\ SessionInv /\ SaveInv /\ [Next]_vars => SaveInv'
  BY NextSaveInv
<1>5. QED
  BY <1>1, <1>2, <1>3, <1>4, StepImplements, TypeCorrect, PTL
  DEF Spec, SSO!Spec, ImplementsSingleSignOn
==============================================================================
