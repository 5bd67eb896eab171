------------------------- MODULE Recognition_proofs -------------------------
(***************************************************************************)
(* SamlBridge sends a user to Hydra only for want of a session, for every  *)
(* instance in which no two callbacks read the same nanosecond from the    *)
(* clock.                                                                  *)
(***************************************************************************)
EXTENDS BridgeRefinement_proofs

\* A cookie names a row: the row is saved before the cookie is sent.
CookieInv == \A a \in Agents : cookie[a] # NoCookie => sessions[cookie[a]] # NoSession

\* What a tab knows of its session id.  The id of a session that is being made, or
\* was lost in the making, may have no row; any other has.  A tab back from a login
\* sends the cookie of that login, and one on its way to Hydra had no live session.
Recognition(t) ==
    /\ pc[t] = "idle" => code[t] = "none"
    /\ pc[t] \in {"lookup", "delete", "reply"} => sid[t] # NoCookie
    /\ sid[t] # NoCookie /\ pc[t] \notin {"idle", "callback", "save", "callbackFailed"} =>
            sessions[sid[t]] # NoSession
    /\ pc[t] \in {"hydra", "ssoFailed"} \cup SsoSteps =>
            (sid[t] = NoCookie /\ code[t] = "spent" => reloads > 0)
    /\ faults = 0 /\ pc[t] \in {"store", "hydra"} => sid[t] = NoCookie \/ Expired(sid[t])

RecognitionInv == CookieInv /\ \A t \in Tabs : Recognition(t)

USE DEF Step, NoFault, Fault, Race, Again, Reload, Leave, clockVars, processVars, browserVars,
        handlerVars, historyVars

LEMMA InitRecognition == Init => RecognitionInv
  BY DEF Init, RecognitionInv, CookieInv, Recognition, SsoSteps

-----------------------------------------------------------------------------
(* What every step keeps *)

\* Rows that exist are not written, so an expired row stays one; the clock and the
\* counters only grow.
Advances ==
    /\ \A id \in SessionIds : sessions[id] # NoSession => sessions'[id] = sessions[id]
    /\ \A id : Expired(id) => Expired(id)'
    /\ faults' = 0 => faults = 0
    /\ reloads > 0 => reloads' > 0

LEMMA NextAdvances == ASSUME TypeOK, SessionInv, SaveInv, [Next]_vars PROVE Advances
<1>1. ASSUME NEW id \in SessionIds, sessions[id] # NoSession
      PROVE  sessions'[id] = sessions[id]
  <2>1. ASSUME NEW t \in Tabs, pc[t] = "save", SaveSession(sid[t], session[t])
        PROVE  sessions'[id] = sessions[id]
    <3>1. id # sid[t]
      BY <1>1, <2>1 DEF SaveInv, SavesAnew
    <3>2. QED
      BY <2>1, <3>1 DEF SaveSession, TypeOK, DatabaseTypeOK
  <2>2. QED
    BY <2>1, OnlySavesWrite
<1>2. now' \in {now, now + 1}
  <2>1. ASSUME NEW t \in Tabs, Progress(t) PROVE now' = now
    BY <2>1 DEF Progress, Serve, Validate, Refuse, SessionFound, SessionMissing, Capture, Answer,
       AnswerUnmapped, LogIn, Decline, NoCode, Exchange, TokenUnusable, CodeRefused,
       ExchangeFails, Save, SaveFails, LookupFinds, LookupMisses, Discard, Follow, LoseReply
  <2>2. QED
    BY <2>1 DEF Next, Open, ReloadSso, ReloadCallback, Abandon, MapFatal, Restart, Crash,
       ForgetCookie, Register, Tick, Rest, vars
<1>3. ASSUME NEW id, Expired(id) PROVE Expired(id)'
  <2>1. id \in SessionIds /\ sessions[id] # NoSession /\ sessions[id].expire <= now
    BY <1>3 DEF Expired
  <2>2. sessions'[id] = sessions[id] /\ sessions[id].expire \in Nat /\ now \in Nat
    BY <1>1, <2>1 DEF TypeOK, DatabaseTypeOK, Sessions
  <2>3. sessions[id].expire <= now'
    BY <1>2, <2>1, <2>2
  <2>4. QED
    BY <2>1, <2>2, <2>3 DEF Expired
<1>4. faults' \in {faults, faults + 1} /\ reloads' \in {reloads, reloads + 1}
  BY HistoryStep DEF LeaveOfTab
<1>5. (faults' = 0 => faults = 0) /\ (reloads > 0 => reloads' > 0)
  BY <1>4 DEF TypeOK
<1>6. QED
  BY <1>1, <1>3, <1>5 DEF Advances

\* A tab that keeps its session id and its code.
LEMMA KeepsRecognition ==
    ASSUME TypeOK, RecognitionInv, Advances, NEW u \in Tabs,
           pc'[u] = pc[u], sid'[u] = sid[u], code'[u] = code[u]
    PROVE  Recognition(u)'
<1>1. Recognition(u) /\ sid[u] \in SessionIds \cup {NoCookie}
  BY DEF RecognitionInv, TypeOK
<1>2. sid[u] # NoCookie /\ sessions[sid[u]] # NoSession => sessions'[sid[u]] # NoSession
  BY <1>1 DEF Advances
<1>3. QED
  BY <1>1, <1>2 DEF Recognition, Advances

\* A browser that keeps its cookies.
LEMMA KeepsCookies ==
    ASSUME TypeOK, RecognitionInv, Advances, cookie' = cookie
    PROVE  CookieInv'
<1>1. ASSUME NEW a \in Agents, cookie[a] # NoCookie PROVE sessions'[cookie[a]] # NoSession
  <2>1. cookie[a] \in SessionIds /\ sessions[cookie[a]] # NoSession
    BY <1>1 DEF RecognitionInv, CookieInv, TypeOK
  <2>2. QED
    BY <2>1 DEF Advances
<1>2. QED
  BY <1>1 DEF CookieInv

\* A step of tab t, when the invariant holds of t afterwards.
LEMMA TabRecognition ==
    ASSUME TypeOK, RecognitionInv, Advances, NEW t \in Tabs, CookieInv', Recognition(t)',
           \A u \in Tabs \ {t} : pc'[u] = pc[u] /\ sid'[u] = sid[u] /\ code'[u] = code[u]
    PROVE  RecognitionInv'
<1>1. ASSUME NEW u \in Tabs PROVE Recognition(u)'
  BY KeepsRecognition
<1>2. QED
  BY <1>1 DEF RecognitionInv
-----------------------------------------------------------------------------
(* The invariant, step by step *)

\* A step of tab t within the server that touches no cookie and no session id.
LEMMA ServedRecognition ==
    ASSUME TypeOK, RecognitionInv, Advances, NEW t \in Tabs, NEW from, NEW to,
           Step(t, from, to), UNCHANGED <<cookie, sid>>, to # "idle",
           \A u \in Tabs \ {t} : code'[u] = code[u],
           to \in {"lookup", "delete", "reply"} => from \in {"lookup", "delete", "reply"},
           to \in {"callback", "save", "callbackFailed"}
               \/ from \notin {"idle", "callback", "save", "callbackFailed"},
           to \in {"hydra", "ssoFailed"} \cup SsoSteps =>
               from \in {"hydra", "ssoFailed"} \cup SsoSteps /\ code' = code,
           to = "hydra" => from = "store",
           to # "store"
    PROVE  RecognitionInv'
<1>1. /\ pc[t] = from /\ pc'[t] = to
      /\ \A u \in Tabs \ {t} : pc'[u] = pc[u] /\ sid'[u] = sid[u] /\ code'[u] = code[u]
  BY DEF TypeOK
<1>2. CookieInv'
  BY KeepsCookies
<1>3. Recognition(t) /\ sid[t] \in SessionIds \cup {NoCookie}
  BY DEF RecognitionInv, TypeOK
<1>4. sid[t] # NoCookie /\ sessions[sid[t]] # NoSession => sessions'[sid[t]] # NoSession
  BY <1>3 DEF Advances
<1>5. Recognition(t)'
  BY <1>1, <1>3, <1>4 DEF Recognition, Advances
<1>6. QED
  BY <1>1, <1>2, <1>5, TabRecognition

\* The browser sends the cookie it has, or none, with a request for the SSO endpoint.
LEMMA SentRecognition ==
    ASSUME TypeOK, RecognitionInv, Advances, NEW t \in Tabs, NEW from, Step(t, from, "sso"),
           NEW id \in {cookie[AgentOf[t]], NoCookie}, sid' = [sid EXCEPT ![t] = id],
           UNCHANGED <<cookie, code>>, code[t] = "none" \/ reloads' > 0
    PROVE  RecognitionInv'
<1>1. /\ pc'[t] = "sso" /\ sid'[t] = id
      /\ \A u \in Tabs \ {t} : pc'[u] = pc[u] /\ sid'[u] = sid[u] /\ code'[u] = code[u]
  BY DEF TypeOK
<1>2. CookieInv'
  BY KeepsCookies
<1>3. id # NoCookie => sessions'[id] # NoSession
  <2>1. AgentOf[t] \in Agents
    BY BridgeAssumption
  <2>2. QED
    BY <1>2, <2>1 DEF CookieInv
<1>4. Recognition(t)'
  BY <1>1, <1>3 DEF Recognition
<1>5. QED
  BY <1>1, <1>2, <1>4, TabRecognition

\* No live session: no cookie, or one whose row is there and over.
LEMMA MissingRecognition ==
    ASSUME TypeOK, RecognitionInv, Advances, NEW t \in Tabs, SessionMissing(t)
    PROVE  RecognitionInv'
<1>1. /\ pc[t] = "session" /\ pc'[t] = "store" /\ UNCHANGED <<cookie, sid, code, sessions, now>>
      /\ \A u \in Tabs \ {t} : pc'[u] = pc[u]
  BY DEF SessionMissing, TypeOK
<1>2. Recognition(t) /\ sid[t] \in SessionIds \cup {NoCookie}
  BY DEF RecognitionInv, TypeOK
<1>3. sid[t] # NoCookie => sid[t] \in SessionIds /\ sessions[sid[t]] # NoSession
  BY <1>1, <1>2 DEF Recognition
<1>4. ASSUME faults' = 0, sid[t] # NoCookie PROVE Expired(sid[t])
  <2>1. GetSession(sid[t]) = NoSession
    BY <1>4 DEF SessionMissing, TypeOK
  <2>2. ~(sessions[sid[t]].expire > now)
    BY <1>3, <1>4, <2>1 DEF GetSession, Retrievable
  <2>3. sessions[sid[t]].expire \in Nat /\ now \in Nat
    BY <1>3, <1>4 DEF TypeOK, DatabaseTypeOK, Sessions
  <2>4. QED
    BY <1>3, <1>4, <2>2, <2>3 DEF Expired
<1>5. Recognition(t)'
  <2>1. faults' = 0 => (sid[t] = NoCookie \/ Expired(sid[t]))'
    BY <1>1, <1>4 DEF Expired
  <2>2. QED
    BY <1>1, <1>2, <1>3, <2>1 DEF Recognition, SsoSteps, Advances
<1>6. QED
  BY <1>1, <1>5, KeepsCookies, TabRecognition
LEMMA NextRecognition ==
    TypeOK /\ SessionInv /\ SaveInv /\ RecognitionInv /\ [Next]_vars => RecognitionInv'
<1> SUFFICES ASSUME TypeOK, SessionInv, SaveInv, RecognitionInv, [Next]_vars
             PROVE  RecognitionInv'
  OBVIOUS
<1>0. Advances
  BY NextAdvances
<1>1. ASSUME NEW t \in Tabs, NEW r \in Requests, Open(t, r) PROVE RecognitionInv'
  <2>1. PICK id \in SentCookies(t, MethodOf[r]) : sid' = [sid EXCEPT ![t] = id]
    BY <1>1 DEF Open
  <2>2. id \in {cookie[AgentOf[t]], NoCookie}
    BY SentTypes
  <2>3. code[t] = "none"
    BY <1>1 DEF Open, RecognitionInv, Recognition
  <2>4. QED
    BY <1>0, <1>1, <2>1, <2>2, <2>3, SentRecognition DEF Open
<1>2. ASSUME NEW t \in Tabs, ReloadSso(t) PROVE RecognitionInv'
  <2>1. PICK id \in SentCookies(t, query[t].method) : sid' = [sid EXCEPT ![t] = id]
    BY <1>2 DEF ReloadSso
  <2>2. id \in {cookie[AgentOf[t]], NoCookie}
    BY SentTypes
  <2>3. reloads' > 0
    BY <1>2 DEF ReloadSso, TypeOK
  <2>4. QED
    BY <1>0, <1>2, <2>1, <2>2, <2>3, SentRecognition DEF ReloadSso
<1>3. ASSUME NEW t \in Tabs, Exchange(t) PROVE RecognitionInv'
  <2>1. /\ pc'[t] = "save" /\ cookie' = cookie
        /\ \A u \in Tabs \ {t} : pc'[u] = pc[u] /\ sid'[u] = sid[u] /\ code'[u] = code[u]
    BY <1>3 DEF Exchange, TypeOK
  <2>2. Recognition(t)'
    BY <2>1 DEF Recognition, SsoSteps
  <2>3. QED
    BY <1>0, <2>1, <2>2, KeepsCookies, TabRecognition
<1>4. ASSUME NEW t \in Tabs, Save(t) PROVE RecognitionInv'
  <2>1. /\ pc[t] = "save" /\ pc'[t] = "lookup" /\ UNCHANGED <<cookie, sid, code>>
        /\ \A u \in Tabs \ {t} : pc'[u] = pc[u]
    BY <1>4 DEF Save, TypeOK
  <2>2. sid[t] \in SessionIds /\ session[t].user \in Agents
    BY <2>1, BridgeAssumption DEF SessionInv, SessionOfTab
  <2>3. sid[t] # NoCookie /\ session[t] # NoSession
    BY <2>2, BridgeAssumption, DatabaseAssumption DEF NoCookie, NoSession
  <2>4. sessions'[sid[t]] = session[t]
    BY <1>4, <2>2 DEF Save, SaveSession, TypeOK, DatabaseTypeOK
  <2>5. Recognition(t)'
    BY <2>1, <2>3, <2>4 DEF Recognition, SsoSteps
  <2>6. QED
    BY <1>0, <2>1, <2>5, KeepsCookies, TabRecognition
<1>5. ASSUME NEW t \in Tabs, Follow(t) PROVE RecognitionInv'
  <2>1. /\ pc[t] = "reply" /\ pc'[t] = "sso" /\ UNCHANGED <<code, sessions>>
        /\ cookie' = [cookie EXCEPT ![AgentOf[t]] = sid[t]] /\ sid'[t] = sid[t]
        /\ \A u \in Tabs \ {t} : pc'[u] = pc[u] /\ sid'[u] = sid[u]
    BY <1>5, BridgeAssumption DEF Follow, SetCookie, TypeOK
  <2>2. sid[t] # NoCookie /\ sessions[sid[t]] # NoSession
    BY <2>1 DEF RecognitionInv, Recognition
  <2>3. CookieInv'
    BY <2>1, <2>2 DEF RecognitionInv, CookieInv, TypeOK
  <2>4. Recognition(t)'
    BY <2>1, <2>2 DEF Recognition
  <2>5. QED
    BY <1>0, <2>1, <2>3, <2>4, TabRecognition
<1>6. ASSUME NEW t \in Tabs,
             \/ Validate(t) \/ Refuse(t) \/ SessionFound(t) \/ Capture(t) \/ LookupFinds(t)
             \/ LookupMisses(t) \/ Discard(t) \/ Answer(t) \/ AnswerUnmapped(t)
      PROVE  RecognitionInv'
  <2>1. UNCHANGED <<cookie, sid, code>>
    BY <1>6 DEF Validate, Refuse, SessionFound, Capture, LookupFinds, LookupMisses, Discard,
       Answer, AnswerUnmapped
  <2>2. \/ Step(t, "sso", "session") \/ Step(t, "sso", "ssoFailed")
        \/ Step(t, "session", "mapping") \/ Step(t, "store", "hydra")
        \/ Step(t, "lookup", "delete") \/ Step(t, "lookup", "reply")
        \/ Step(t, "delete", "reply") \/ Step(t, "mapping", "done")
        \/ Step(t, "mapping", "ssoFailed")
    BY <1>6 DEF Validate, Refuse, SessionFound, Capture, LookupFinds, LookupMisses, Discard,
       Answer, AnswerUnmapped, Respond
  <2> HIDE DEF Step
  <2>3. QED
    BY <1>0, <2>1, <2>2, ServedRecognition DEF SsoSteps
<1>7. ASSUME NEW t \in Tabs,
             \/ LogIn(t) \/ Decline(t) \/ NoCode(t) \/ Abandon(t) \/ TokenUnusable(t)
             \/ CodeRefused(t) \/ ExchangeFails(t)
             \/ SaveFails(t) \/ LoseReply(t) \/ ReloadCallback(t)
      PROVE  RecognitionInv'
  <2>1. /\ UNCHANGED <<cookie, sid>>
        /\ \A u \in Tabs \ {t} : code'[u] = code[u]
    BY <1>7 DEF LogIn, Decline, NoCode, Abandon, TokenUnusable, CodeRefused, ExchangeFails,
       SaveFails, LoseReply, ReloadCallback, TypeOK
  <2>2. pc'[t] \in {"callback", "callbackFailed"} /\ \A u \in Tabs \ {t} : pc'[u] = pc[u]
    BY <1>7 DEF LogIn, Decline, NoCode, Abandon, TokenUnusable, CodeRefused, ExchangeFails,
       SaveFails, LoseReply, ReloadCallback, TypeOK
  <2>3. Recognition(t)'
    BY <2>2 DEF Recognition, SsoSteps
  <2>4. QED
    BY <1>0, <2>1, <2>2, <2>3, KeepsCookies, TabRecognition
<1>8. CASE Restart
  <2>1. UNCHANGED <<cookie, sid, code>>
    BY <1>8 DEF Restart
  <2>2. ASSUME NEW u \in Tabs PROVE Recognition(u)'
    <3>1. CASE pc'[u] = pc[u]
      BY <1>0, <2>1, <3>1, KeepsRecognition
    <3>2. CASE pc[u] \in SsoSteps /\ pc'[u] = "ssoFailed"
      <4>1. Recognition(u) /\ sid[u] \in SessionIds \cup {NoCookie}
        BY DEF RecognitionInv, TypeOK
      <4>2. sid[u] # NoCookie /\ sessions[sid[u]] # NoSession => sessions'[sid[u]] # NoSession
        BY <1>0, <4>1 DEF Advances
      <4>3. QED
        BY <1>0, <2>1, <3>2, <4>1, <4>2 DEF Recognition, SsoSteps, Advances
    <3>3. CASE pc'[u] = "callbackFailed"
      BY <3>3 DEF Recognition, SsoSteps
    <3>4. QED
      BY <1>8, <3>1, <3>2, <3>3 DEF Restart
  <2>3. QED
    BY <1>0, <2>1, <2>2, KeepsCookies DEF RecognitionInv
<1>9. ASSUME NEW a \in Agents, ForgetCookie(a) PROVE RecognitionInv'
  <2>1. ASSUME NEW u \in Tabs PROVE Recognition(u)'
    BY <1>0, <1>9, KeepsRecognition DEF ForgetCookie
  <2>2. CookieInv'
    BY <1>9 DEF ForgetCookie, RecognitionInv, CookieInv, TypeOK
  <2>3. QED
    BY <2>1, <2>2 DEF RecognitionInv
<1>10. ASSUME UNCHANGED <<cookie, pc, sid, code>> PROVE RecognitionInv'
  <2>1. ASSUME NEW u \in Tabs PROVE Recognition(u)'
    BY <1>0, <1>10, KeepsRecognition
  <2>2. QED
    BY <1>0, <1>10, <2>1, KeepsCookies DEF RecognitionInv
<1>11. QED
  BY <1>0, <1>1, <1>2, <1>3, <1>4, <1>5, <1>6, <1>7, <1>8, <1>9, <1>10, MissingRecognition
  DEF Next, Progress, Serve, MapFatal, Crash, Register, Tick, Rest, vars

\* In a system in which nothing fails, whoever is sent to Hydra had no session that
\* was still good, and nobody is sent there again on the way back from a login: for
\* any number of tabs, users, requests, races and reloads, if no two
\* callbacks read the same nanosecond.
THEOREM HydraOnlyWhenNeededCorrect ==
    ASSUME UniqueReadings PROVE Spec => []HydraOnlyWhenNeeded
<1>1. TypeOK /\ RecognitionInv => HydraOnlyWhenNeeded
  BY DEF RecognitionInv, Recognition, HydraOnlyWhenNeeded, SsoSteps
<1>2. Init => SessionInv /\ SaveInv /\ RecognitionInv
  BY InitSessionInv, InitSaveInv, InitRecognition
<1>3. TypeOK /\ SessionInv /\ [Next]_vars => SessionInv'
  BY NextSessionInv
<1>4. TypeOK /\ SessionInv /\ SaveInv /\ [Next]_vars => SaveInv'
  BY NextSaveInv
<1>5. TypeOK /\ SessionInv /\ SaveInv /\ RecognitionInv /\ [Next]_vars => RecognitionInv'
  BY NextRecognition
<1>6. QED
  BY <1>1, <1>2, <1>3, <1>4, <1>5, TypeCorrect, PTL DEF Spec
=============================================================================
