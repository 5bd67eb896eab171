----------------------------- MODULE SamlBridge -----------------------------
(***************************************************************************)
(* The login flow of the bridge, internal/provider/server.go: the SAML SSO *)
(* endpoint, the session provider behind it, the OIDC callback, and the    *)
(* state the handlers share: the two tables of Database, the in-memory map *)
(* pendingRequests and the Hydra availability gauge.                       *)
(*                                                                         *)
(* A tab is a browser tab and, while a request of it is being served, the  *)
(* goroutine that serves it; the tabs of one agent share its cookie jar.   *)
(* Between two accesses to shared state any other tab may run, so a        *)
(* handler is a sequence of steps, pc[t] naming the next one:              *)
(*                                                                         *)
(*   idle -> sso -> session -> mapping -> done            (a session)      *)
(*                     |                                                   *)
(*                     v                                                   *)
(*                   store -> hydra -> callback -> save -> lookup          *)
(*                                                           |             *)
(*             sso <------------- reply <------- delete <----+             *)
(*                                                                         *)
(* ServeSSO of the SAML library, Hydra and the browser are external: they  *)
(* are modelled from how server.go uses them.                              *)
(***************************************************************************)
EXTENDS Database, Sequences

CONSTANTS
    Tabs,            \* browser tabs
    AgentOf,         \* AgentOf[t] is the agent whose browser tab t belongs to
    Doubtful,        \* the agents whose ID token may come without an email, or with
                     \*   claims that do not parse, as groups that are not a list
    Requests,        \* the AuthnRequests service providers may issue
    NoRequest,       \* an absent SAMLRequest parameter
    Texts,           \* pieces of text with no colon
    IdOf, IssuerOf,  \* of a request: its ID and the entity that issued it,
    RelayOf,         \*   the RelayState that comes with it, split at the colons,
    MethodOf,        \*   and the HTTP method, hence the encoding, it was made for
    InitialConfig,   \* the service_providers table at the start
    Registrations,   \* what administrators may register
    SessionTTL,      \* the ten minutes of a session, in ticks
    MaxIssueDelay,   \* the age at which the SAML library refuses a request, in ticks
    UniqueReadings,  \* no two callbacks read the same nanosecond from the clock: an
                     \*   assumption, made only where a property is said to need it
    MaxTime,         \* bound: the last value of the clock
    MaxFaults,       \* bound: database errors, outages, lost replies and crashes
    MaxReloads       \* bound: how often users reload a page that failed, or leave one

Methods == {"GET", "POST"}

ASSUME BridgeAssumption ==
    /\ AgentOf \in [Tabs -> Agents]
    /\ Doubtful \subseteq Agents
    /\ NoRequest \notin Requests
    /\ IdOf \in [Requests -> Texts]
    /\ IssuerOf \in [Requests -> EntityIds]
    /\ RelayOf \in [Requests -> Seq(Texts)]
    /\ MethodOf \in [Requests -> Methods]
    /\ InitialConfig \in [EntityIds -> Configs \cup {Unregistered}]
    /\ Registrations \subseteq Configs
    /\ SessionIds \subseteq Nat \ {0}
    /\ SessionTTL \in Nat /\ MaxIssueDelay \in Nat
    /\ UniqueReadings \in BOOLEAN
    /\ MaxTime \in Nat /\ MaxFaults \in Nat /\ MaxReloads \in Nat

\* SAML requires an AuthnRequest's ID to be unique; the bridge relies on it.
ASSUME UniqueIds == \A r, s \in Requests : IdOf[r] = IdOf[s] => r = s

VARIABLES
    \* the process
    pendingRequests,  \* pendingRequests[id] is the captured request, or NoPending
    hydraAvailable,   \* the dependency gauge of component hydra
    reading,          \* the latest reading of the clock a session id was made from
    \* the browsers
    cookie,           \* cookie[a] is the session id in saml_session, or NoCookie
    asked,            \* asked[t] is the request the user opened in tab t
    issuedAt,         \* issuedAt[r] is r's IssueInstant once it is issued
    \* the tabs and their handlers
    pc,               \* the next step
    query,            \* the SAMLRequest, RelayState and method of the SSO request
    state,            \* the OAuth state parameter, split at the colons
    code,             \* the authorization code
    sid,              \* the session id the tab's cookie sent or the callback made
    session,          \* the session the handler holds
    registration,     \* the SP metadata the request was validated against
    response,         \* the SAML response delivered to the service provider
    \* history
    inForce,          \* the registrations in force since that validation
    repeated,         \* the session ids made from a reading that was not the first
    reloads,          \* how many pages have been reloaded, or left
    left,             \* the tabs whose user left a callback being served
    faults,           \* how many faults the environment has caused
    raced             \* an unsynchronised access to pendingRequests went wrong

clockVars == <<reading, repeated>>
processVars == <<pendingRequests, hydraAvailable, clockVars>>
browserVars == <<cookie, asked, issuedAt>>
handlerVars == <<query, state, code, sid, session, registration, response, inForce>>
historyVars == <<reloads, left, faults, raced>>
vars == <<sessions, serviceProviders, now, processVars, browserVars, pc, handlerVars,
          historyVars>>

NoCookie == 0
NoPending == [request |-> NoRequest, relay |-> << >>]
NoResponse == [user |-> NoUser, request |-> NoRequest, relay |-> << >>,
               registration |-> Unregistered, mapping |-> NoMapping]
NoQuery == [request |-> NoRequest, relay |-> << >>, method |-> "GET"]

SsoSteps == {"sso", "session", "store", "mapping"}
CallbackSteps == {"callback", "save", "lookup", "delete"}
Failed == {"ssoFailed", "callbackFailed"}
Phases == {"idle", "hydra", "reply", "done"} \cup SsoSteps \cup CallbackSteps \cup Failed

TypeOK ==
    /\ DatabaseTypeOK
    /\ pendingRequests \in
            [Texts -> [request : Requests \cup {NoRequest}, relay : Seq(Texts)]]
    /\ hydraAvailable \in {"up", "down"}
    /\ reading \in SessionIds \cup {0}
    /\ cookie \in [Agents -> SessionIds \cup {NoCookie}]
    /\ asked \in [Tabs -> Requests \cup {NoRequest}]
    /\ issuedAt \in [Requests -> Nat \cup {-1}]
    /\ pc \in [Tabs -> Phases]
    /\ query \in [Tabs -> [request : Requests \cup {NoRequest}, relay : Seq(Texts),
                           method : Methods]]
    /\ state \in [Tabs -> Seq(Texts)]
    /\ code \in [Tabs -> {"none", "fresh", "spent"}]
    /\ sid \in [Tabs -> SessionIds \cup {NoCookie}]
    /\ session \in [Tabs -> Sessions]
    /\ registration \in [Tabs -> Configs \cup {Unregistered}]
    /\ response \in [Tabs -> [user : Agents \cup {NoUser}, request : Requests \cup {NoRequest},
                              relay : Seq(Texts), registration : Configs \cup {Unregistered},
                              mapping : Mappings]]
    /\ inForce \in [Tabs -> SUBSET (Configs \cup {Unregistered})]
    /\ repeated \subseteq SessionIds
    /\ reloads \in Nat
    /\ left \subseteq Tabs
    /\ faults \in Nat
    /\ raced \in BOOLEAN

\* A bridge that has just started, with Hydra discovered (Initialize, lines 70-131).
Init ==
    /\ sessions = [id \in SessionIds |-> NoSession]
    /\ serviceProviders = InitialConfig
    /\ now = 0
    /\ pendingRequests = [id \in Texts |-> NoPending]
    /\ hydraAvailable = "up"
    /\ reading = 0
    /\ cookie = [a \in Agents |-> NoCookie]
    /\ asked = [t \in Tabs |-> NoRequest]
    /\ issuedAt = [r \in Requests |-> -1]
    /\ pc = [t \in Tabs |-> "idle"]
    /\ query = [t \in Tabs |-> NoQuery]
    /\ state = [t \in Tabs |-> << >>]
    /\ code = [t \in Tabs |-> "none"]
    /\ sid = [t \in Tabs |-> NoCookie]
    /\ session = [t \in Tabs |-> NoSession]
    /\ registration = [t \in Tabs |-> Unregistered]
    /\ response = [t \in Tabs |-> NoResponse]
    /\ inForce = [t \in Tabs |-> {}]
    /\ repeated = {}
    /\ reloads = 0
    /\ left = {}
    /\ faults = 0
    /\ raced = FALSE

-----------------------------------------------------------------------------
(* Steps and faults. *)

Step(t, from, to) == pc[t] = from /\ pc' = [pc EXCEPT ![t] = to]

Fault == faults < MaxFaults /\ faults' = faults + 1 /\ UNCHANGED <<reloads, left, raced>>

NoFault == UNCHANGED historyVars

Race == raced' = TRUE /\ UNCHANGED <<reloads, left, faults>>

Again == reloads < MaxReloads /\ reloads' = reloads + 1 /\ UNCHANGED <<faults, raced>>

Reload == Again /\ UNCHANGED left

Leave(t) == Again /\ left' = left \cup {t}

-----------------------------------------------------------------------------
(* The map pendingRequests is a plain Go map that every handler goroutine  *)
(* uses without a lock.  A tab whose next step is one of MapAccess may be  *)
(* in the middle of it; when another tab is too, and one of them writes,   *)
(* the access is a data race: it may take effect all the same, go wrong,   *)
(* or be detected by the runtime, which then ends the process (MapFatal).  *)

MapAccess == {"store", "lookup", "delete"}

Racing(t) == \E u \in Tabs \ {t} : /\ pc[u] \in MapAccess
                                   /\ {pc[t], pc[u]} # {"lookup"}

MapWrite(t, id, entry) ==
    \/ pendingRequests' = [pendingRequests EXCEPT ![id] = entry] /\ NoFault
    \/ Racing(t) /\ Race /\ UNCHANGED pendingRequests

\* state := req.Request.ID, and ":" + req.RelayState when there is one
BuildState(id, relay) == <<id>> \o relay

\* A slip: splitting at the last colon, as if a RelayState held none.
ParseState_LastColon(s) == [id |-> s[Len(s)], relay |-> SubSeq(s, 1, Len(s) - 1)]

\* strings.SplitN(state, ":", 2): the ID ends at the first colon.
ParseState(s) == [id |-> Head(s), relay |-> Tail(s)]

-----------------------------------------------------------------------------
(* GET or POST /saml/sso *)

\* The cookie is SameSite=Lax (line 376): the POST of another site may come without it.
SentCookies(t, method) ==
    {cookie[AgentOf[t]]} \cup (IF method = "POST" THEN {NoCookie} ELSE {})

\* The user opens request r in tab t: the service provider issues it, or the
\* same browser repeats a request it has already sent.
Open(t, r) ==
    /\ Step(t, "idle", "sso")
    /\ \A u \in Tabs : asked[u] = r => AgentOf[u] = AgentOf[t]
    /\ asked' = [asked EXCEPT ![t] = r]
    /\ issuedAt' = [issuedAt EXCEPT ![r] = IF @ = -1 THEN now ELSE @]
    /\ query' = [query EXCEPT ![t] =
                    [request |-> r, relay |-> RelayOf[r], method |-> MethodOf[r]]]
    /\ \E id \in SentCookies(t, MethodOf[r]) : sid' = [sid EXCEPT ![t] = id]
    /\ UNCHANGED <<sessions, serviceProviders, now, processVars, cookie, state, code, session,
                   registration, response, inForce>>
    /\ NoFault

\* NewIdpAuthnRequest inflates the SAMLRequest of a GET and not that of a POST,
\* and Validate wants a request that is young and whose issuer is registered.
Acceptable(q) ==
    /\ q.request # NoRequest
    /\ MethodOf[q.request] = q.method
    /\ now <= issuedAt[q.request] + MaxIssueDelay
    /\ GetServiceProvider(IssuerOf[q.request]) # Unregistered

Validate(t) ==
    /\ Step(t, "sso", "session")
    /\ Acceptable(query[t])
    /\ LET config == GetServiceProvider(IssuerOf[query[t].request])
       IN  /\ registration' = [registration EXCEPT ![t] = config]
           /\ inForce' = [inForce EXCEPT ![t] = {config}]
    /\ UNCHANGED <<sessions, serviceProviders, now, processVars, browserVars, query, state,
                   code, sid, session, response>>
    /\ NoFault

\* A refused request is answered 400; so is one whose issuer could not be looked
\* up, which the adapter reports as an unknown service provider.
Refuse(t) ==
    /\ Step(t, "sso", "ssoFailed")
    /\ IF Acceptable(query[t]) THEN Fault ELSE NoFault
    /\ UNCHANGED <<sessions, serviceProviders, now, processVars, browserVars, handlerVars>>

\* sessionProviderAdapter.GetSession with a cookie that names a live session.
SessionFound(t) ==
    /\ Step(t, "session", "mapping")
    /\ GetSession(sid[t]) # NoSession
    /\ session' = [session EXCEPT ![t] = GetSession(sid[t])]
    /\ UNCHANGED <<sessions, serviceProviders, now, processVars, browserVars, query, state,
                   code, sid, registration, response, inForce>>
    /\ NoFault

\* No cookie, no live row, or a failed query: all three are "no session".
SessionMissing(t) ==
    /\ Step(t, "session", "store")
    /\ IF GetSession(sid[t]) # NoSession THEN Fault ELSE NoFault
    /\ session' = [session EXCEPT ![t] = NoSession]
    /\ UNCHANGED <<sessions, serviceProviders, now, processVars, browserVars, query, state,
                   code, sid, registration, response, inForce>>

\* A slip: the RelayState is left to the state parameter alone.
Pending_NoRelay(t) == [request |-> query[t].request, relay |-> << >>]

\* The SAMLRequest text as the browser sent it, and the RelayState.
Pending(t) == [request |-> query[t].request, relay |-> query[t].relay]

\* Capture the request under its ID and redirect to Hydra.
Capture(t) ==
    /\ Step(t, "store", "hydra")
    /\ MapWrite(t, IdOf[query[t].request], Pending(t))
    /\ state' = [state EXCEPT ![t] = BuildState(IdOf[query[t].request], query[t].relay)]
    /\ UNCHANGED <<sessions, serviceProviders, now, hydraAvailable, clockVars, browserVars,
                   query, code, sid, session, registration, response, inForce>>

\* A slip: the test for a mapping the wrong way round.
AttributeMappingOf_None(t) == NoMapping

AttributeMappingOf(t) == GetAttributeMapping(IssuerOf[query[t].request])

Respond(t, mapping) ==
    /\ pc[t] = "mapping"
    /\ IF registration[t].binding = "POST"
       THEN /\ Step(t, "mapping", "done")
            /\ response' = [response EXCEPT ![t] =
                               [user |-> session[t].user, request |-> query[t].request,
                                relay |-> query[t].relay, registration |-> registration[t],
                                mapping |-> mapping]]
       ELSE Step(t, "mapping", "ssoFailed") /\ UNCHANGED response

\* The mapping is applied and the library answers, to an HTTP-POST endpoint only.
Answer(t) ==
    /\ Respond(t, AttributeMappingOf(t))
    /\ UNCHANGED <<sessions, serviceProviders, now, processVars, browserVars, query, state,
                   code, sid, session, registration, inForce>>
    /\ NoFault

\* The mapping cannot be read: it is logged, and the session returned unmapped.
AnswerUnmapped(t) ==
    /\ Respond(t, NoMapping)
    /\ UNCHANGED <<sessions, serviceProviders, now, processVars, browserVars, query, state,
                   code, sid, session, registration, inForce>>
    /\ Fault

-----------------------------------------------------------------------------
(* Hydra, and GET of the OIDC callback *)

\* The user of the browser authenticates and is sent back with a new code.
LogIn(t) ==
    /\ Step(t, "hydra", "callback")
    /\ code' = [code EXCEPT ![t] = "fresh"]
    /\ UNCHANGED <<sessions, serviceProviders, now, processVars, browserVars, query, state,
                   sid, session, registration, response, inForce>>
    /\ NoFault

\* Or is sent back with an error in place of one: the user has not consented, or
\* Hydra has given up the flow.
Decline(t) ==
    /\ Step(t, "hydra", "callback")
    /\ code' = [code EXCEPT ![t] = "none"]
    /\ UNCHANGED <<sessions, serviceProviders, now, processVars, browserVars, query, state,
                   sid, session, registration, response, inForce>>
    /\ NoFault

\* A callback without a code is answered 400 before Hydra is asked for anything.
NoCode(t) ==
    /\ Step(t, "callback", "callbackFailed")
    /\ code[t] = "none"
    /\ UNCHANGED <<sessions, serviceProviders, now, processVars, browserVars, handlerVars>>
    /\ NoFault

\* time.Now().UnixNano(): nothing keeps two callbacks from reading the same, nor the
\* clock from being set back.
NextReadings ==
    (IF UniqueReadings THEN {reading + 1} ELSE 1..(reading + 1)) \cap SessionIds

\* A slip: the expiry on the wrong side of now.
NewSession_Backwards(t) == [user |-> AgentOf[t], expire |-> now - SessionTTL]

NewSession(t) == [user |-> AgentOf[t], expire |-> now + SessionTTL]

\* The code is exchanged, its ID token verified, and a session made from it.
Exchange(t) ==
    /\ Step(t, "callback", "save")
    /\ code[t] = "fresh"
    /\ \E r \in NextReadings :
          /\ IF r > reading
             THEN reading' = r /\ UNCHANGED repeated
             ELSE repeated' = repeated \cup {r} /\ UNCHANGED reading
          /\ sid' = [sid EXCEPT ![t] = r]
    /\ code' = [code EXCEPT ![t] = "spent"]
    /\ session' = [session EXCEPT ![t] = NewSession(t)]
    /\ hydraAvailable' = "up"
    /\ UNCHANGED <<sessions, serviceProviders, now, pendingRequests, browserVars, query,
                   state, registration, response, inForce>>
    /\ NoFault

\* The code is exchanged, for a token whose claims do not parse (500) or name no
\* email (403), which is the user's own; or for one that is absent or cannot be
\* verified (500), which is a fault.
TokenUnusable(t) ==
    /\ Step(t, "callback", "callbackFailed")
    /\ code[t] = "fresh"
    /\ (AgentOf[t] \in Doubtful /\ NoFault) \/ Fault
    /\ code' = [code EXCEPT ![t] = "spent"]
    /\ hydraAvailable' = "up"
    /\ UNCHANGED <<sessions, serviceProviders, now, pendingRequests, clockVars, browserVars,
                   query, state, sid, session, registration, response, inForce>>

\* Hydra answers 4xx to a code it has already exchanged, or to one it has let
\* expire or will not exchange for this client.
CodeRefused(t) ==
    /\ Step(t, "callback", "callbackFailed")
    /\ code[t] # "none"
    /\ hydraAvailable' = "up"
    /\ IF code[t] = "spent" THEN NoFault ELSE Fault
    /\ UNCHANGED <<sessions, serviceProviders, now, pendingRequests, clockVars, browserVars,
                   handlerVars>>

\* No answer, or 5xx: Hydra is marked down; any other status leaves the gauge as
\* it is.  Hydra may or may not have spent the code.
ExchangeFails(t) ==
    /\ Step(t, "callback", "callbackFailed")
    /\ code[t] # "none"
    /\ Fault
    /\ hydraAvailable' \in {"down", hydraAvailable}
    /\ \E c \in {code[t], "spent"} : code' = [code EXCEPT ![t] = c]
    /\ UNCHANGED <<sessions, serviceProviders, now, pendingRequests, clockVars, browserVars,
                   query, state, sid, session, registration, response, inForce>>

\* The user leaves or reloads the page while the callback waits for Hydra, which it
\* asks under the context of the browser's request.  An exchange cut off is no
\* answer: Hydra, up as it may be, is marked down, and may have spent the code.  A
\* verification cut off comes after a good exchange.
Abandon(t) ==
    /\ Step(t, "callback", "callbackFailed")
    /\ \/ code[t] # "none" /\ hydraAvailable' = "down"
          /\ \E c \in {code[t], "spent"} : code' = [code EXCEPT ![t] = c]
       \/ code[t] = "fresh" /\ hydraAvailable' = "up" /\ code' = [code EXCEPT ![t] = "spent"]
    /\ UNCHANGED <<sessions, serviceProviders, now, pendingRequests, clockVars, browserVars,
                   query, state, sid, session, registration, response, inForce>>
    /\ Leave(t)

Save(t) ==
    /\ Step(t, "save", "lookup")
    /\ SaveSession(sid[t], session[t])
    /\ UNCHANGED <<serviceProviders, now, processVars, browserVars, handlerVars>>
    /\ NoFault

\* The statement fails, or its answer is lost after it was committed: 500.
SaveFails(t) ==
    /\ Step(t, "save", "callbackFailed")
    /\ Fault
    /\ SaveSession(sid[t], session[t]) \/ UNCHANGED sessions
    /\ UNCHANGED <<serviceProviders, now, processVars, browserVars, handlerVars>>

Replay(p) == [request |-> p.request, relay |-> p.relay, method |-> "GET"]

\* The captured request is found: it is to be deleted, and replayed by a GET.
LookupFinds(t) ==
    LET p == pendingRequests[ParseState(state[t]).id]
    IN  /\ Step(t, "lookup", "delete")
        /\ p # NoPending
        /\ query' = [query EXCEPT ![t] = Replay(p)]
        /\ UNCHANGED <<sessions, serviceProviders, now, processVars, browserVars, state, code,
                       sid, session, registration, response, inForce>>
        /\ NoFault

\* It is not there, or a racing reader misses it: only RelayState is passed on.
LookupMisses(t) ==
    LET s == ParseState(state[t])
    IN  /\ Step(t, "lookup", "reply")
        /\ IF pendingRequests[s.id] = NoPending
           THEN NoFault
           ELSE Racing(t) /\ Race
        /\ query' = [query EXCEPT ![t] =
                        [request |-> NoRequest, relay |-> s.relay, method |-> "GET"]]
        /\ UNCHANGED <<sessions, serviceProviders, now, processVars, browserVars, state, code,
                       sid, session, registration, response, inForce>>

\* A slip: the whole map is emptied.
Discard_All(t) ==
    /\ Step(t, "delete", "reply")
    /\ pendingRequests' = [id \in Texts |-> NoPending]
    /\ UNCHANGED <<sessions, serviceProviders, now, hydraAvailable, clockVars, browserVars,
                   handlerVars>>
    /\ NoFault

Discard(t) ==
    /\ Step(t, "delete", "reply")
    /\ MapWrite(t, ParseState(state[t]).id, NoPending)
    /\ UNCHANGED <<sessions, serviceProviders, now, hydraAvailable, clockVars, browserVars,
                   handlerVars>>

\* A slip: the cookie is not set.
SetCookie_Not(t) == UNCHANGED cookie

\* A slip: the id in a field of the server, where the next callback overwrites it.
SetCookie_Last(t) == cookie' = [cookie EXCEPT ![AgentOf[t]] = reading]

SetCookie(t) == cookie' = [cookie EXCEPT ![AgentOf[t]] = sid[t]]

\* The browser takes the cookie of the reply and follows its redirect to the SSO
\* endpoint, with the cookie.
Follow(t) ==
    /\ Step(t, "reply", "sso")
    /\ SetCookie(t)
    /\ sid' = [sid EXCEPT ![t] = cookie'[AgentOf[t]]]
    /\ UNCHANGED <<sessions, serviceProviders, now, processVars, asked, issuedAt, query, state,
                   code, session, registration, response, inForce>>
    /\ NoFault

-----------------------------------------------------------------------------
(* What else may happen *)

\* The reply, with its cookie and redirect, does not reach the browser, or its user
\* has left the page.
LoseReply(t) ==
    /\ Step(t, "reply", "callbackFailed")
    /\ Fault \/ Leave(t)
    /\ UNCHANGED <<sessions, serviceProviders, now, processVars, browserVars, handlerVars>>

\* The user reloads the page that failed: the same URL, the present cookie.
ReloadSso(t) ==
    /\ Step(t, "ssoFailed", "sso")
    /\ \E id \in SentCookies(t, query[t].method) : sid' = [sid EXCEPT ![t] = id]
    /\ UNCHANGED <<sessions, serviceProviders, now, processVars, browserVars, query, state,
                   code, session, registration, response, inForce>>
    /\ Reload

ReloadCallback(t) ==
    /\ Step(t, "callbackFailed", "callback")
    /\ UNCHANGED <<sessions, serviceProviders, now, processVars, browserVars, handlerVars>>
    /\ Reload

\* The cookie reaches its MaxAge, or the user clears it.
ForgetCookie(a) ==
    /\ cookie' = [cookie EXCEPT ![a] = NoCookie]
    /\ UNCHANGED <<sessions, serviceProviders, now, processVars, asked, issuedAt, pc,
                   handlerVars>>
    /\ NoFault

\* An administrator registers entity e, anew or over what was there.
Register(e, config) ==
    /\ SaveServiceProvider(e, config)
    /\ inForce' = [t \in Tabs |->
                     IF pc[t] \in SsoSteps \ {"sso"} /\ IssuerOf[query[t].request] = e
                     THEN inForce[t] \cup {config}
                     ELSE inForce[t]]
    /\ UNCHANGED <<sessions, now, processVars, browserVars, pc, query, state, code, sid,
                   session, registration, response>>
    /\ NoFault

Tick ==
    /\ now < MaxTime
    /\ now' = now + 1
    /\ UNCHANGED <<sessions, serviceProviders, processVars, browserVars, pc, handlerVars>>
    /\ NoFault

\* The process ends and is started again: the map is lost, requests in service
\* fail, and Initialize has to discover Hydra before it serves.  The tables stay.
Restart ==
    /\ pendingRequests' = [id \in Texts |-> NoPending]
    /\ hydraAvailable' = "up"
    /\ pc' = [t \in Tabs |-> CASE pc[t] \in SsoSteps      -> "ssoFailed"
                               [] pc[t] \in CallbackSteps -> "callbackFailed"
                               [] OTHER                   -> pc[t]]
    /\ UNCHANGED <<sessions, serviceProviders, now, clockVars, browserVars, handlerVars>>

Crash == Restart /\ Fault

\* "fatal error: concurrent map writes", or "map read and map write"
MapFatal(t) ==
    /\ pc[t] \in MapAccess /\ Racing(t)
    /\ Restart
    /\ Race

-----------------------------------------------------------------------------
\* Every login is over, or not begun.
Rest ==
    /\ \A t \in Tabs : pc[t] \in {"idle", "done"} \cup Failed
    /\ UNCHANGED vars

\* What the server and the browser do next for tab t, of themselves.
Serve(t) ==
    \/ Validate(t) \/ Refuse(t)
    \/ SessionFound(t) \/ SessionMissing(t)
    \/ Capture(t)
    \/ Answer(t) \/ AnswerUnmapped(t)
    \/ NoCode(t) \/ Exchange(t) \/ TokenUnusable(t) \/ CodeRefused(t) \/ ExchangeFails(t)
    \/ Save(t) \/ SaveFails(t)
    \/ LookupFinds(t) \/ LookupMisses(t)
    \/ Discard(t)
    \/ Follow(t) \/ LoseReply(t)

Progress(t) == Serve(t) \/ LogIn(t) \/ Decline(t)

Next ==
    \/ \E t \in Tabs, r \in Requests : Open(t, r)
    \/ \E t \in Tabs : Progress(t)
    \/ \E t \in Tabs : ReloadSso(t) \/ ReloadCallback(t) \/ Abandon(t)
    \/ \E t \in Tabs : MapFatal(t)
    \/ \E a \in Agents : ForgetCookie(a)
    \/ \E e \in EntityIds, config \in Registrations : Register(e, config)
    \/ Tick
    \/ Crash
    \/ Rest

Spec == Init /\ [][Next]_vars

\* net/http gives every request a goroutine that runs to its end, and the browser
\* follows redirects.  The user may leave a login at Hydra for ever.
FairSpec == Spec /\ \A t \in Tabs : WF_vars(Serve(t))

-----------------------------------------------------------------------------
(* Properties *)

\* A response speaks for the user of the browser it was sent through, whatever
\* the interleaving of callbacks, saved sessions and cookies
\* (handleOIDCCallback 349-377, GetSession 204-259); but for a tab whose session id
\* two callbacks made from one reading of the clock, which nothing prevents
\* (line 350) and which is the one way to be taken for another.
ResponseIdentity ==
    \A t \in Tabs : response[t] # NoResponse =>
        response[t].user = AgentOf[t] \/ sid[t] \in repeated

\* A response answers the request its tab was opened with, with that request's
\* RelayState, even though on the way the tab held only an ID in its state
\* parameter and the request was kept in pendingRequests under it.
AnswersAsked ==
    \A t \in Tabs : response[t] # NoResponse =>
        /\ response[t].request = asked[t]
        /\ response[t].relay = RelayOf[asked[t]]

EndsProcess ==
    \A t \in Tabs : pc[t] \in SsoSteps \cup CallbackSteps => pc'[t] \in Failed

LeavesFor(id) ==
    \/ \E t \in Tabs : /\ pc[t] = "delete" /\ pc'[t] = "reply"
                       /\ ParseState(state[t]).id = id
    \/ EndsProcess

KeepsCaptured ==
    \A id \in Texts : pendingRequests[id] # NoPending /\ pendingRequests'[id] = NoPending =>
        LeavesFor(id)

\* A captured request leaves pendingRequests only by the callback whose state
\* names it, or with the process (lines 230, 399-400).
LeavesByItsCallback == [][KeepsCaptured]_vars

Shared(t) == \E u \in Tabs \ {t} : asked[u] = asked[t]

WaitsFor(t) == pc[t] = "lookup" => pendingRequests[IdOf[asked[t]]].request = asked[t]

\* "Capture the original SAMLRequest so we can replay it after OIDC login": when
\* the callback looks the request up it is there, unless something failed.
CapturedForReplay == faults = 0 => \A t \in Tabs : WaitsFor(t) \/ Shared(t)

\* The same, but for the races that the unlocked map allows.
CapturedUnlessRaced == raced \/ CapturedForReplay

Answerable(config) == config # Unregistered /\ config.binding = "POST"

\* The tab is back from Hydra with no code.
Declined(t) == pc[t] \in {"callback", "callbackFailed"} /\ code[t] = "none"

\* A failed page in a calm system has a cause the user or the administrator can be
\* told: a request grown too old, a login that Hydra ended without a code, a user
\* whose token has no email or no claims of the expected shape, a callback left in
\* the middle, a request made for POST, one opened twice, or a registration the
\* bridge cannot answer.
Explained(t) ==
    \/ now > issuedAt[asked[t]] + MaxIssueDelay
    \/ Declined(t)
    \/ AgentOf[t] \in Doubtful
    \/ t \in left
    \/ MethodOf[asked[t]] = "POST"
    \/ Shared(t)
    \/ \E config \in Registrations \cup {InitialConfig[IssuerOf[asked[t]]]} :
          ~Answerable(config)

FailuresExplained ==
    faults = 0 /\ ~raced => \A t \in Tabs : pc[t] \in Failed => Explained(t)

\* "Capture the original SAMLRequest so we can replay it after OIDC login", looked
\* for in the "POST form if not in query string" too: the request that a callback
\* replays is accepted, if it is still young and its issuer can be answered.
ReplayIsAccepted ==
    faults = 0 /\ ~raced => \A t \in Tabs :
        pc[t] = "ssoFailed" /\ code[t] = "spent" =>
            \/ now > issuedAt[asked[t]] + MaxIssueDelay
            \/ Shared(t)
            \/ ~Answerable(serviceProviders[IssuerOf[asked[t]]])

Expired(id) == id \in SessionIds /\ sessions[id] # NoSession /\ sessions[id].expire <= now

\* A user goes to Hydra only for want of a session: the browser sent no cookie, as
\* on the way back from a login it never does, or one whose row is there and over.
\* Every cookie names a row, for the row is saved first and no later one replaces
\* it (lines 208-243, 363-377 and 416).
HydraOnlyWhenNeeded ==
    faults = 0 => \A t \in Tabs : pc[t] \in {"store", "hydra"} =>
        \/ Expired(sid[t])
        \/ sid[t] = NoCookie /\ (code[t] = "spent" => reloads > 0)

\* What a response is made of, an endpoint read at validation and a mapping read
\* after the session, was each in force while the request was being handled; when
\* something fails the mapping may be missing (line 250), and is never another.
ConfigInForce ==
    \A t \in Tabs : response[t] # NoResponse =>
        /\ response[t].registration \in inForce[t]
        /\ \/ \E config \in inForce[t] : config.mapping = response[t].mapping
           \/ faults > 0 /\ response[t].mapping = NoMapping

\* The round from the SSO endpoint to Hydra and back is not run for ever, however
\* willing the user: whatever becomes of sessions and cookies meanwhile, the tab
\* comes to rest, answered, refused or left at Hydra (lines 220, 243 and 416).
LoginEnds ==
    \A t \in Tabs : <>[](pc[t] \in {"idle", "hydra", "done"} \cup Failed)
=============================================================================
