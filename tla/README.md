# identity-saml-provider in TLA+

A verification project for the SAML-to-OIDC bridge: TLA+ modules translated from
its Go source, TLC runs over small instances of them, and theorems that TLAPS
proves for every instance.

## 1. The system

A service provider (SP) sends a browser to the bridge with a SAML AuthnRequest.
The bridge has no users of its own. It sends the browser on to Ory Hydra, takes
the ID token Hydra gives it for a session of ten minutes, and answers the SP with
an assertion made from that session.

```
  SP --AuthnRequest--> /saml/sso ----(live session)----> assertion --> SP
                          |  ^
          capture request |  | replay request, set cookie
                          v  |
                        Hydra --code,state--> /saml/callback
```

### Inventory

| Part | Source | State | Operations | Made of it here |
| --- | --- | --- | --- | --- |
| Login flow | `internal/provider/server.go` | `pendingRequests` (in memory), the cookie `saml_session` and the OAuth `state` (in the browser), the gauge of Hydra | SSO endpoint with its session provider and SP adapter; OIDC callback | `SamlBridge` |
| Database access | `internal/provider/database.go` | tables `sessions`, `service_providers` | save and read of sessions; save and read of SPs, read of a mapping; cleanup of expired sessions | `Database` (without the cleanup, which nothing calls) |
| Attribute mapping | `internal/provider/mapping.go` | none, pure | claims to fields to attributes and NameID | `AttributeMapping` |
| SP registration | `server.go` 447-529 | a row of `service_providers` | one validated upsert | `Registration`; in `SamlBridge` the accepted upsert is the one action `Register` |
| Registration command | `cmd/service-provider-admin` | none | options to one POST, 30 s timeout, what it reports | `Registration` |
| Migrations | `migrations/`, `internal/cmd/migrate.go` | the schema, goose's table of versions | up, down, check, status | `Migrations` (without status); a row from before 002 in `AttributeMapping` |
| Startup | `internal/cmd/serve.go`, `Initialize`, `config.go` | how far the process is | configure, ping, make the tracer, discover, load keys, listen | `Startup`; what it leaves is `Init` and `Restart` of `SamlBridge` |
| Monitoring | `internal/monitoring` | gauge, histogram | set, observe, scrape | `gauge`, `scraped` of `Startup`; the gauge is `hydraAvailable` in `SamlBridge`; no histogram |
| Tracing | `internal/tracing` | the tracer the process holds, if any | choose an exporter, start a span | `NewTracer`, `Panics` of `Startup`; no samplers, resources or spans |
| Deployment | `k8s/` | - | start the server again, run the migration job again | `Launch` of `Startup`, `RestartUp` of `Migrations` |
| Logging, CLI wiring, output formats, test SP | the rest | none the program reads | - | not modelled |

How the parts meet:

* Requests are served by one goroutine each. They share the two tables (atomic
  per statement, no transaction spans two), the map `pendingRequests` (a plain
  Go map with **no lock**), and the gauge.
* The callback and the SSO request it redirects to are two requests: between
  them only the browser (cookie, URL) and the tables carry anything.
* The SAML library calls back into the bridge twice within one SSO request: for
  the SP's metadata, then for the session. The second reads the mapping of the
  SP in a statement of its own.
* The registration command and the server meet in one HTTP request and end apart:
  the command stops waiting after 30 seconds, the handler's statement has no deadline.
* Nothing orders the migration job and the server's start, and nothing keeps two
  migrate commands apart: they share the schema and goose's table of versions.
* The callback and the registration begin by asking the tracer, whichever the start has
  made, for a span.
* The exchange with Hydra runs under the context of the browser's request: who leaves or
  reloads the callback cancels it.

What is hard, and what must hold all the same (each with the line where it bites,
in `PROJECT.json` under `hazards`):

* *Interleaving*: many logins, several tabs of one browser, on the unlocked map.
  A captured request may only leave by the callback that names it; an answer
  is to the request that was asked.
* *Identity*: a session id is a clock reading and saving is an upsert. A response must
  speak for the user of its browser; where the clock gives two callbacks one reading it
  may not, and nothing else may have that effect.
* *Failure*: an exchange cut off by the browser, a login that Hydra ends without a code, a
  lost reply, a statement that was committed though it "failed", a
  database error that reads as "no session", a restart that empties the map.
  No such thing may make an identity up.
* *Time*: rows, cookies, requests and codes expire at different moments while a
  login is on its way. Nothing is recognised after it expired, and the loop
  between the two endpoints ends.
* *Configuration*: administrators may re-register an SP in the middle of a login, and
  two of them the same SP at once; a run that timed out may be saved late, and so may a
  statement whose handler has already failed.
* *Migrations*: two commands at once, a command that ends between two migrations, a
  server that registers on a schema that is not complete or is being taken back.
* *Start*: each part can be missing or down. A process must not serve without what it
  needs, and must serve in the end once it can have it.
* *Data*: Go iterates maps in any order, which shows in the order of the attributes and
  must show in nothing else; lists are joined and split at NULs, and old rows lack columns.

## 2. The modules

| Module | Models | Role |
| --- | --- | --- |
| `Database` | `database.go`: the tables, the clock, one operator per statement | extended by `SamlBridge` |
| `SamlBridge` | `server.go`: every step of the login flow | the core |
| `SingleSignOn` | what the bridge promises, without cookies, codes, rows or pending requests | abstract specification |
| `BridgeRefinement` | the mapping under which `SamlBridge` implements `SingleSignOn` | refinement |
| `MCBridge` | instances of both | runs `login`, `shared`, `reconfig`, `races`, `post_replay` |
| `AttributeMapping` | `mapping.go`, and the claims part of the callback | a component of its own |
| `MCMapping` | tokens and mappings | runs `mapping`, `nameid_urn`, `any_claim` |
| `Registration` | `service-provider-admin add` and `handleServiceProviderRegistration` | a component of its own, on `Database`'s upsert |
| `MCRegistration` | two entities, three attempts, command lines and requests | run `registration` |
| `Migrations` | `migrate.go`, `migration.go`, the two SQL files, goose as they use it | a component of its own |
| `MCMigrations` | the job and an administrator | runs `migrate`, `rollback` |
| `Startup` | `serve.go`, `Initialize`, `parseURL`, `Start`, the tracer's choice | a component of its own |
| `MCStartup` | 28 settings, two requests | run `startup` |
| `SamlBridge_proofs`, `CalmLogins_proofs`, `Recognition_proofs` | - | theorems about `SamlBridge` |
| `BridgeRefinement_proofs` | - | the theorem that it implements `SingleSignOn` |
| `AttributeMapping_proofs`, `Registration_proofs`, `Migrations_proofs`, `Startup_proofs` | - | theorems about these modules |

Definitions whose name ends in `_Something` after the name of another
(`Discard_All`, `ParseState_LastColon`) are slips: wrong versions of the
definition that follows them, each of which breaks a property under its run. They
show what the property can see, and nothing uses them.

### SamlBridge

A **tab** is a browser tab and, while one of its requests is served, the goroutine
that serves it. `AgentOf` gives each tab the agent (user and browser) it belongs to;
the tabs of an agent share `cookie[a]`. `pc[t]` names the next step; every access
to shared state is a step of its own, since any other tab may run in between:

| `pc` | Next step | Code |
| --- | --- | --- |
| `idle` | `Open` | the browser arrives with an AuthnRequest |
| `sso` | `Validate`, `Refuse` | the library reads the SP's metadata through `GetServiceProvider` (434-442); an error and an unknown SP look alike |
| `session` | `SessionFound`, `SessionMissing` | 204-217; no cookie, no live row and a failed query look alike |
| `store` | `Capture` | 220-245: the write to the map, the state, the redirect |
| `mapping` | `Answer`, `AnswerUnmapped` | 247-258 and the library's response |
| `hydra` | `LogIn`, `Decline` | Hydra and the user: a code, or an error in place of one |
| `callback` | `NoCode`, `Exchange`, `TokenUnusable`, `CodeRefused`, `ExchangeFails`, `Abandon` | 270-361: no code at all, every branch of the exchange and its gauge, the ID token, and the session. A 4xx for a code that is not spent, or a token that cannot be verified, is a fault of the environment; a token without an email, or whose claims do not parse, is a trait of its user (`Doubtful`); an exchange or a verification that the browser cut off is neither |
| `save` | `Save`, `SaveFails` | 363-367 |
| `lookup` | `LookupFinds`, `LookupMisses` | 379-412, the read of the map |
| `delete` | `Discard` | 400 |
| `reply` | `Follow`, `LoseReply` | 369-377 and 414-416, taken by the browser, or lost, or left behind by its user |
| `ssoFailed`, `callbackFailed` | `ReloadSso`, `ReloadCallback` | an error page, and the user's reload |

Besides these: `ForgetCookie`, `Register`, `Tick`, `Crash`, and `MapFatal`, the
runtime ending the process on a concurrent map access it detects.

**The unlocked map.** A tab whose next step touches the map may be in the middle of
touching it. If two are, and one of them writes, the access is a data race: the
model lets it take effect, go wrong (a write lost, a read that misses), or end the
process. The history variable `raced` records the second and third.

**The cookie.** It is `SameSite=Lax` (376): the browser sends it with every GET that is
followed to the bridge, and leaves it out of a POST that another site's page makes, though
some browsers send it for the first minutes. `SentCookies` is therefore the cookie, or
for a POST the cookie or none.

**Leaving a page.** `Abandon` is the user leaving or reloading the callback while Hydra is
asked, for the exchange takes the context of the request (264, 277): it is cancelled, the
gauge goes down although Hydra is up (295-297), and the code may be spent. `left` records
whose page that was. The calls of the database take no context: a handler that has come to
line 363 runs to its end, and its user misses the reply (`LoseReply`).

**The clock.** A session id is a reading of the clock in nanoseconds (350). With
`UniqueReadings` each callback has a later one; without it a callback may get any
reading up to then again, and `repeated` records which were.

**External parts**, modelled from how `server.go` uses them: the SAML library
(`Acceptable`: it inflates the SAMLRequest of a GET and not that of a POST, and
wants a young request of a registered issuer; `Respond`: it answers an HTTP-POST
endpoint only), Hydra (a code is good once), the browser, the network.

**Abstractions.** A request is a model value with an ID, an issuer, a RelayState and
a method. A RelayState is the sequence of its pieces between colons, so that
`ParseState` is `strings.SplitN(state, ":", 2)` without characters. IDs are not
empty and hold no colon (they are XML NCNames), so the branches of the callback for an
empty ID (410-412) are not met. A session is its user and its expiry; the
profile columns are `AttributeMapping`'s. Times are ticks.

### AttributeMapping

The operators carry the names of the Go functions. A Go string that may be a
NUL-joined list is the sequence of its parts, and `CustomAttributes` is a sequence, as it
is a slice there. Wherever Go iterates a map in an order that matters (two claims mapped to
one field, the attributes appended one by one) the operator gives the *set* of possible
results, and `Apply` takes any of them. The three actions take a token
through the callback's claims handling, or give the row an older release would
have left, and apply a mapping to it.

### SingleSignOn

Agents authenticate, which is good until a moment at most `SessionTTL` away; a tab
that asked may be recognised while its agent has an authentication that is good;
a recognised tab is answered, once, with its own agent, request and RelayState.
Under `BridgeRefinement` an authentication is a committed row (also one
whose insert reported an error), and a tab is recognised between the read of the
row and the answer.

### Registration

An **attempt** is one run of the command, or one request of another client, and the
goroutine that handles it. Its two ends have a variable each, `told[a]` and
`handler[a]`, because they end apart:

| Action | Code |
| --- | --- |
| `Run`, `RunFails` | `main.go` 55-132: the options, the mapping file or `--nameid-format`, the body; wrong options and an unreachable server end it |
| `Post` | any other HTTP client, with any content type |
| `Validate` | `server.go` 453-509: decoding by content type, the required fields, the ACS URL, the binding |
| `Save`, `SaveFails` | 511-529: the upsert, of the row with its default binding and decoded mapping, and the answer; a statement that PostgreSQL had when the connection broke is `adrift` |
| `LateCommit` | PostgreSQL completes a statement that is adrift, at once, after later ones, or never |
| `Hear`, `GiveUp` | `main.go` 129-175: the status read; the timeout, a lost reply or one that is not JSON |
| `Crash` | the process ends: the requests it served are cut off, and their statements may be adrift |

A request without a Content-Type has its parameters in the URL: the handler calls
`ParseForm`, which reads a body only if it is said to be a form, so that the comment at
468, "default if no Content-Type", is true of the URL's parameters alone.

What `url.Parse` makes of an ACS is the constant `UrlOf`. `wrote`, `last`, `before` and
`abandoned` are history: which row an attempt committed, which attempt wrote a row
last, which were over when an attempt began, and which were given up while a handler was
at work on them.

### Migrations

`schema` is what there is (the tables of 001, the columns of 002), `applied` the rows of
`goose_db_version`, which carry an identity of their own and may be two of one version.
A command asks (`StartUp`, `StartDown`, `StartCheck`), lists, and then runs one
transaction per step (`Up`, `Down`), each with its row; between any two of them another
command may run, the process may end (`Fail`), or the server may register (`Register`,
which fails on a schema without the columns of 002). The job of `k8s/jobs.yaml` runs `up`
and runs it again when it fails (`RestartUp`). goose is external: it lists rows newest
first, refuses to go up over a gap, and deletes rows by version when it goes down.
`overlap`, `rolledBack` and `crossed` record what the exceptions of the properties are
about; `crossed` is the checks between whose two queries the version table changed.

### Startup

`pc` says how far the process is: `Configure` (the environment), `Connect` (the ping, the
monitor, the tracer), `Discover` (the CA, Hydra's endpoints, the gauge), `LoadKeys` (the key
pair and the two URLs made of the base URL), `Listen`. Each failure leads to `fatal` and
`Exit`, the end of the process with all its memory; `Launch` starts it again with the same
settings. A setting is wrong for good (`db`, `hydra`: what it points to is not the database
or not Hydra); an outage is not (`dbUp`, `hydraUp`). The base URL is one that `url.Parse`
accepts or not: `parseURL` drops the error and dereferences `nil`, a panic that ends the
process. A request arrives and is handled (`Arrive`, `Handle`); `Exchanges` are the ends an
exchange may come to, failure among them while Hydra is up. A tracer is `nil` when its
exporter could not be made: `NewTracer` logs that and returns, and `Panics` is the nil
dereference in the handlers that ask for a span, which `net/http` recovers.

## 3. What TLC checks

| Run | Instance | Properties | Shows |
| --- | --- | --- | --- |
| `login` | two agents, a tab each, the token of one doubtful, two requests (one RelayState with a colon), one fault, one tick, one reload or leaving, a clock that may give one reading twice | `TypeOK`, `ResponseIdentity`, `AnswersAsked`, `CapturedUnlessRaced`, `FailuresExplained`, `LeavesByItsCallback` | two logins at once do not get in each other's way, except by racing on the map or by one reading of the clock; a failed page has a cause |
| `shared` | one agent, two tabs with the same request, two ticks, one fault, one reload or leaving | `HydraOnlyWhenNeeded`, `ImplementsSingleSignOn` | the bridge implements the abstract specification through expiry, repeated requests and reloads; while nothing fails, nobody whose cookie names a good session is sent to Hydra, nor anybody on the way back from there |
| `reconfig` | one tab, an SP registered, re-registered or turned to HTTP-Redirect at any time, a doubtful token, one fault, one reload or leaving, under fairness | `ConfigInForce`, `LoginEnds` | an answer is made of registrations in force while it was made, and a fault can only leave the mapping out; a login does not go round for ever |
| `mapping` | all tokens with or without sub, name, groups and a fourth claim of each type; 6 formats, 4 claim maps, 4 attribute maps, lowercase on and off | `AttributesComeFromTheirClaims`, `MappedClaimsAreReleased`, `OnlyListedAttributes`, `PersistentIsTheSubject`, `OrderAloneVaries` | what is released is what the token says under the names the mapping gives; the order of Go's maps decides the order of the attributes and nothing else |
| `registration` | two entities, three attempts that each may be one of four command lines or three requests, one fault | `TypeOK`, `RowOfOneAttempt`, `RegisteredAsAsked`, `LateSaveHasCause`, `OnlyRegisters`, `MappingErasedByRequest` | a row is of one attempt; what is reported as registered is what was asked for; an older attempt replaces a newer one only after its client gave up on it, or its handler had ended with the statement under way |
| `migrate` | the job and an administrator, four commands, two faults, a server that registers, under fairness | `TypeOK`, `VersionTrue`, `MappingKept`, `CheckTold`, `DownReaches`, `Migrated` | the version table says what the schema is, going up loses no mapping, the job completes the schema in the end |
| `startup` | 28 settings, two requests, two outages or crashes, under fairness | `TypeOK`, `ServesWhenSufficient`, `ScrapeTells`, `PanicsWhenUntraceable`, `ServesInTheEnd` | a process serves when it has what it needs, and in the end; what its gauge can and cannot say |

Five runs end in a violation, each of one property that a comment or the README of
the repository states:

| Run | Property | The code | The statement |
| --- | --- | --- | --- |
| `races` | `CapturedForReplay` | the map is not locked: a captured request can be gone with nothing failing | `server.go:221` "Capture the original SAMLRequest so we can replay it after OIDC login" |
| `post_replay` | `ReplayIsAccepted` | a request taken from a POST form is replayed as the query of a GET, in the wrong encoding | `server.go:224` "Check POST form if not in query string" |
| `nameid_urn` | `PersistentUrnIsTheSubject` | the persistent format given by its URN yields the email under that URN | `README.md:290` "or a full URN" |
| `any_claim` | `AnyClaimCanBeMapped` | a number, boolean or object is left out | `README.md:291` "Any claim present in the OIDC ID token can be mapped." |
| `rollback` | `RollsBackLast` | after two overlapping `migrate up` the newest row can be of version 1, and `migrate down` takes back the tables with version 2 applied | `migrate.go:98` "Roll back the last migration" |

In the passing runs these facts, and some that no document of the repository denies,
appear as named exceptions, and each property says that its exception is the only one:

| Exception | In | What the code does there |
| --- | --- | --- |
| `raced` | `CapturedUnlessRaced`, `FailuresExplained` | the map is not locked |
| `repeated` | `ResponseIdentity` | two callbacks with one reading of the clock share a row, and one user is taken for the other |
| `left` | `FailuresExplained` | a callback that the browser left fails, and marks Hydra down |
| a POSTed request, one open in two tabs | `FailuresExplained`, `CapturedUnlessRaced` | the replay is refused, the entry of one ID serves one callback |
| `overlap` with `rolledBack` | `VersionTrue`, `DownReaches` (`overlap`) | nothing keeps two commands apart |
| `crossed` | `CheckTold` | a check reads the version table twice |
| `abandoned`, `adrift` | `LateSaveHasCause` | the handler, or its statement, outlives the one who waits for it |
| `faults` | `ConfigInForce` | a mapping that cannot be read is left out |

### Bounds, and why they suffice

* Two tabs: each property relates at most two logins, or a login and its
  environment; the races of the map take two goroutines. `login` has them on two
  browsers, `shared` on one.
* `MaxFaults = 1`: one database error, outage, lost reply or crash at any step.
  The invariants that are proved hold for every number of faults.
* `MaxTime` 1 or 2 with `SessionTTL = 1` and `MaxIssueDelay` 1, or 0 in `login` where one
  tick has to do: enough for a row to expire at each step of a login, and for a request to
  grow too old to be accepted.
* `MaxReloads`: one reload reaches the spent code, one leaving a cancelled exchange; more
  repeat them.
* `SessionIds`: the clock readings. Each callback consumes one; the sets are large
  enough that no login of the instance ever lacks one, and a tab that did would be stuck
  in `callback`, a deadlock. In `login` and `reconfig` readings may repeat
  (`UniqueReadings = FALSE`): in `login` because `ResponseIdentity` has to say what follows
  from it, in `reconfig` so that nothing but the code under test ends the rounds that
  `LoginEnds` is about. In `shared` they may not: its two properties are false of a coarse
  clock, where a callback overwrites the row of another.
* `registration`: `LateSaveHasCause` takes an older attempt and a newer one, and the third
  lets another one stand between them or beside them. The command lines and requests meet
  every branch of the command and of the handler: a file beside `--nameid-format`, a
  bad file, a default binding, a form, no content type, a bad URL, a malformed body.
* `migrate`: four commands are what `RollsBackLast` takes three of, and leave one to run
  after the damage; two faults end a command twice, before and between two migrations.
  There are two migrations in the repository, so the versions are no bound.
* `startup`: two requests, one served before the other is, of every kind; two faults end a
  process and take away what the next one needs. The settings vary one at a time, but for
  those of tracing, which are all combined.

### Fairness

`FairSpec` asks for weak fairness of `Serve(t)` for every tab, nothing else:
`net/http` runs a goroutine per request to its end, every call a handler makes
returns or fails (the client of Hydra has a timeout of 30 s), and browsers follow
redirects. No fairness is assumed of users, time, administrators, reloads, leaving or faults:
a user may stay at Hydra's login page for ever, which `LoginEnds` counts as rest.
The steps that fail are steps of `Serve`, so fairness never promises success. `LoginEnds`
holds because each new round takes a session that was lost on the way, by one of
finitely many faults or by its expiry, and by then the request is too old.

`Migrations` asks for weak fairness of each command's next step (a process runs on) and of
`RestartUp` (the job has `restartPolicy: OnFailure`, `k8s/jobs.yaml:25`), and of no command
being started. `Startup` asks for it of `Run` (a process runs on and the deployment starts
an ended one again), of `Handle(r)` for every request, and of `Repair`: that the database
and Hydra come back is an assumption about the environment, without which nothing could
be promised of a server that needs both.

`CHECK_DEADLOCK` is off in the mapping runs only: they end when the mapping has been
applied. In `SamlBridge` the step `Rest` lets the system stand still only when every
login is over or not begun, so a deadlock would be a login that is stuck; `Rest` in
`Registration`, `Migrations` and `Startup` is such a step too.

## 4. What is proved

For any tabs, agents, requests, registrations, session ids and bounds:

| Theorem | Statement | Invariants used |
| --- | --- | --- |
| `TypeCorrect` | `Spec => []TypeOK` | `RequestInv` |
| `AnswersAskedCorrect` | `Spec => []AnswersAsked` | `RequestInv` |
| `LeavesByItsCallbackCorrect` | `Spec => LeavesByItsCallback` | `RequestInv` |
| `ConfigInForceCorrect` | `Spec => []ConfigInForce` | `RequestInv`, `ConfigInv` |
| `ResponseIdentityCorrect` | `Spec => []ResponseIdentity` | `SessionInv` |
| `Implements` | `UniqueReadings` implies `Spec => ImplementsSingleSignOn` | all but `ConfigInv`, and `SaveInv` |
| `CapturedUnlessRacedCorrect` | `Spec => []CapturedUnlessRaced` | `RequestInv`, `KnownInv`, `CalmInv` |
| `FailuresExplainedCorrect` | `Spec => []FailuresExplained` | the same |
| `HydraOnlyWhenNeededCorrect` | `UniqueReadings` implies `Spec => []HydraOnlyWhenNeeded` | `SessionInv`, `SaveInv`, `RecognitionInv` |
| `StateRoundTrip` | the state parameter splits into what it was built from | - |

`Implements` is in `BridgeRefinement_proofs`, the two after it in `CalmLogins_proofs`,
`HydraOnlyWhenNeededCorrect` in `Recognition_proofs`, the others in `SamlBridge_proofs`.
Of the other modules:

| Module | Theorems | Invariants used |
| --- | --- | --- |
| `Registration_proofs` | each property of run `registration` | `CheckedInv`, `RowInv`, `HonestInv`, `LateInv` |
| `Migrations_proofs` | each safety property of run `migrate`, and `RollsBackLast` as long as no commands have overlapped | `Shape`, `Safe` |
| `Startup_proofs` | each safety property of run `startup` | `Stage`, `RequestInv` |
| `AttributeMapping_proofs` | each property of run `mapping` | `MappedInv` |

**Assumptions.** `DatabaseAssumption` and `BridgeAssumption` type the constants;
`UniqueIds` says that no two requests have the same ID, which SAML demands of those
who issue them and the bridge relies on; `UniqueReadings` says that no two callbacks read
the same nanosecond, which nothing in the code enforces: it is a hypothesis of
the two theorems that are false without it, `Implements` and `HydraOnlyWhenNeededCorrect`,
not an assumption of the module. `RegistrationAssumption`, `NoSuchConfig`,
`MigrationsAssumption`, `StartupAssumption`, `TokensAssumption` and `MappingsAssumption` (a
mapping lists finitely many attributes) type constants and keep sentinels apart from values; `LowerCaseAssumption` says of
`strings.ToLower` that it makes no string empty.

**Why an invariant, and which.** `AnswersAsked` is not inductive: it speaks of
responses only, and a response is made of what travelled through the URL of the
redirect, the map and the state parameter. `RequestInv` follows the request on
that way: what a tab carries is what it was opened with or nothing (`RequestOfTab`),
the state a tab brings back is built from its own request, and whatever is stored
under an ID is the request of that ID (`CapturedUnder`). `StateRoundTrip` then
makes the lookup find the right entry or none, whichever tab put it there, and a race
that loses a write changes nothing of it.

`ResponseIdentity` follows from `SessionInv`: an id is *held by* an agent if a tab, the
cookie or a row of his has it (`HeldBy`); no id is held by two agents unless it is
`repeated`, and none held is larger than the last clock reading. The second part is what
makes the first inductive: a new id is larger than all that are held, or it is a reading
that was there before, which puts it among the repeated.

`ConfigInForce` needs that the row of the issuer, *as it is now*, is among those in force
since validation, for that is the row the mapping will be read from (`ConfigOfTab`); a
registration changes the row and the set together, and no row is ever removed.

`Implements` maps each action to the step it is (`Open` to `Ask`, a committed insert to
`Authenticate`, `SessionFound` to `Recognise`, a response to `Answer`, `Tick` to `Tick`) and all
others to a loss of recognition that may be of nobody. That a session found is one
granted to the tab's own agent is `SessionInv`; that an insert only adds
an authentication, and never takes one away by overwriting its row, is `SaveInv`: the
id a callback is about to save under is nobody else's yet.

`CapturedUnlessRaced` and `FailuresExplained` speak of systems in which nothing has failed
or raced (`Calm`), and a step out of calm proves them at once. `CalmInv` says for each tab
what is left to go wrong: while its callback is still to come, its request is in the map or
the tab shares it; when it is on its way back, it carries its request in the encoding it was
made for, or a cause is already known. That another tab does not take the entry away is
`UniqueIds`: only a tab with the same request writes under its ID. `KnownInv` ties what a
tab was validated against to what administrators can register, which is where
"a registration the bridge cannot answer" comes from.

`HydraOnlyWhenNeeded` speaks of two phases, but whether a tab comes to them is decided
earlier and by others: by the callback that saved the row, by the browser that got the
cookie, perhaps from another tab. `RecognitionInv` says that every cookie names a row
(`CookieInv`), and so does the id of every tab but one that is in its callback, or was cut
off there; that a tab back from Hydra has an id; and that an id which was refused without a
fault is that of an expired row (`Recognition`). Rows stay what they are because nothing
writes a row that exists, which is `SaveInv` again (`NextAdvances`): a cookie cannot come to name
another session, or none. The exceptions are real: one reading of the clock for two callbacks,
a failed query, and a page reloaded after its cookie was forgotten, with a code long spent.

*Registration.* A row is the work of one attempt (`RowInv`) because the upsert sets every
column; what is reported is what was asked (`HonestInv`) because a client hears `created`
only from a handler that has committed. `LateInv` is about order: an attempt that began when
another was over for its client finds that other's handler out of work, or abandoned, so that
only a statement adrift can save it after.

*Migrations.* While no two commands have overlapped (`Serial`), one runs at a time, the rows
are as old as their versions are low, and what a command has read is what the table is. Once
they have, the rows may be in any order and twice, and what remains is
weaker: going up, the schema and the table still agree, for `IF NOT EXISTS` lets a second
application pass; once something is taken back as well, `VersionTrue` promises nothing.
`CheckTold` needs none of that: it is about one command, and `ToldBy` says of it that what
its first query found is what the table still says, until it is `crossed`.
`RollsBackLastAlone` says that before any overlap the newest row is that of the highest
version, so that the violation of run `rollback` has no other cause.

*Startup.* `Stage` is what each `pc` has found of the settings. The rest follows because a
tracer is made of the settings once, and the gauge is down in a process that goes on only
after an exchange that failed.

*AttributeMapping.* The theorems are about operators on any token and any mapping.
`MappedInv` ties the session to the token it was made of (`OfToken`, but for what a row from
before 002 lacks), the raw claims to that token or to none, and the result to both. From there
`ClaimIs` and `ValueOfClaim` follow a claim into the session and over the raw claims, `ModelIs`
and `TransformedIs` into a field of the internal model, `ReleasedAdds` out of it.
What a list loses on the way is `NonEmptyParts`, given by the rank of each kept position
(`Nth`) instead of by recursion: that there is a position of every rank takes an
induction (`Ranked`), which is put as the existence of a least counterexample
(`Least`), for that is a statement about a set and not about an operator.

`OrderAloneVaries` compares the result with every other outcome: the internal model is one
if no two claims share a field, so that two outcomes differ by the order of the listed
fields, and the bijection between them is the one order after the inverse of the other.

**Left to TLC**: liveness (`LoginEnds`, `Migrated`, `ServesInTheEnd`), which is out of these
provers' reach, and the five properties that fail. Every other property of a passing run is a
theorem.

## 5. Not modelled

* Signatures, encryption, XML, the metadata endpoint, TLS: inside libraries.
* Logging, output formats, command wiring, `version`: they change nothing that the
  program reads. `migrate status` reads what `migrate check` reads and changes nothing.
* The histogram of response times and the middleware around the handlers: nothing in the
  program reads it, and what it counts is what the middleware is given.
* Samplers, resources and spans of the tracer, and the spans of the last batch, which an
  exit by `Fatalw` loses: nothing in the program depends on them.
* Whether an entity id is a URL: the command's help (`main.go:44`, README 245) says it must be, the
  handler asks for one that is not empty, and no step depends on more.
* `CleanupExpiredSessions`: no code of the server calls it. It deletes rows that no
  query returns any more.
* Several replicas of the bridge: the manifests run one.
* The growth of `pendingRequests` and of the table of sessions: nothing removes a
  login that was given up; there is no promise in the repository to check it against.

## 6. Where it could go on

Every part of the system that keeps state is modelled, but for the cleanup that nothing
calls, and every safety property that the passing runs check is proved. What a next step
would be:

1. `Migrations` composed with `SamlBridge`: a login on a schema that is taken back under it.
   Each statement of the login already may fail (`Fault`), which is what such a schema
   does to it; the composition would say which do, and for how long.
2. Several replicas: a map of pending requests per process and a callback that may reach
   another one than the request did. The manifests run one.
3. A lock in `SamlBridge` in place of `Racing`, to show that `CapturedForReplay` then holds;
   `CapturedUnlessRacedCorrect` already says that nothing else stands in its way.
