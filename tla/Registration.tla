----------------------------- MODULE Registration -----------------------------
(***************************************************************************)
(* How a service provider comes to be registered: the command              *)
(* service-provider-admin add (or any other HTTP client), the POST it      *)
(* sends, and the handler that validates the request and upserts the row.  *)
(*                                                                         *)
(* An attempt is one run of the command, or one request of another client, *)
(* and the goroutine of the server that handles it.  The two end apart:    *)
(* the command gives up after 30 seconds, while the handler, whose         *)
(* statement has no deadline, goes on and may save the row later.  The     *)
(* statement too may outlive its handler: when the connection breaks or    *)
(* the process ends while PostgreSQL has it, PostgreSQL may complete it.   *)
(*                                                                         *)
(*   client:   nothing -> waiting -> registered | failed                   *)
(*   handler:  none -> received -> saving -> created | failed              *)
(*                        |                                                *)
(*                        +-> rejected                                     *)
(***************************************************************************)
EXTENDS Naturals

CONSTANTS
    EntityIds, AcsUrls, Mappings, NoMapping, Unregistered,  \* as in Database
    UrlOf,      \* UrlOf[acs] is what url.Parse makes of acs: [scheme, host] or NotAUrl
    NotAUrl,
    OnlyNameId, \* OnlyNameId[format] is the mapping that sets that NameID format alone
    NoFile, BadFile,  \* no --attribute-mapping-file, or one that cannot be read or parsed
    NoNameId,   \* no --nameid-format
    Attempts,
    NoAttempt,
    CommandLines,  \* the command lines that may be run
    Posts,         \* the requests other clients may send
    MaxFaults      \* bound: database errors, unreachable servers and crashes

Blank == "blank"  \* an empty string or an absent parameter

Bindings == {"POST", "Redirect"}

NameIds == DOMAIN OnlyNameId

Lines == [entity : EntityIds \cup {Blank}, acs : AcsUrls \cup {Blank},
          binding : Bindings \cup {Blank, "other"},
          file : Mappings \cup {NoFile, BadFile}, nameid : NameIds \cup {NoNameId},
          output : {"human", "json", "other"}]

Bodies == [type : {"json", "form", "none", "other"}, wellFormed : BOOLEAN,
           entity : EntityIds \cup {Blank}, acs : AcsUrls \cup {Blank},
           binding : Bindings \cup {Blank, "other"}, mapping : Mappings]

ASSUME RegistrationAssumption ==
    /\ NoMapping \in Mappings
    /\ Blank \notin EntityIds \cup AcsUrls
    /\ UrlOf \in [AcsUrls -> [scheme : STRING, host : STRING] \cup {NotAUrl}]
    /\ OnlyNameId \in [NameIds -> Mappings]
    /\ {NoFile, BadFile} \cap Mappings = {} /\ NoFile # BadFile /\ NoNameId \notin NameIds
    /\ NoAttempt \notin Attempts
    /\ CommandLines \subseteq Lines /\ Posts \subseteq Bodies
    /\ MaxFaults \in Nat

Configs == [acs : AcsUrls, binding : Bindings, mapping : Mappings]

ASSUME NoSuchConfig == Unregistered \notin Configs

VARIABLES
    serviceProviders,  \* the table of Database
    line,       \* line[a] is the command line of attempt a, or NoLine
    request,    \* request[a] is the request that was sent, or NoRequest
    handler,    \* where the server is with it
    told,       \* what its client has been told
    adrift,     \* the attempts whose handlers ended while PostgreSQL had the statement
    \* history
    wrote,      \* wrote[a] is the row that a committed, or Unregistered
    last,       \* last[e] is the attempt that wrote e's row last
    before,     \* before[a] are the attempts whose clients were done when a began
    abandoned,  \* the attempts given up while the server was still at work on them
    faults      \* how many faults the environment has caused

clientVars == <<line, told, before, abandoned>>
serverVars == <<handler, adrift>>
tableVars == <<serviceProviders, wrote, last>>
vars == <<tableVars, clientVars, request, serverVars, faults>>

DB == INSTANCE Database
        WITH Agents <- {}, NoUser <- NoAttempt, SessionIds <- {}, sessions <- << >>, now <- 0

NoLine == [entity |-> Blank]
NoRequest == [entity |-> Blank]

\* A slip: the client is answered as soon as its request has been validated.
AtWork_Early == {"received"}

AtWork == {"received", "saving"}

Over == {"registered", "failed"}

TypeOK ==
    /\ serviceProviders \in [EntityIds -> Configs \cup {Unregistered}]
    /\ line \in [Attempts -> Lines \cup {NoLine}]
    /\ request \in [Attempts -> Bodies \cup {NoRequest}]
    /\ handler \in [Attempts -> {"none", "rejected", "created", "failed"} \cup AtWork]
    /\ told \in [Attempts -> {"nothing", "waiting"} \cup Over]
    /\ adrift \subseteq Attempts
    /\ wrote \in [Attempts -> Configs \cup {Unregistered}]
    /\ last \in [EntityIds -> Attempts \cup {NoAttempt}]
    /\ before \in [Attempts -> SUBSET Attempts]
    /\ abandoned \subseteq Attempts
    /\ faults \in Nat

Init ==
    /\ serviceProviders = [e \in EntityIds |-> Unregistered]
    /\ line = [a \in Attempts |-> NoLine]
    /\ request = [a \in Attempts |-> NoRequest]
    /\ handler = [a \in Attempts |-> "none"]
    /\ told = [a \in Attempts |-> "nothing"]
    /\ adrift = {}
    /\ wrote = [a \in Attempts |-> Unregistered]
    /\ last = [e \in EntityIds |-> NoAttempt]
    /\ before = [a \in Attempts |-> {}]
    /\ abandoned = {}
    /\ faults = 0

Fault == faults < MaxFaults /\ faults' = faults + 1

-----------------------------------------------------------------------------
(* The command and other clients *)

\* PreRunE and the mapping file: the command ends before it has sent anything.
FailsAtOnce(l) == l.output = "other" \/ l.file = BadFile

\* A slip: --nameid-format is looked at beside a file only.
MappingOf_FileOnly(l) == IF l.file # NoFile THEN l.file ELSE NoMapping

\* A mapping file takes the place of --nameid-format.
MappingOf(l) ==
    CASE l.file # NoFile                         -> l.file
      [] l.file = NoFile /\ l.nameid # NoNameId -> OnlyNameId[l.nameid]
      [] OTHER                                   -> NoMapping

AddRequest(l) ==
    [type |-> "json", wellFormed |-> TRUE, entity |-> l.entity, acs |-> l.acs,
     binding |-> l.binding, mapping |-> MappingOf(l)]

Begin(a) ==
    /\ told[a] = "nothing"
    /\ before' = [before EXCEPT ![a] = {b \in Attempts : told[b] \in Over}]
    /\ UNCHANGED <<tableVars, adrift, abandoned>>

Send(a, body) ==
    /\ request' = [request EXCEPT ![a] = body]
    /\ handler' = [handler EXCEPT ![a] = "received"]
    /\ told' = [told EXCEPT ![a] = "waiting"]

Run(a, l) ==
    /\ Begin(a)
    /\ ~FailsAtOnce(l)
    /\ line' = [line EXCEPT ![a] = l]
    /\ Send(a, AddRequest(l))
    /\ UNCHANGED faults

\* The options are wrong, or the server cannot be reached.
RunFails(a, l) ==
    /\ Begin(a)
    /\ IF FailsAtOnce(l) THEN UNCHANGED faults ELSE Fault
    /\ line' = [line EXCEPT ![a] = l]
    /\ told' = [told EXCEPT ![a] = "failed"]
    /\ UNCHANGED <<request, handler>>

Post(a, body) ==
    /\ Begin(a)
    /\ Send(a, body)
    /\ UNCHANGED <<line, faults>>

\* A slip: the client does not look at the status.
Success_Any(a) == handler[a] \notin AtWork \cup {"none"}

\* 201 (or 200): anything else is reported with its status.
Success(a) == handler[a] = "created"

Hear(a) ==
    /\ told[a] = "waiting" /\ handler[a] \notin AtWork
    /\ told' = [told EXCEPT ![a] = IF Success(a) THEN "registered" ELSE "failed"]
    /\ UNCHANGED <<tableVars, line, before, abandoned, request, serverVars, faults>>

\* Thirty seconds have passed, or the reply was lost or is not what it should be.
GiveUp(a) ==
    /\ told[a] = "waiting"
    /\ told' = [told EXCEPT ![a] = "failed"]
    /\ abandoned' = abandoned \cup {b \in {a} : handler[b] \in AtWork}
    /\ UNCHANGED <<tableVars, line, before, request, serverVars, faults>>

-----------------------------------------------------------------------------
(* handleServiceProviderRegistration *)

\* Without a Content-Type the parameters are taken as a form's; net/http then finds
\* those of the URL, which is where a request of type "none" has them.
Readable(body) == body.type # "other" /\ body.wellFormed

\* A slip: any scheme will do.
ValidAcs_AnyScheme(acs) == UrlOf[acs] # NotAUrl /\ UrlOf[acs].scheme # "" /\ UrlOf[acs].host # ""

ValidAcs(acs) ==
    /\ UrlOf[acs] # NotAUrl
    /\ UrlOf[acs].scheme \in {"http", "https"} /\ UrlOf[acs].host # ""

Acceptable(body) ==
    /\ Readable(body)
    /\ body.entity # Blank /\ body.acs # Blank
    /\ ValidAcs(body.acs)
    /\ body.binding \in Bindings \cup {Blank}

\* "attribute_mapping is not supported in form-encoded requests"
Decoded(body) == IF body.type = "json" THEN body.mapping ELSE NoMapping

\* A slip: the default binding is forgotten.
Registered_NoDefault(body) ==
    [acs |-> body.acs, binding |-> body.binding, mapping |-> Decoded(body)]

Registered(body) ==
    [acs |-> body.acs, binding |-> IF body.binding = Blank THEN "POST" ELSE body.binding,
     mapping |-> Decoded(body)]

Validate(a) ==
    /\ handler[a] = "received"
    /\ handler' = [handler EXCEPT ![a] = IF Acceptable(request[a]) THEN "saving" ELSE "rejected"]
    /\ UNCHANGED <<tableVars, clientVars, request, adrift, faults>>

\* The upsert is committed.
Commit(a) ==
    LET e == request[a].entity
    IN  /\ DB!SaveServiceProvider(e, Registered(request[a]))
        /\ wrote' = [wrote EXCEPT ![a] = serviceProviders'[e]]
        /\ last' = [last EXCEPT ![e] = a]

Save(a) ==
    /\ handler[a] = "saving"
    /\ handler' = [handler EXCEPT ![a] = "created"]
    /\ Commit(a)
    /\ UNCHANGED <<clientVars, request, adrift, faults>>

\* The statement fails, or the connection breaks while PostgreSQL has it: 500.
SaveFails(a) ==
    /\ handler[a] = "saving"
    /\ Fault
    /\ handler' = [handler EXCEPT ![a] = "failed"]
    /\ adrift' \in {adrift, adrift \cup {a}}
    /\ UNCHANGED <<tableVars, clientVars, request>>

\* The process ends: every request it was serving is cut off.
Crash ==
    /\ Fault
    /\ handler' = [a \in Attempts |-> IF handler[a] \in AtWork THEN "failed" ELSE handler[a]]
    /\ \E sent \in SUBSET {a \in Attempts : handler[a] = "saving"} : adrift' = adrift \cup sent
    /\ UNCHANGED <<tableVars, clientVars, request>>

\* PostgreSQL completes such a statement, at once or after others, or never.
LateCommit(a) ==
    /\ a \in adrift /\ wrote[a] = Unregistered
    /\ Commit(a)
    /\ UNCHANGED <<clientVars, request, serverVars, faults>>

\* Every attempt has been made, and is over at both ends.
Rest ==
    /\ \A a \in Attempts : told[a] \in Over /\ handler[a] \notin AtWork
    /\ UNCHANGED vars

Next ==
    \/ \E a \in Attempts, l \in CommandLines : Run(a, l) \/ RunFails(a, l)
    \/ \E a \in Attempts, body \in Posts : Post(a, body)
    \/ \E a \in Attempts : Hear(a) \/ GiveUp(a) \/ Validate(a) \/ Save(a)
                           \/ SaveFails(a) \/ LateCommit(a)
    \/ Crash
    \/ Rest

Spec == Init /\ [][Next]_vars

-----------------------------------------------------------------------------
(* Properties *)

Sound(config) ==
    /\ config.binding \in Bindings
    /\ UrlOf[config.acs] # NotAUrl
    /\ UrlOf[config.acs].scheme \in {"http", "https"} /\ UrlOf[config.acs].host # ""

Registers ==
    \E e \in EntityIds, config \in Configs : Sound(config) /\ DB!SaveServiceProvider(e, config)

\* Whatever is posted, in whatever form and through whatever failure, the table
\* changes by the registration of one entity with an endpoint that can be sent to
\* and a binding the bridge knows, and in no other way: these are the steps that
\* SamlBridge's Register stands for (lines 482-512).
OnlyRegisters == [][Registers]_serviceProviders

\* The row of an entity is, in every column, the registration of the one attempt
\* that was saved last: two administrators at once do not get a mixture, and
\* nothing of an earlier registration shows through (SaveServiceProvider 143-150).
RowOfOneAttempt ==
    \A e \in EntityIds :
        /\ serviceProviders[e] = IF last[e] = NoAttempt THEN Unregistered ELSE wrote[last[e]]
        /\ last[e] # NoAttempt =>
              request[last[e]].entity = e /\ serviceProviders[e] = Registered(request[last[e]])

Asked(l) ==
    [acs |-> l.acs, binding |-> IF l.binding = Blank THEN "POST" ELSE l.binding,
     mapping |-> IF l.file = NoFile
                 THEN IF l.nameid = NoNameId THEN NoMapping ELSE OnlyNameId[l.nameid]
                 ELSE l.file]

\* "Service provider registered successfully!": when the command says so, a row
\* has been saved, and it was the endpoint, binding and mapping of the options,
\* through the JSON and the handler's defaults (main.go 86-173, server.go 460-512).
RegisteredAsAsked ==
    \A a \in Attempts : told[a] = "registered" =>
        /\ wrote[a] # Unregistered
        /\ line[a] # NoLine => wrote[a] = Asked(line[a])

\* An attempt that was over for its client before another one began, which was then
\* reported as registered, is not what stands in the end, unless its client had
\* given up on a handler that was still at work, or its handler had ended while
\* PostgreSQL still had the statement: the late save of a run that timed out, or was
\* told of a failure, is the one way in which an older registration takes a newer
\* one's place (main.go 126-132, server.go 512).
LateSaveHasCause ==
    \A a, b \in Attempts :
        /\ told[a] = "registered" /\ b \in before[a]
        /\ last[request[a].entity] = b
        => b \in abandoned \cup adrift

CarriesNoMapping(a) ==
    IF line[a] = NoLine THEN request[a].type # "json" \/ request[a].mapping = NoMapping
                        ELSE Asked(line[a]).mapping = NoMapping

ErasedByRequest ==
    \A e \in EntityIds :
        /\ serviceProviders[e] # Unregistered /\ serviceProviders[e].mapping # NoMapping
        /\ serviceProviders'[e].mapping = NoMapping
        => \E a \in Attempts : /\ handler[a] = "saving" \/ a \in adrift
                               /\ request[a].entity = e /\ CarriesNoMapping(a)

\* The mapping of an entity is erased by a request that carries none, by form or
\* by a command run without either option, and by nothing else (lines 467-476).
MappingErasedByRequest == [][ErasedByRequest]_vars
=============================================================================
