------------------------------- MODULE Startup -------------------------------
(***************************************************************************)
(* The process of the server: serve connects to the database, makes the    *)
(* monitor and the tracer, asks Hydra for its endpoints, loads the SAML    *)
(* keys and listens.  Each of these can fail, and every failure ends the   *)
(* process, except that of the tracer's exporter, which is logged.  The    *)
(* deployment starts a process that has ended again, with the same         *)
(* settings.                                                               *)
(*                                                                         *)
(*   dead -> configure -> connect -> discover -> keys -> listen -> serving *)
(*     ^         |           |          |          |       |         |     *)
(*     +---------+-----------+----------+----------+-------+---------+     *)
(*                                                                         *)
(* Once it listens, the two kinds of requests that are traced (the         *)
(* callback and the registration) start a span before anything else.  A    *)
(* handler that panics is recovered by net/http: the client gets no        *)
(* answer, and the process goes on.                                        *)
(***************************************************************************)
EXTENDS Naturals

CONSTANTS
    Requests,   \* the requests that arrive
    Settings,   \* the settings a process may be started with
    MaxFaults   \* bound: outages and processes that end by themselves

Endpoints == {"unset", "usable", "unusable"}

AllSettings == [parsed : BOOLEAN,        \* envconfig accepts the environment
                db : BOOLEAN,            \* host, name and password are those of the database
                hydra : BOOLEAN,         \* Hydra is at the URL, with a certificate that is
                                         \*   trusted
                baseURL : BOOLEAN,       \* url.Parse accepts it (127.0.0.1:8082 it does not)
                ca : {"unset", "good", "unreadable", "notPem"},
                pair : {"rsa", "ecdsa", "unreadable"},
                portFree : BOOLEAN,
                tracing : BOOLEAN, grpc : Endpoints, http : Endpoints]

ASSUME StartupAssumption ==
    /\ Settings \subseteq AllSettings
    /\ MaxFaults \in Nat

VARIABLES
    settings,   \* what the process is started with, the same every time
    dbUp,       \* the database answers
    hydraUp,    \* Hydra answers
    pc,         \* where the process is
    gauge,      \* dependency_available of component hydra
    tracer,     \* none before it is made; nil if it holds no tracer
    kind,       \* kind[r] is what request r is for, or none
    served,     \* how far request r is
    scraped,    \* what the scrapes of this process were told of Hydra
    \* history
    failed,     \* an exchange with Hydra has failed in this process
    faults      \* how many faults the environment has caused

memory == <<gauge, tracer, scraped, failed>>
requestVars == <<kind, served>>
environment == <<settings, dbUp, hydraUp>>
vars == <<environment, pc, memory, requestVars, faults>>

Traced == {"callback", "registration"}
Kinds == Traced \cup {"metadata", "metrics"}

TypeOK ==
    /\ settings \in Settings
    /\ dbUp \in BOOLEAN /\ hydraUp \in BOOLEAN
    /\ pc \in {"dead", "configure", "connect", "discover", "keys", "listen", "serving", "fatal"}
    /\ gauge \in {"unset", "down", "up"}
    /\ tracer \in {"none", "noop", "exporting", "nil"}
    /\ kind \in [Requests -> Kinds \cup {"none"}]
    /\ served \in [Requests -> {"none", "arrived", "answered", "panicked", "cut"}]
    /\ scraped \subseteq {"unset", "down", "up"}
    /\ failed \in BOOLEAN
    /\ faults \in Nat
    /\ pc \in {"discover", "keys", "listen", "serving"} => tracer # "none"
    /\ pc \in {"keys", "listen", "serving"} => gauge # "unset"

Init ==
    /\ settings \in Settings
    /\ dbUp = TRUE /\ hydraUp = TRUE
    /\ pc = "dead"
    /\ gauge = "unset" /\ tracer = "none"
    /\ scraped = {} /\ failed = FALSE
    /\ kind = [r \in Requests |-> "none"]
    /\ served = [r \in Requests |-> "none"]
    /\ faults = 0

Fault == faults < MaxFaults /\ faults' = faults + 1

-----------------------------------------------------------------------------
(* serve *)

Launch ==
    /\ pc = "dead"
    /\ pc' = "configure"
    /\ UNCHANGED <<environment, memory, requestVars, faults>>

\* Nothing of the memory of a process is left.
End ==
    /\ pc' = "dead"
    /\ gauge' = "unset" /\ tracer' = "none"
    /\ scraped' = {} /\ failed' = FALSE

\* Fatalw: the process ends without running what was deferred.
Exit ==
    /\ pc = "fatal"
    /\ End
    /\ UNCHANGED <<environment, requestVars, faults>>

Configure ==
    /\ pc = "configure"
    /\ pc' = IF settings.parsed THEN "connect" ELSE "fatal"
    /\ UNCHANGED <<environment, memory, requestVars, faults>>

\* A slip: the endpoint that can be used, whichever that is.
ExporterMade_Any(s) == s.grpc # "unusable" \/ s.http # "unusable"

\* OTLP over gRPC if it has an endpoint, over HTTP if that has one, else stdout.
ExporterMade(s) ==
    IF s.grpc # "unset" THEN s.grpc = "usable" ELSE s.http # "unusable"

\* A slip: the tracer is made by the first who needs it.
NewTracer_Lazy(s) == "none"

NewTracer(s) ==
    IF ~s.tracing THEN "noop" ELSE IF ExporterMade(s) THEN "exporting" ELSE "nil"

\* The ping, then the monitor, the tracer and the server.
Connect ==
    /\ pc = "connect"
    /\ IF dbUp /\ settings.db
       THEN pc' = "discover" /\ tracer' = NewTracer(settings)
       ELSE pc' = "fatal" /\ UNCHANGED tracer
    /\ UNCHANGED <<environment, gauge, scraped, failed, requestVars, faults>>

\* A slip: the certificate is read although no path is set.
HydraClientMade_Always == settings.ca = "good"

\* newHydraHTTPClient
HydraClientMade == settings.ca \in {"unset", "good"}

\* oidc.NewProvider
Discovered == hydraUp /\ settings.hydra

\* A slip: the failed discovery is logged and the server goes on.
AfterDiscovery_Always == "keys"

AfterDiscovery == IF Discovered THEN "keys" ELSE "fatal"

Discover ==
    /\ pc = "discover"
    /\ IF HydraClientMade
       THEN gauge' = (IF Discovered THEN "up" ELSE "down") /\ pc' = AfterDiscovery
       ELSE pc' = "fatal" /\ UNCHANGED gauge
    /\ UNCHANGED <<environment, tracer, scraped, failed, requestVars, faults>>

\* A slip: a pair that cannot be loaded does not end the process.
PairUsable_Any == settings.pair # "ecdsa"

\* A pair that is not RSA panics in the conversion of its key, which ends it too.
PairUsable == settings.pair = "rsa"

\* parseURL drops the error of url.Parse and dereferences the nil it came with: the
\* panic is in no handler and ends the process.
URLsParsed == settings.baseURL

LoadKeys ==
    /\ pc = "keys"
    /\ pc' = IF PairUsable /\ URLsParsed THEN "listen" ELSE "fatal"
    /\ UNCHANGED <<environment, memory, requestVars, faults>>

Listen ==
    /\ pc = "listen"
    /\ pc' = IF settings.portFree THEN "serving" ELSE "fatal"
    /\ UNCHANGED <<environment, memory, requestVars, faults>>

-----------------------------------------------------------------------------
(* Requests *)

Arrive(r, k) ==
    /\ pc = "serving" /\ served[r] = "none"
    /\ kind' = [kind EXCEPT ![r] = k]
    /\ served' = [served EXCEPT ![r] = "arrived"]
    /\ UNCHANGED <<environment, pc, memory, faults>>

\* Tracer.Start calls the tracer it holds.
Panics(r) == kind[r] \in Traced /\ tracer = "nil"

\* How the exchange of a callback ends, if it comes to one.  It fails while Hydra is up
\* as well, over a code that is spent, a secret that is wrong or a browser that has left,
\* and an answer that was on its way arrives after an outage has begun.
Exchanges(r) ==
    IF kind[r] = "callback" /\ ~Panics(r) THEN {"none", "failed", "answered"} ELSE {"none"}

\* The callback sets the gauge by the outcome of its exchange; a scrape reads it.
Handle(r) ==
    \E o \in Exchanges(r) :
        /\ served[r] = "arrived"
        /\ served' = [served EXCEPT ![r] = IF Panics(r) THEN "panicked" ELSE "answered"]
        /\ gauge' = CASE o = "failed" -> "down" [] o = "answered" -> "up" [] OTHER -> gauge
        /\ failed' = (failed \/ o = "failed")
        /\ scraped' = scraped \cup (IF kind[r] = "metrics" THEN {gauge} ELSE {})
        /\ UNCHANGED <<environment, pc, tracer, kind, faults>>

-----------------------------------------------------------------------------
(* The environment *)

Outage ==
    /\ Fault
    /\ \/ dbUp /\ dbUp' = FALSE /\ UNCHANGED hydraUp
       \/ hydraUp /\ hydraUp' = FALSE /\ UNCHANGED dbUp
    /\ UNCHANGED <<settings, pc, memory, requestVars>>

Repair ==
    /\ ~(dbUp /\ hydraUp)
    /\ dbUp' = TRUE /\ hydraUp' = TRUE
    /\ UNCHANGED <<settings, pc, memory, requestVars, faults>>

\* The process is killed: its requests are cut off.
Crash ==
    /\ pc # "dead"
    /\ Fault
    /\ End
    /\ served' = [r \in Requests |-> IF served[r] = "arrived" THEN "cut" ELSE served[r]]
    /\ UNCHANGED <<environment, kind>>

\* It serves, and every request is over.
Rest ==
    /\ pc = "serving" /\ dbUp /\ hydraUp
    /\ \A r \in Requests : served[r] \notin {"none", "arrived"}
    /\ UNCHANGED vars

Run == Launch \/ Exit \/ Configure \/ Connect \/ Discover \/ LoadKeys \/ Listen

Next ==
    \/ Run
    \/ \E r \in Requests, k \in Kinds : Arrive(r, k)
    \/ \E r \in Requests : Handle(r)
    \/ Outage \/ Repair \/ Crash
    \/ Rest

Spec == Init /\ [][Next]_vars

\* A process runs on, a dead one is started again, handlers return, and the database
\* and Hydra are repaired.
FairSpec ==
    /\ Spec
    /\ WF_vars(Run) /\ WF_vars(Repair)
    /\ \A r \in Requests : WF_vars(Handle(r))

-----------------------------------------------------------------------------
(* Properties *)

\* What a process must be given: all but the tracing settings.
Sufficient(s) ==
    /\ s.parsed /\ s.db /\ s.hydra /\ s.baseURL
    /\ s.ca \in {"unset", "good"} /\ s.pair = "rsa" /\ s.portFree

\* A process that lacks a setting it needs never comes to serve a request: it does not
\* answer with half of its parts (serve.go 56-111, server.go 70-131, 531-534).
ServesWhenSufficient == pc = "serving" => Sufficient(settings)

\* A scrape is told of Hydra's state, always, and that it is down only after an exchange
\* of this very process has failed: discovery marks it down at line 85 and ends the
\* process, so nobody can read that.
ScrapeTells == "unset" \notin scraped /\ ("down" \in scraped => failed)

Untraceable(s) ==
    s.tracing /\ (s.grpc = "unusable" \/ (s.grpc = "unset" /\ s.http = "unusable"))

\* A server whose exporter could not be made serves all the same, and panics in every
\* callback and registration, so that no login can end; with any other setting none
\* panics (tracer.go 162-165, 115). The gauge and the probes of a deployment show nothing.
PanicsWhenUntraceable ==
    \A r \in Requests :
        /\ served[r] = "panicked" => Untraceable(settings)
        /\ served[r] = "answered" /\ kind[r] \in Traced => ~Untraceable(settings)

\* With the settings it needs the server comes to serve and stays, once the faults are
\* over: whatever was down when it was started, it is started again.
ServesInTheEnd == Sufficient(settings) => <>[](pc = "serving")
=============================================================================
