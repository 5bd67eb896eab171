---------------------------- MODULE Startup_proofs ----------------------------
(***************************************************************************)
(* The safety of Startup, for any settings, requests and faults.           *)
(***************************************************************************)
EXTENDS Startup, TLAPS

Up == {"keys", "listen", "serving"}

\* How far the process is tells which settings it has found to be right, what its
\* tracer is and that the gauge has been set.
Stage ==
    /\ pc \in {"connect", "discover"} \cup Up => settings.parsed
    /\ pc \in {"discover"} \cup Up => settings.db
    /\ pc \in Up => settings.hydra /\ settings.ca \in {"unset", "good"} /\ gauge # "unset"
    /\ pc \in {"listen", "serving"} => settings.pair = "rsa" /\ settings.baseURL
    /\ pc = "serving" => settings.portFree
    /\ pc \in {"discover"} \cup Up => tracer = NewTracer(settings)
    /\ pc \in Up /\ gauge = "down" => failed
    /\ pc # "serving" => scraped = {}

RequestInv ==
    \A r \in Requests :
        /\ served[r] = "arrived" => pc = "serving"
        /\ served[r] = "panicked" => Untraceable(settings)
        /\ served[r] = "answered" /\ kind[r] \in Traced => ~Untraceable(settings)

Inv == TypeOK /\ Stage /\ RequestInv /\ ScrapeTells

\* A tracer is missing exactly where the endpoint that is chosen cannot be used.
LEMMA NilTracer ==
    ASSUME NEW s \in AllSettings
    PROVE  /\ NewTracer(s) \in {"noop", "exporting", "nil"}
           /\ NewTracer(s) = "nil" <=> Untraceable(s)
BY DEF NewTracer, ExporterMade, Untraceable, AllSettings, Endpoints

LEMMA InitInv == Init => Inv
<1> SUFFICES ASSUME Init PROVE Inv
  OBVIOUS
<1>1. TypeOK
  BY DEF Init, TypeOK
<1>2. Stage
  BY DEF Init, Stage, Up
<1>3. RequestInv
  BY DEF Init, RequestInv
<1>4. ScrapeTells
  BY DEF Init, ScrapeTells
<1>5. QED
  BY <1>1, <1>2, <1>3, <1>4 DEF Inv

\* The steps of serve leave the requests alone, of which none is in flight.
LEMMA RunInv ==
    ASSUME Inv, Run
    PROVE  Inv'
<1>1. settings \in AllSettings /\ settings' = settings /\ faults' = faults
  BY StartupAssumption
  DEF Inv, TypeOK, Run, Launch, Exit, Configure, Connect, Discover, LoadKeys, Listen, environment
<1>2. UNCHANGED <<kind, served, dbUp, hydraUp>> /\ pc # "serving"
  BY DEF Run, Launch, Exit, Configure, Connect, Discover, LoadKeys, Listen, environment,
     requestVars
<1>3. RequestInv'
  BY <1>1, <1>2 DEF Inv, RequestInv, Untraceable
<1>4. \/ scraped' = scraped /\ failed' = failed
      \/ scraped' = {}
  BY DEF Run, Launch, Exit, End, Configure, Connect, Discover, LoadKeys, Listen, memory
<1>5. ScrapeTells'
  BY <1>4 DEF Inv, ScrapeTells
<1>6. TypeOK' /\ Stage'
  <2>1. CASE Launch
    BY <1>1, <1>2, <2>1 DEF Launch, Inv, TypeOK, Stage, Up, memory
  <2>2. CASE Exit
    BY <1>1, <1>2, <2>2 DEF Exit, End, Inv, TypeOK, Stage, Up
  <2>3. CASE Configure
    BY <1>1, <1>2, <2>3 DEF Configure, Inv, TypeOK, Stage, Up, memory
  <2>4. CASE Connect
    <3>1. NewTracer(settings) \in {"noop", "exporting", "nil"}
      BY <1>1, NilTracer
    <3>2. NewTracer(settings)' = NewTracer(settings)
      BY <1>1 DEF NewTracer, ExporterMade
    <3>3. QED
      BY <1>1, <1>2, <2>4, <3>1, <3>2 DEF Connect, Inv, TypeOK, Stage, Up
  <2>5. CASE Discover
    <3>1. NewTracer(settings)' = NewTracer(settings)
      BY <1>1 DEF NewTracer, ExporterMade
    <3>2. QED
      BY <1>1, <1>2, <2>5, <3>1
      DEF Discover, AfterDiscovery, Discovered, HydraClientMade, Inv, TypeOK, Stage, Up
  <2>6. CASE LoadKeys
    <3>1. NewTracer(settings)' = NewTracer(settings)
      BY <1>1 DEF NewTracer, ExporterMade
    <3>2. QED
      BY <1>1, <1>2, <2>6, <3>1 DEF LoadKeys, PairUsable, URLsParsed, Inv, TypeOK, Stage, Up, memory
  <2>7. CASE Listen
    <3>1. NewTracer(settings)' = NewTracer(settings)
      BY <1>1 DEF NewTracer, ExporterMade
    <3>2. QED
      BY <1>1, <1>2, <2>7, <3>1 DEF Listen, Inv, TypeOK, Stage, Up, memory
  <2>8. QED
    BY <2>1, <2>2, <2>3, <2>4, <2>5, <2>6, <2>7 DEF Run
<1>7. QED
  BY <1>3, <1>5, <1>6 DEF Inv

\* A request comes and is handled in a process that goes on.
LEMMA ServeInv ==
    ASSUME Inv, NEW r \in Requests, Handle(r) \/ \E k \in Kinds : Arrive(r, k)
    PROVE  Inv'
<1>1. settings \in AllSettings /\ settings' = settings /\ faults' = faults /\ pc' = pc
      /\ dbUp' = dbUp /\ hydraUp' = hydraUp /\ tracer' = tracer
  BY StartupAssumption DEF Inv, TypeOK, Arrive, Handle, environment, memory
<1>2. pc = "serving" /\ tracer = NewTracer(settings)
  <2>1. served[r] = "arrived" \/ pc = "serving"
    BY DEF Handle, Arrive
  <2>2. pc = "serving"
    BY <2>1 DEF Inv, RequestInv
  <2>3. QED
    BY <2>2 DEF Inv, Stage, Up
<1>3. NewTracer(settings)' = NewTracer(settings)
  BY <1>1 DEF NewTracer, ExporterMade
<1>4. tracer = "nil" <=> Untraceable(settings)
  BY <1>1, <1>2, NilTracer
<1>5. Untraceable(settings)' <=> Untraceable(settings)
  BY <1>1 DEF Untraceable
<1>6. ASSUME NEW k \in Kinds, Arrive(r, k) PROVE Inv'
  <2>1. TypeOK' /\ Stage'
    BY <1>1, <1>3, <1>6 DEF Arrive, Inv, TypeOK, Stage, Up, memory
  <2>2. RequestInv'
    BY <1>2, <1>5, <1>6 DEF Arrive, Inv, TypeOK, RequestInv
  <2>3. ScrapeTells'
    BY <1>6 DEF Arrive, Inv, ScrapeTells, memory
  <2>4. QED
    BY <2>1, <2>2, <2>3 DEF Inv
<1>7. CASE Handle(r)
  <2>1. gauge \in {"up", "down"} /\ (gauge = "down" => failed) /\ failed \in BOOLEAN
    BY <1>2 DEF Inv, TypeOK, Stage, Up
  <2>2. PICK o \in {"none", "failed", "answered"} :
          /\ gauge' = CASE o = "failed" -> "down" [] o = "answered" -> "up" [] OTHER -> gauge
          /\ failed' = (failed \/ o = "failed")
    BY <1>7 DEF Handle, Exchanges
  <2>3. gauge' \in {"up", "down"} /\ (gauge' = "down" => o = "failed" \/ gauge = "down")
    BY <2>1, <2>2
  <2>4. failed' \in BOOLEAN /\ (failed => failed') /\ (o = "failed" => failed')
    BY <2>1, <2>2
  <2>5. scraped' \in {scraped, scraped \cup {gauge}}
    BY <1>7 DEF Handle
  <2>6. served' \in [Requests -> {"none", "arrived", "answered", "panicked", "cut"}]
        /\ kind' = kind
    BY <1>7 DEF Handle, Inv, TypeOK
  <2>7. TypeOK'
    BY <1>1, <2>1, <2>3, <2>4, <2>5, <2>6 DEF Inv, TypeOK
  <2>8. Stage'
    BY <1>1, <1>2, <1>3, <2>1, <2>3, <2>4 DEF Inv, Stage, Up
  <2>9. RequestInv'
    BY <1>2, <1>4, <1>5, <1>7 DEF Handle, Panics, Inv, TypeOK, RequestInv
  <2>10. ScrapeTells'
    BY <2>1, <2>4, <2>5 DEF Inv, ScrapeTells
  <2>11. QED
    BY <2>7, <2>8, <2>9, <2>10 DEF Inv
<1>8. QED
  BY <1>6, <1>7

\* Outages and repairs change nothing of the process, and a crash leaves nothing of it.
LEMMA EnvironmentInv ==
    ASSUME Inv, Outage \/ Repair \/ Crash
    PROVE  Inv'
<1>1. /\ settings' = settings /\ settings \in AllSettings /\ faults' \in Nat
      /\ dbUp' \in BOOLEAN /\ hydraUp' \in BOOLEAN
  <2>1. dbUp \in BOOLEAN /\ hydraUp \in BOOLEAN
    BY DEF Inv, TypeOK
  <2>2. CASE Outage
    <3>1. (dbUp' = FALSE /\ UNCHANGED hydraUp) \/ (hydraUp' = FALSE /\ UNCHANGED dbUp)
      BY <2>2 DEF Outage
    <3>2. dbUp' \in BOOLEAN /\ hydraUp' \in BOOLEAN
      BY <2>1, <3>1
    <3>3. QED
      BY <2>2, <3>2, StartupAssumption DEF Outage, Fault, Inv, TypeOK
  <2>3. CASE Repair
    BY <2>3, StartupAssumption DEF Repair, Inv, TypeOK
  <2>4. CASE Crash
    BY <2>1, <2>4, StartupAssumption DEF Crash, Fault, environment, Inv, TypeOK
  <2>5. QED
    BY <2>2, <2>3, <2>4
<1>2. NewTracer(settings)' = NewTracer(settings)
      /\ (Untraceable(settings)' <=> Untraceable(settings))
  BY <1>1 DEF NewTracer, ExporterMade, Untraceable
<1>3. CASE Outage \/ Repair
  <2>1. UNCHANGED <<pc, gauge, tracer, scraped, failed, kind, served>>
    BY <1>3 DEF Outage, Repair, memory, requestVars
  <2>2. QED
    BY <1>1, <1>2, <2>1 DEF Inv, TypeOK, Stage, RequestInv, ScrapeTells
<1>4. CASE Crash
  <2>1. served' \in [Requests -> {"none", "answered", "panicked", "cut"}]
        /\ \A r \in Requests : served'[r] \in {"answered", "panicked"} => served'[r] = served[r]
    BY <1>4 DEF Crash, Inv, TypeOK
  <2>2. TypeOK'
    BY <1>1, <1>4, <2>1 DEF Crash, End, environment, Inv, TypeOK
  <2>3. Stage'
    BY <1>4 DEF Crash, End, Stage, Up
  <2>4. RequestInv'
    BY <1>2, <1>4, <2>1 DEF Crash, Inv, RequestInv
  <2>5. ScrapeTells'
    BY <1>4 DEF Crash, End, ScrapeTells
  <2>6. QED
    BY <2>2, <2>3, <2>4, <2>5 DEF Inv
<1>5. QED
  BY <1>3, <1>4

LEMMA Invariance == Spec => []Inv
<1>1. Inv /\ [Next]_vars => Inv'
  <2> SUFFICES ASSUME Inv, [Next]_vars PROVE Inv'
    OBVIOUS
  <2>1. CASE UNCHANGED vars
    BY <2>1
    DEF vars, environment, memory, requestVars, Inv, TypeOK, Stage, RequestInv, ScrapeTells,
        NewTracer, ExporterMade, Untraceable
  <2>2. QED
    BY <2>1, RunInv, ServeInv, EnvironmentInv DEF Next, Rest
<1>2. QED
  BY <1>1, InitInv, PTL DEF Spec

\* Every reachable state is well typed; a process past its discovery has set its gauge.
THEOREM TypeCorrect == Spec => []TypeOK
BY Invariance, PTL DEF Inv

\* A server that serves has been given all that it needs, whatever failed before.
THEOREM ServesWhenSufficientCorrect == Spec => []ServesWhenSufficient
<1>1. Inv => ServesWhenSufficient
  BY DEF Inv, Stage, Up, ServesWhenSufficient, Sufficient
<1>2. QED
  BY <1>1, Invariance, PTL

\* What a scrape is told of Hydra is set, and is down only after an exchange failed.
THEOREM ScrapeTellsCorrect == Spec => []ScrapeTells
BY Invariance, PTL DEF Inv

\* The traced requests panic, all of them, where the chosen exporter endpoint cannot be
\* used, and nowhere else.
THEOREM PanicsWhenUntraceableCorrect == Spec => []PanicsWhenUntraceable
<1>1. Inv => PanicsWhenUntraceable
  BY DEF Inv, RequestInv, PanicsWhenUntraceable
<1>2. QED
  BY <1>1, Invariance, PTL
=============================================================================
