------------------------- MODULE Registration_proofs -------------------------
(***************************************************************************)
(* Theorems about Registration, for any attempts, command lines, requests  *)
(* and faults.                                                             *)
(***************************************************************************)
EXTENDS Registration, TLAPS

-----------------------------------------------------------------------------
(* Type correctness *)

\* The command sends a well-typed request.
LEMMA AddRequestType ==
    ASSUME NEW l \in CommandLines, ~FailsAtOnce(l)
    PROVE  l \in Lines /\ AddRequest(l) \in Bodies
<1>1. l \in Lines
  BY RegistrationAssumption
<1>2. MappingOf(l) \in Mappings
  BY <1>1, RegistrationAssumption DEF FailsAtOnce, MappingOf, Lines
<1>3. QED
  BY <1>1, <1>2 DEF AddRequest, Bodies, Lines

\* What an acceptable request registers is a row of an entity.
LEMMA RegisteredType ==
    ASSUME NEW body \in Bodies, Acceptable(body)
    PROVE  /\ body.entity \in EntityIds
           /\ Registered(body) \in Configs /\ Registered(body) # Unregistered
           /\ Sound(Registered(body))
<1>1. body.entity \in EntityIds /\ body.acs \in AcsUrls /\ body.mapping \in Mappings
  BY DEF Acceptable, Bodies
<1>2. Decoded(body) \in Mappings
  BY <1>1, RegistrationAssumption DEF Decoded
<1>3. (IF body.binding = Blank THEN "POST" ELSE body.binding) \in Bindings
  BY DEF Acceptable, Bindings
<1>4. Registered(body) \in Configs
  BY <1>1, <1>2, <1>3 DEF Registered, Configs
<1>5. Sound(Registered(body))
  BY <1>3 DEF Registered, Sound, Acceptable, ValidAcs
<1>6. QED
  BY <1>1, <1>4, <1>5, NoSuchConfig

\* An attempt that the server is at work on has been begun.
Begun(a) == handler[a] # "none" => told[a] # "nothing"

LEMMA NextBegun ==
    ASSUME TypeOK, NEW a \in Attempts, Begun(a), [Next]_vars
    PROVE  Begun(a)'
BY DEF TypeOK, Begun, Next, Run, RunFails, Post, Begin, Send, Hear, GiveUp, Validate, Save,
   SaveFails, Crash, LateCommit, Rest, vars, serverVars, clientVars, AtWork

\* What may still be committed.
MaySave(a) == handler[a] = "saving" \/ a \in adrift

\* What is being saved has been found acceptable, and what is adrift has no handler.
Checked(a) ==
    /\ handler[a] # "none" => request[a] \in Bodies
    /\ handler[a] = "created" \/ MaySave(a) => Acceptable(request[a])
    /\ a \in adrift => handler[a] = "failed"
    /\ Begun(a)

CheckedInv == \A a \in Attempts : Checked(a)

LEMMA InitTypeOK == Init => TypeOK /\ CheckedInv
BY RegistrationAssumption DEF Init, TypeOK, CheckedInv, Checked, MaySave, Begun, AtWork

LEMMA CommitType ==
    ASSUME TypeOK, CheckedInv, NEW a \in Attempts, MaySave(a), Commit(a)
    PROVE  /\ request[a] \in Bodies /\ Acceptable(request[a])
           /\ request[a].entity \in EntityIds
           /\ serviceProviders' = [serviceProviders EXCEPT ![request[a].entity] =
                                                            Registered(request[a])]
           /\ serviceProviders' \in [EntityIds -> Configs \cup {Unregistered}]
           /\ wrote' = [wrote EXCEPT ![a] = Registered(request[a])]
           /\ wrote' \in [Attempts -> Configs \cup {Unregistered}]
           /\ last' = [last EXCEPT ![request[a].entity] = a]
           /\ last' \in [EntityIds -> Attempts \cup {NoAttempt}]
<1>1. request[a] \in Bodies /\ Acceptable(request[a])
  BY DEF CheckedInv, Checked, MaySave, Begun
<1>2. request[a].entity \in EntityIds /\ Registered(request[a]) \in Configs
  BY <1>1, RegisteredType
<1>3. serviceProviders' = [serviceProviders EXCEPT ![request[a].entity] = Registered(request[a])]
  BY DEF Commit, DB!SaveServiceProvider
<1>4. serviceProviders'[request[a].entity] = Registered(request[a])
  BY <1>2, <1>3 DEF TypeOK
<1>5. wrote' = [wrote EXCEPT ![a] = Registered(request[a])]
  BY <1>4 DEF Commit
<1>6. last' = [last EXCEPT ![request[a].entity] = a]
  BY DEF Commit
<1>7. QED
  BY <1>1, <1>2, <1>3, <1>5, <1>6 DEF TypeOK

LEMMA NextTypeOK == TypeOK /\ CheckedInv /\ [Next]_vars => TypeOK' /\ CheckedInv'
<1> SUFFICES ASSUME TypeOK, CheckedInv, [Next]_vars PROVE TypeOK' /\ CheckedInv'
  OBVIOUS
<1>1. ASSUME NEW a \in Attempts, Begin(a)
      PROVE  /\ before' \in [Attempts -> SUBSET Attempts] /\ handler[a] = "none"
             /\ UNCHANGED <<serviceProviders, wrote, last, adrift, abandoned>>
  BY <1>1 DEF Begin, TypeOK, tableVars, CheckedInv, Checked, Begun
<1>2. ASSUME NEW a \in Attempts, NEW body \in Bodies, Send(a, body)
      PROVE  /\ request' \in [Attempts -> Bodies \cup {NoRequest}]
             /\ handler' \in [Attempts -> {"none", "rejected", "created", "failed"} \cup AtWork]
             /\ told' \in [Attempts -> {"nothing", "waiting"} \cup Over]
             /\ adrift' = adrift /\ handler[a] = "none" => CheckedInv'
  <2>1. /\ request' = [request EXCEPT ![a] = body] /\ told' = [told EXCEPT ![a] = "waiting"]
        /\ handler' = [handler EXCEPT ![a] = "received"]
    BY <1>2 DEF Send
  <2>2. ASSUME adrift' = adrift, handler[a] = "none" PROVE CheckedInv'
    BY <2>1, <2>2 DEF TypeOK, CheckedInv, Checked, MaySave, Begun
  <2>3. QED
    BY <2>1, <2>2 DEF TypeOK, AtWork
<1>3. ASSUME NEW a \in Attempts, NEW l \in CommandLines, Run(a, l)
      PROVE  TypeOK' /\ CheckedInv'
  <2>1. l \in Lines /\ AddRequest(l) \in Bodies
    BY <1>3, AddRequestType DEF Run
  <2>2. line' \in [Attempts -> Lines \cup {NoLine}] /\ faults' = faults
    BY <1>3, <2>1 DEF Run, TypeOK
  <2>3. QED
    BY <1>1, <1>2, <1>3, <2>1, <2>2 DEF Run, TypeOK
<1>4. ASSUME NEW a \in Attempts, NEW l \in CommandLines, RunFails(a, l)
      PROVE  TypeOK' /\ CheckedInv'
  <2>1. l \in Lines
    BY RegistrationAssumption
  <2>2. line' \in [Attempts -> Lines \cup {NoLine}] /\ faults' \in Nat
    BY <1>4, <2>1 DEF RunFails, TypeOK, Fault
  <2>3. told' \in [Attempts -> {"nothing", "waiting"} \cup Over]
    BY <1>4 DEF RunFails, TypeOK, Over
  <2>4. QED
    BY <1>1, <1>4, <2>2, <2>3 DEF RunFails, TypeOK, CheckedInv, Checked, MaySave, Begun
<1>5. ASSUME NEW a \in Attempts, NEW body \in Posts, Post(a, body)
      PROVE  TypeOK' /\ CheckedInv'
  <2>1. body \in Bodies
    BY RegistrationAssumption
  <2>2. QED
    BY <1>1, <1>2, <1>5, <2>1 DEF Post, TypeOK
<1>6. ASSUME NEW a \in Attempts, Hear(a) \/ GiveUp(a) PROVE TypeOK' /\ CheckedInv'
  <2>1. told' \in [Attempts -> {"nothing", "waiting"} \cup Over] /\ abandoned' \subseteq Attempts
    BY <1>6 DEF Hear, GiveUp, TypeOK, Over
  <2>2. QED
    BY <1>6, <2>1 DEF Hear, GiveUp, TypeOK, tableVars, serverVars, CheckedInv, Checked,
       MaySave, Begun
<1>7. ASSUME NEW a \in Attempts, Validate(a) PROVE TypeOK' /\ CheckedInv'
  <2>1. TypeOK'
    BY <1>7 DEF Validate, TypeOK, tableVars, clientVars, AtWork
  <2>2. CheckedInv'
    BY <1>7 DEF Validate, TypeOK, clientVars, CheckedInv, Checked, MaySave, Begun
  <2>3. QED
    BY <2>1, <2>2
<1>8. ASSUME NEW a \in Attempts, Save(a) \/ SaveFails(a) \/ LateCommit(a)
      PROVE  TypeOK' /\ CheckedInv'
  <2>1. /\ serviceProviders' \in [EntityIds -> Configs \cup {Unregistered}]
        /\ wrote' \in [Attempts -> Configs \cup {Unregistered}]
        /\ last' \in [EntityIds -> Attempts \cup {NoAttempt}]
    BY <1>8, CommitType DEF Save, SaveFails, LateCommit, MaySave, tableVars, TypeOK
  <2>2. CASE Save(a)
    BY <2>1, <2>2 DEF Save, TypeOK, clientVars, CheckedInv, Checked, MaySave, Begun
  <2>3. CASE SaveFails(a)
    BY <2>1, <2>3 DEF SaveFails, Fault, TypeOK, clientVars, CheckedInv, Checked, MaySave, Begun
  <2>4. CASE LateCommit(a)
    BY <2>1, <2>4
    DEF LateCommit, TypeOK, clientVars, serverVars, CheckedInv, Checked, MaySave, Begun
  <2>5. QED
    BY <1>8, <2>2, <2>3, <2>4
<1>9. CASE Crash
  <2>1. PICK sent \in SUBSET {a \in Attempts : handler[a] = "saving"} :
           adrift' = adrift \cup sent
    BY <1>9 DEF Crash
  <2>2. TypeOK'
    BY <1>9, <2>1 DEF Crash, Fault, TypeOK, tableVars, clientVars
  <2>3. CheckedInv'
    BY <1>9, <2>1 DEF Crash, clientVars, CheckedInv, Checked, MaySave, Begun, AtWork
  <2>4. QED
    BY <2>2, <2>3
<1>10. CASE UNCHANGED vars
  BY <1>10 DEF vars, tableVars, clientVars, serverVars, TypeOK, CheckedInv, Checked,
     MaySave, Begun
<1>11. QED
  BY <1>3, <1>4, <1>5, <1>6, <1>7, <1>8, <1>9, <1>10 DEF Next, Rest

\* Every reachable state is well typed.
THEOREM TypeCorrect == Spec => []TypeOK
<1>1. TypeOK /\ CheckedInv /\ [Next]_vars => TypeOK' /\ CheckedInv'
  BY NextTypeOK
<1>2. QED
  BY <1>1, InitTypeOK, PTL DEF Spec

\* What is written down as saved was acceptable, in every state.
LEMMA CheckedCorrect == Spec => [](TypeOK /\ CheckedInv)
BY NextTypeOK, InitTypeOK, PTL DEF Spec

\* The steps that write the table are those that save.
LEMMA OnlySavesWrite ==
    ASSUME [Next]_vars
    PROVE  \/ UNCHANGED tableVars
           \/ \E a \in Attempts : (Save(a) \/ LateCommit(a)) /\ MaySave(a) /\ Commit(a)
BY DEF Next, Run, RunFails, Post, Begin, Hear, GiveUp, Validate, Save, SaveFails,
     Crash, LateCommit, Rest, MaySave, vars, serverVars, tableVars, clientVars

\* Whatever is posted, and whatever fails, the table changes by sound registrations only.
THEOREM OnlyRegistersCorrect == Spec => OnlyRegisters
<1>1. TypeOK /\ CheckedInv /\ [Next]_vars => [Registers]_serviceProviders
  <2> SUFFICES ASSUME TypeOK, CheckedInv, [Next]_vars, serviceProviders' # serviceProviders
               PROVE  Registers
    OBVIOUS
  <2>1. PICK a \in Attempts : MaySave(a) /\ Commit(a)
    BY OnlySavesWrite DEF tableVars
  <2>2. request[a] \in Bodies /\ Acceptable(request[a])
    BY <2>1, CommitType
  <2>3. /\ request[a].entity \in EntityIds
        /\ Registered(request[a]) \in Configs /\ Sound(Registered(request[a]))
    BY <2>2, RegisteredType
  <2>4. QED
    BY <2>1, <2>3 DEF Registers, Commit
<1>2. QED
  BY <1>1, CheckedCorrect, PTL DEF Spec, OnlyRegisters

-----------------------------------------------------------------------------
(* The row of an entity *)

\* What has been written stays known, and so does what it was written from.
LEMMA RequestStays ==
    ASSUME TypeOK, [Next]_vars, NEW a \in Attempts, told[a] # "nothing"
    PROVE  request'[a] = request[a] /\ told'[a] # "nothing"
BY DEF TypeOK, Next, Run, RunFails, Post, Begin, Send, Hear, GiveUp, Validate, Save, SaveFails,
   Crash, LateCommit, Rest, vars, serverVars, clientVars

\* Who wrote the row of e, and from what.
RowOf(e) ==
    IF last[e] = NoAttempt THEN serviceProviders[e] = Unregistered
    ELSE /\ told[last[e]] # "nothing"
         /\ request[last[e]].entity = e
         /\ wrote[last[e]] = serviceProviders[e]
         /\ serviceProviders[e] = Registered(request[last[e]])

RowInv == \A e \in EntityIds : RowOf(e)

LEMMA NextRowInv == TypeOK /\ CheckedInv /\ RowInv /\ [Next]_vars => RowInv'
<1> SUFFICES ASSUME TypeOK, CheckedInv, RowInv, [Next]_vars PROVE RowInv'
  OBVIOUS
<1>1. ASSUME NEW e \in EntityIds PROVE RowOf(e)'
  <2>1. RowOf(e) /\ (last[e] = NoAttempt \/ last[e] \in Attempts)
    BY DEF RowInv, TypeOK
  <2>2. CASE UNCHANGED tableVars
    <3>1. CASE last[e] = NoAttempt
      BY <2>1, <2>2, <3>1 DEF RowOf, tableVars
    <3>2. CASE last[e] # NoAttempt
      <4>1. told[last[e]] # "nothing"
        BY <2>1, <3>2 DEF RowOf
      <4>2. request'[last[e]] = request[last[e]] /\ told'[last[e]] # "nothing"
        BY <2>1, <3>2, <4>1, RequestStays
      <4>3. QED
        BY <2>1, <2>2, <3>2, <4>2 DEF RowOf, tableVars, Registered, Decoded
    <3>3. QED
      BY <3>1, <3>2
  <2>3. ASSUME NEW a \in Attempts, MaySave(a), Commit(a) PROVE RowOf(e)'
    <3>1. /\ serviceProviders' = [serviceProviders EXCEPT ![request[a].entity] =
                                                           Registered(request[a])]
          /\ wrote' = [wrote EXCEPT ![a] = Registered(request[a])]
          /\ last' = [last EXCEPT ![request[a].entity] = a]
          /\ request[a].entity \in EntityIds
      BY <2>3, CommitType
    <3>2. told[a] # "nothing" /\ a # NoAttempt
      BY <2>3, RegistrationAssumption DEF CheckedInv, Checked, MaySave, Begun
    <3>3. request'[a] = request[a] /\ told'[a] # "nothing"
      BY <3>2, RequestStays
    <3>4. CASE request[a].entity = e
      BY <3>1, <3>2, <3>3, <3>4 DEF RowOf, TypeOK, Registered, Decoded
    <3>5. CASE request[a].entity # e
      <4>1. serviceProviders'[e] = serviceProviders[e] /\ last'[e] = last[e]
        BY <3>1, <3>5 DEF TypeOK
      <4>2. CASE last[e] = NoAttempt
        BY <2>1, <4>1, <4>2 DEF RowOf
      <4>3. CASE last[e] # NoAttempt
        <5>1. last[e] \in Attempts /\ last[e] # a /\ told[last[e]] # "nothing"
          BY <2>1, <3>5, <4>3 DEF RowOf
        <5>2. request'[last[e]] = request[last[e]] /\ told'[last[e]] # "nothing"
          BY <5>1, RequestStays
        <5>3. wrote'[last[e]] = wrote[last[e]]
          BY <3>1, <5>1 DEF TypeOK
        <5>4. QED
          BY <2>1, <4>1, <4>3, <5>2, <5>3 DEF RowOf, Registered, Decoded
      <4>4. QED
        BY <4>2, <4>3
    <3>6. QED
      BY <3>4, <3>5
  <2>4. QED
    BY <2>2, <2>3, OnlySavesWrite
<1>2. QED
  BY <1>1 DEF RowInv

\* The row of an entity is the registration of one attempt, the last one saved.
THEOREM RowOfOneAttemptCorrect == Spec => []RowOfOneAttempt
<1>1. Init => RowInv
  BY DEF Init, RowInv, RowOf
<1>2. RowInv => RowOfOneAttempt
  BY DEF RowInv, RowOf, RowOfOneAttempt
<1>3. QED
  BY <1>1, <1>2, NextRowInv, CheckedCorrect, PTL DEF Spec
-----------------------------------------------------------------------------
(* What clients are told *)

\* A client that is told of success has a row of its own, written from what was
\* sent for the options it was given.
Honest(a) ==
    /\ told[a] = "registered" => handler[a] = "created"
    /\ handler[a] = "created" => wrote[a] = Registered(request[a])
    /\ told[a] = "nothing" => line[a] = NoLine
    /\ handler[a] # "none" /\ line[a] # NoLine =>
          line[a] \in CommandLines /\ ~FailsAtOnce(line[a]) /\ request[a] = AddRequest(line[a])

HonestInv == \A a \in Attempts : Honest(a)

\* An attempt that has been begun keeps its request, its line and, if the server is done
\* with it, its outcome.
LEMMA QuietHonest ==
    ASSUME NEW a \in Attempts, Honest(a), request'[a] = request[a], line'[a] = line[a],
           handler'[a] = handler[a], wrote'[a] = wrote[a],
           told'[a] = told[a] \/ told'[a] = "failed"
    PROVE  Honest(a)'
BY DEF Honest, Registered, Decoded, AddRequest, MappingOf, FailsAtOnce

LEMMA NextHonestInv == TypeOK /\ CheckedInv /\ HonestInv /\ [Next]_vars => HonestInv'
<1> SUFFICES ASSUME TypeOK, CheckedInv, HonestInv, [Next]_vars, NEW a \in Attempts
             PROVE  Honest(a)'
  BY DEF HonestInv
<1>1. Honest(a) /\ Begun(a)
  BY DEF HonestInv, CheckedInv, Checked
<1>2. ASSUME NEW b \in Attempts, NEW l \in CommandLines, Run(b, l) PROVE Honest(a)'
  <2>1. CASE a # b
    BY <1>1, <1>2, <2>1, QuietHonest DEF Run, Begin, Send, tableVars, TypeOK
  <2>2. CASE a = b
    <3>1. /\ line'[a] = l /\ request'[a] = AddRequest(l) /\ handler'[a] = "received"
          /\ told'[a] = "waiting" /\ ~FailsAtOnce(l)
      BY <1>2, <2>2 DEF Run, Send, TypeOK
    <3>2. QED
      BY <3>1 DEF Honest
  <2>3. QED
    BY <2>1, <2>2
<1>3. ASSUME NEW b \in Attempts, NEW l \in CommandLines, RunFails(b, l) PROVE Honest(a)'
  <2>1. CASE a # b
    BY <1>1, <1>3, <2>1, QuietHonest DEF RunFails, Begin, tableVars, TypeOK
  <2>2. CASE a = b
    <3>1. handler'[a] = "none" /\ told'[a] = "failed"
      BY <1>1, <1>3, <2>2 DEF RunFails, Begin, Begun, TypeOK
    <3>2. QED
      BY <3>1 DEF Honest
  <2>3. QED
    BY <2>1, <2>2
<1>4. ASSUME NEW b \in Attempts, NEW body \in Posts, Post(b, body) PROVE Honest(a)'
  <2>1. CASE a # b
    BY <1>1, <1>4, <2>1, QuietHonest DEF Post, Begin, Send, tableVars, TypeOK
  <2>2. CASE a = b
    <3>1. line'[a] = NoLine /\ handler'[a] = "received" /\ told'[a] = "waiting"
      BY <1>1, <1>4, <2>2 DEF Post, Begin, Send, Honest, TypeOK
    <3>2. QED
      BY <3>1 DEF Honest
  <2>3. QED
    BY <2>1, <2>2
<1>5. ASSUME NEW b \in Attempts, Hear(b) PROVE Honest(a)'
  <2>1. CASE told'[a] = "registered" /\ told[a] # "registered"
    <3>1. handler[a] = "created"
      BY <1>5, <2>1 DEF Hear, Success, TypeOK
    <3>2. /\ request'[a] = request[a] /\ line'[a] = line[a] /\ handler'[a] = handler[a]
          /\ wrote'[a] = wrote[a]
      BY <1>5 DEF Hear, tableVars, serverVars
    <3>3. QED
      BY <1>1, <2>1, <3>1, <3>2 DEF Honest, Registered, Decoded, AddRequest, MappingOf, FailsAtOnce
  <2>2. CASE ~(told'[a] = "registered" /\ told[a] # "registered")
    <3>1. told'[a] = told[a] \/ told'[a] = "failed"
      BY <1>5, <2>2 DEF Hear, TypeOK
    <3>2. QED
      BY <1>1, <1>5, <3>1, QuietHonest DEF Hear, tableVars, serverVars
  <2>3. QED
    BY <2>1, <2>2
<1>6. ASSUME NEW b \in Attempts, GiveUp(b) PROVE Honest(a)'
  BY <1>1, <1>6, QuietHonest DEF GiveUp, tableVars, serverVars, TypeOK
<1>7. ASSUME NEW b \in Attempts, Validate(b) PROVE Honest(a)'
  <2>1. CASE a # b
    BY <1>1, <1>7, <2>1, QuietHonest DEF Validate, tableVars, clientVars, TypeOK
  <2>2. CASE a = b
    <3>1. handler'[a] \in {"saving", "rejected"} /\ handler[a] = "received"
      BY <1>7, <2>2 DEF Validate, TypeOK
    <3>2. request'[a] = request[a] /\ line'[a] = line[a] /\ told'[a] = told[a]
      BY <1>7 DEF Validate, clientVars
    <3>3. QED
      BY <1>1, <3>1, <3>2 DEF Honest, AddRequest, MappingOf, FailsAtOnce
  <2>3. QED
    BY <2>1, <2>2
<1>8. ASSUME NEW b \in Attempts, Save(b) \/ SaveFails(b) \/ LateCommit(b)
      PROVE  Honest(a)'
  <2>1. request'[a] = request[a] /\ line'[a] = line[a] /\ told'[a] = told[a]
    BY <1>8 DEF Save, SaveFails, LateCommit, clientVars
  <2>2. UNCHANGED tableVars \/ Commit(b)
    BY <1>8 DEF Save, SaveFails, LateCommit
  <2>3. wrote' = wrote \/ wrote' = [wrote EXCEPT ![b] = Registered(request[b])]
    BY <1>8, <2>2, CommitType DEF tableVars, Save, SaveFails, LateCommit, MaySave
  <2>4. CASE a # b
    <3>1. handler'[a] = handler[a] /\ wrote'[a] = wrote[a]
      BY <1>8, <2>3, <2>4 DEF Save, SaveFails, LateCommit, serverVars, TypeOK
    <3>2. QED
      BY <1>1, <2>1, <3>1, QuietHonest
  <2>5. CASE a = b /\ Save(b)
    <3>1. handler'[a] = "created" /\ wrote'[a] = Registered(request[a]) /\ handler[a] = "saving"
      BY <2>5, CommitType DEF Save, MaySave, TypeOK
    <3>2. QED
      BY <1>1, <2>1, <3>1 DEF Honest, Registered, Decoded, AddRequest, MappingOf, FailsAtOnce
  <2>6. CASE a = b /\ SaveFails(b)
    <3>1. handler'[a] = "failed" /\ handler[a] = "saving"
      BY <2>6 DEF SaveFails, TypeOK
    <3>2. QED
      BY <1>1, <2>1, <3>1 DEF Honest, AddRequest, MappingOf, FailsAtOnce
  <2>7. CASE a = b /\ LateCommit(b)
    <3>1. handler'[a] = "failed" /\ handler[a] = "failed"
      BY <2>7 DEF LateCommit, serverVars, CheckedInv, Checked
    <3>2. QED
      BY <1>1, <2>1, <3>1 DEF Honest, AddRequest, MappingOf, FailsAtOnce
  <2>8. QED
    BY <1>8, <2>4, <2>5, <2>6, <2>7
<1>9. CASE Crash
  <2>1. /\ request'[a] = request[a] /\ line'[a] = line[a] /\ told'[a] = told[a]
        /\ wrote'[a] = wrote[a]
    BY <1>9 DEF Crash, clientVars, tableVars
  <2>2. handler'[a] = handler[a] \/ (handler'[a] = "failed" /\ handler[a] \in AtWork)
    BY <1>9 DEF Crash
  <2>3. CASE handler'[a] = handler[a]
    BY <1>1, <2>1, <2>3, QuietHonest
  <2>4. CASE handler'[a] = "failed" /\ handler[a] \in AtWork
    BY <1>1, <2>1, <2>4 DEF Honest, AtWork, AddRequest, MappingOf, FailsAtOnce
  <2>5. QED
    BY <2>2, <2>3, <2>4
<1>10. CASE UNCHANGED vars
  BY <1>1, <1>10, QuietHonest DEF vars, tableVars, clientVars, serverVars
<1>11. QED
  BY <1>2, <1>3, <1>4, <1>5, <1>6, <1>7, <1>8, <1>9, <1>10 DEF Next, Rest

LEMMA HonestCorrect == Spec => []HonestInv
<1>1. Init => HonestInv
  BY DEF Init, HonestInv, Honest
<1>2. QED
  BY <1>1, NextHonestInv, CheckedCorrect, PTL DEF Spec

\* The row that the command's options ask for is what the handler makes of its request.
LEMMA RoundTrip ==
    ASSUME NEW l \in CommandLines
    PROVE  Registered(AddRequest(l)) = Asked(l)
<1>1. Decoded(AddRequest(l)) = MappingOf(l)
  BY DEF Decoded, AddRequest
<1>2. MappingOf(l) = IF l.file = NoFile
                     THEN IF l.nameid = NoNameId THEN NoMapping ELSE OnlyNameId[l.nameid]
                     ELSE l.file
  <2>1. CASE l.file # NoFile
    BY <2>1 DEF MappingOf
  <2>2. CASE l.file = NoFile /\ l.nameid # NoNameId
    BY <2>2 DEF MappingOf
  <2>3. CASE l.file = NoFile /\ l.nameid = NoNameId
    BY <2>3 DEF MappingOf
  <2>4. QED
    BY <2>1, <2>2, <2>3
<1>3. QED
  BY <1>1, <1>2 DEF Registered, AddRequest, Asked

\* When the command reports success a row was saved, and it is the one its options
\* describe, whatever other attempts, failures and crashes there were.
THEOREM RegisteredAsAskedCorrect == Spec => []RegisteredAsAsked
<1>1. CheckedInv /\ HonestInv => RegisteredAsAsked
  <2> SUFFICES ASSUME CheckedInv, HonestInv, NEW a \in Attempts, told[a] = "registered"
               PROVE  /\ wrote[a] # Unregistered
                      /\ line[a] # NoLine => wrote[a] = Asked(line[a])
    BY DEF RegisteredAsAsked
  <2>1. handler[a] = "created" /\ wrote[a] = Registered(request[a])
    BY DEF HonestInv, Honest
  <2>2. wrote[a] # Unregistered
    BY <2>1, RegisteredType DEF CheckedInv, Checked
  <2>3. ASSUME line[a] # NoLine PROVE wrote[a] = Asked(line[a])
    BY <2>1, <2>3, RoundTrip DEF HonestInv, Honest
  <2>4. QED
    BY <2>2, <2>3
<1>2. QED
  BY <1>1, HonestCorrect, CheckedCorrect, PTL

\* A mapping is erased by a request that carries none, and by nothing else.
THEOREM MappingErasedByRequestCorrect == Spec => MappingErasedByRequest
<1>1. TypeOK /\ CheckedInv /\ HonestInv /\ [Next]_vars => [ErasedByRequest]_vars
  <2> SUFFICES ASSUME TypeOK, CheckedInv, HonestInv, [Next]_vars, NEW e \in EntityIds,
                      serviceProviders[e].mapping # NoMapping,
                      serviceProviders'[e].mapping = NoMapping
               PROVE  \E a \in Attempts : /\ handler[a] = "saving" \/ a \in adrift
                                          /\ request[a].entity = e /\ CarriesNoMapping(a)
    BY DEF ErasedByRequest
  <2>1. PICK a \in Attempts : MaySave(a) /\ Commit(a)
    BY OnlySavesWrite DEF tableVars
  <2>2. serviceProviders' = [serviceProviders EXCEPT ![request[a].entity] =
                                                      Registered(request[a])]
    BY <2>1, CommitType
  <2>3. request[a].entity = e
    BY <2>2 DEF TypeOK
  <2>4. Registered(request[a]).mapping = NoMapping
    BY <2>2, <2>3 DEF TypeOK
  <2>5. CarriesNoMapping(a)
    <3>1. CASE line[a] = NoLine
      BY <2>4, <3>1 DEF CarriesNoMapping, Registered, Decoded
    <3>2. CASE line[a] # NoLine
      <4>1. line[a] \in CommandLines /\ request[a] = AddRequest(line[a])
        BY <2>1, <3>2 DEF HonestInv, Honest, MaySave, CheckedInv, Checked
      <4>2. Asked(line[a]).mapping = NoMapping
        BY <2>4, <4>1, RoundTrip
      <4>3. QED
        BY <3>2, <4>2 DEF CarriesNoMapping
    <3>3. QED
      BY <3>1, <3>2
  <2>6. QED
    BY <2>1, <2>3, <2>5 DEF MaySave
<1>2. QED
  BY <1>1, HonestCorrect, CheckedCorrect, PTL DEF Spec, MappingErasedByRequest

-----------------------------------------------------------------------------
(* Late saves *)

\* A client that is done has either been heard out or has abandoned its handler, and
\* those that were done when an attempt began are done still.
Left(a) ==
    /\ told[a] \in Over /\ a \notin abandoned => handler[a] \notin AtWork
    /\ a \notin before[a]
    /\ \A b \in before[a] : told[b] \in Over

\* The row of an attempt that was saved is no longer that of one that was over before.
Newer(a) ==
    handler[a] = "created" =>
        \A b \in before[a] : b \notin abandoned \cup adrift => last[request[a].entity] # b

LateInv == \A a \in Attempts : Left(a) /\ Newer(a)

LEMMA NextLeft ==
    ASSUME TypeOK, CheckedInv, NEW a \in Attempts, \A b \in Attempts : Left(b), [Next]_vars
    PROVE  Left(a)'
<1> DEFINE Done(b) == told[b] \in Over /\ b \notin abandoned => handler[b] \notin AtWork
<1>1. ASSUME NEW b \in Attempts PROVE told[b] \in Over => told'[b] \in Over
  BY DEF TypeOK, Over, Next, Run, RunFails, Post, Begin, Send, Hear, GiveUp, Validate, Save,
     SaveFails, Crash, LateCommit, Rest,
        vars, serverVars, clientVars
<1>2. /\ told[a] \in Over /\ a \notin abandoned => handler[a] \notin AtWork
      /\ a \notin before[a]
      /\ \A b \in before[a] : b \in Attempts /\ told[b] \in Over
  BY DEF Left, TypeOK
<1>3. \/ before'[a] = before[a]
      \/ told[a] = "nothing" /\ before'[a] = {b \in Attempts : told[b] \in Over}
  BY DEF TypeOK, Next, Run, RunFails, Post, Begin, Hear, GiveUp, Validate, Save, SaveFails,
     Crash, LateCommit, Rest, vars, serverVars, clientVars
<1>4. a \notin before'[a] /\ \A b \in before'[a] : told'[b] \in Over
  BY <1>1, <1>2, <1>3 DEF Over
<1>5. Done(a)'
  <2>1. Done(a) /\ Begun(a)
    BY DEF Left, CheckedInv, Checked
  <2>2. CASE UNCHANGED <<told, abandoned>>
    <3>1. handler'[a] = handler[a] \/ handler'[a] \notin AtWork \/ handler[a] \in AtWork
      BY <2>2 DEF TypeOK, AtWork, Next, Run, RunFails, Post, Begin, Send, Hear, GiveUp, Validate,
         Save, SaveFails, Crash, LateCommit, Rest, vars, serverVars
    <3>2. QED
      BY <2>1, <2>2, <3>1
  <2>3. ASSUME NEW b \in Attempts, GiveUp(b) PROVE Done(a)'
    <3>1. handler' = handler /\ abandoned \subseteq abandoned'
      BY <2>3 DEF GiveUp, serverVars
    <3>2. CASE a = b
      BY <2>3, <3>1, <3>2 DEF GiveUp
    <3>3. CASE a # b
      BY <2>1, <2>3, <3>1, <3>3 DEF GiveUp, TypeOK
    <3>4. QED
      BY <3>2, <3>3
  <2>4. ASSUME NEW b \in Attempts, Hear(b) PROVE Done(a)'
    <3>1. CASE a = b
      BY <2>4, <3>1 DEF Hear, serverVars
    <3>2. CASE a # b
      BY <2>1, <2>4, <3>2 DEF Hear, serverVars, TypeOK
    <3>3. QED
      BY <3>1, <3>2
  <2>5. ASSUME NEW b \in Attempts, NEW l \in CommandLines, RunFails(b, l) PROVE Done(a)'
    <3>1. CASE a = b
      <4>1. handler[a] = "none" /\ handler' = handler
        BY <2>1, <2>5, <3>1 DEF RunFails, Begin, Begun
      <4>2. QED
        BY <4>1 DEF AtWork
    <3>2. CASE a # b
      BY <2>1, <2>5, <3>2 DEF RunFails, Begin, TypeOK
    <3>3. QED
      BY <3>1, <3>2
  <2>6. ASSUME NEW b \in Attempts, NEW body, Begin(b), Send(b, body) PROVE Done(a)'
    <3>1. CASE a = b
      BY <2>6, <3>1 DEF Send, Over, TypeOK
    <3>2. CASE a # b
      BY <2>1, <2>6, <3>2 DEF Begin, Send, TypeOK
    <3>3. QED
      BY <3>1, <3>2
  <2>7. QED
    BY <2>2, <2>3, <2>4, <2>5, <2>6
    DEF Next, Run, Post, Validate, Save, SaveFails, Crash, LateCommit, Rest,
        vars, serverVars, clientVars
<1>6. QED
  BY <1>4, <1>5 DEF Left

LEMMA NextNewer ==
    ASSUME TypeOK, CheckedInv, LateInv, [Next]_vars, NEW a \in Attempts
    PROVE  Newer(a)'
<1> SUFFICES ASSUME handler'[a] = "created", NEW b \in before'[a], b \notin abandoned' \cup adrift'
             PROVE  last'[request'[a].entity] # b
  BY DEF Newer
<1>1. abandoned \subseteq abandoned' /\ adrift \subseteq adrift'
  BY DEF Next, Run, RunFails, Post, Begin, Hear, GiveUp, Validate, Save, SaveFails,
     Crash, LateCommit, Rest, vars, serverVars, clientVars
<1>2. handler[a] \in {"saving", "created"}
  BY DEF TypeOK, Next, Run, RunFails, Post, Begin, Send, Hear, GiveUp, Validate, Save, SaveFails,
     Crash, LateCommit, Rest, vars, serverVars
<1>3. told[a] # "nothing"
  BY <1>2 DEF CheckedInv, Checked, Begun
<1>4. before'[a] = before[a]
  BY <1>3 DEF TypeOK, Next, Run, RunFails, Post, Begin, Hear, GiveUp, Validate, Save, SaveFails,
     Crash, LateCommit, Rest, vars, serverVars, clientVars
<1>5. request'[a] = request[a]
  BY <1>3, RequestStays
<1>6. /\ b \in Attempts /\ b # a /\ told[b] \in Over /\ b \notin abandoned \cup adrift
      /\ handler[b] \notin AtWork
  BY <1>1, <1>4 DEF LateInv, Left, TypeOK
<1>7. request[a].entity \in EntityIds
  BY <1>2, RegisteredType DEF CheckedInv, Checked, MaySave, Acceptable, Bodies
<1>8. CASE UNCHANGED tableVars /\ handler[a] = "created"
  BY <1>4, <1>5, <1>6, <1>8 DEF tableVars, LateInv, Newer
<1>9. ASSUME NEW c \in Attempts, Save(c) \/ LateCommit(c), MaySave(c), Commit(c)
      PROVE  last'[request'[a].entity] # b
  <2>1. last' = [last EXCEPT ![request[c].entity] = c]
    BY <1>9, CommitType
  <2>2. c # b
    BY <1>6, <1>9 DEF AtWork, MaySave
  <2>3. CASE request[c].entity = request[a].entity
    BY <1>5, <1>7, <2>1, <2>2, <2>3 DEF TypeOK
  <2>4. CASE request[c].entity # request[a].entity
    <3>1. c # a
      BY <2>4
    <3>2. handler[a] = "created"
      BY <1>2, <1>9, <3>1 DEF Save, LateCommit, serverVars, TypeOK
    <3>3. last[request[a].entity] # b
      BY <1>4, <1>6, <3>2 DEF LateInv, Newer
    <3>4. QED
      BY <1>5, <1>7, <2>1, <2>4, <3>3 DEF TypeOK
  <2>5. QED
    BY <2>3, <2>4
<1>10. CASE UNCHANGED tableVars /\ handler[a] = "saving"
  <2>1. PICK c \in Attempts : Save(c)
    BY <1>10 DEF TypeOK, Next, Run, RunFails, Post, Begin, Send, Hear, GiveUp, Validate,
       SaveFails, Crash, LateCommit, AtWork, Rest, vars, serverVars
  <2>2. QED
    BY <1>9, <2>1 DEF Save, MaySave
<1>11. QED
  BY <1>2, <1>8, <1>9, <1>10, OnlySavesWrite

\* An older registration takes the place of a newer one only if its client had given
\* it up while the server was still at work on it, or its handler had ended while
\* PostgreSQL had the statement.
THEOREM LateSaveHasCauseCorrect == Spec => []LateSaveHasCause
<1>1. Init => LateInv
  BY DEF Init, LateInv, Left, Newer, Over
<1>2. TypeOK /\ CheckedInv /\ LateInv /\ [Next]_vars => LateInv'
  <2> SUFFICES ASSUME TypeOK, CheckedInv, LateInv, [Next]_vars, NEW a \in Attempts
               PROVE  Left(a)' /\ Newer(a)'
    BY DEF LateInv
  <2>1. Left(a)'
    BY NextLeft DEF LateInv
  <2>2. QED
    BY <2>1, NextNewer
<1>3. HonestInv /\ LateInv => LateSaveHasCause
  BY DEF HonestInv, Honest, LateInv, Newer, LateSaveHasCause
<1>4. QED
  BY <1>1, <1>2, <1>3, HonestCorrect, CheckedCorrect, PTL DEF Spec
=============================================================================
