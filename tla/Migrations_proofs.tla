-------------------------- MODULE Migrations_proofs --------------------------
(***************************************************************************)
(* The safety of Migrations, for any number of processes that run migrate  *)
(* commands, entities, commands and faults.                                *)
(***************************************************************************)
EXTENDS Migrations, TLAPS

Row == [id : Nat, version : Versions]

LEMMA HighestIs ==
    ASSUME NEW rows, rows \subseteq Row
    PROVE  /\ Highest(rows) \in {0} \cup Versions
           /\ rows = {} => Highest(rows) = 0
           /\ 2 \in VersionsOf(rows) => Highest(rows) = 2
           /\ 2 \notin VersionsOf(rows) /\ 1 \in VersionsOf(rows) => Highest(rows) = 1
           /\ Highest(rows) = 2 => 2 \in VersionsOf(rows)
           /\ Highest(rows) >= 1 => rows # {}
<1>1. CASE rows = {}
  BY <1>1 DEF Highest, Versions, VersionsOf
<1>2. CASE rows # {}
  <2>1. VersionsOf(rows) \subseteq Versions /\ VersionsOf(rows) # {}
    BY <1>2 DEF VersionsOf, Row
  <2>2. \E v \in VersionsOf(rows) : \A w \in VersionsOf(rows) : w <= v
    <3>1. CASE 2 \in VersionsOf(rows)
      BY <2>1, <3>1 DEF Versions
    <3>2. CASE 2 \notin VersionsOf(rows)
      BY <2>1, <3>2 DEF Versions
    <3>3. QED
      BY <3>1, <3>2
  <2>3. /\ Highest(rows) \in VersionsOf(rows)
        /\ \A w \in VersionsOf(rows) : w <= Highest(rows)
    BY <1>2, <2>2 DEF Highest
  <2>4. QED
    BY <1>2, <2>1, <2>3 DEF Versions
<1>3. QED
  BY <1>1, <1>2

\* Every set of these rows has a newest one.
WellOrdered(rows) == \A S \in SUBSET rows : S # {} => \E r \in S : \A s \in S : s.id <= r.id

LEMMA NewestIs ==
    ASSUME NEW rows, WellOrdered(rows), rows # {}
    PROVE  Newest(rows) \in rows /\ \A s \in rows : s.id <= Newest(rows).id
BY DEF WellOrdered, Newest

Active(p) == step[p] \notin Ended

\* The table of versions has a newest row, and so has every list made of it.
Shape ==
    /\ \A r \in applied : r.id < nextId
    /\ WellOrdered(applied)
    /\ \A p \in Commands : WellOrdered(listed[p])
    /\ \A p \in Commands : op[p] = "down" /\ step[p] = "run" => listed[p] # {}

\* Rows are as old as their versions are low, one for each, without a gap.
Ordered(rows) ==
    /\ \A r, s \in rows : /\ r.version < s.version => r.id < s.id
                          /\ r.version = s.version => r = s
    /\ 2 \in VersionsOf(rows) => 1 \in VersionsOf(rows)

\* While no two commands have overlapped, one runs at a time, on an ordered table, and
\* what it has read of the table is what the table is.
Serial ==
    /\ \A p, q \in Commands : Active(p) /\ Active(q) => p = q
    /\ Ordered(applied)
    /\ \A p \in Commands : op[p] = "down" /\ step[p] = "run" => listed[p] = applied
    /\ \A p \in Commands : op[p] = "up" /\ step[p] = "run" => todo[p] = NotApplied(applied)

\* A check whose two queries see the same table: what the first one found still
\* holds for the second, and what was printed of both agrees.
ToldBy(p) ==
    /\ step[p] = "version" => (pending[p] <=> Highest(applied) # Latest)
    /\ result[p].status \in {"ok", "pending"} =>
          (result[p].status = "ok" <=> result[p].version = Latest)

Told == \A p \in Commands : p \notin crossed => ToldBy(p)

Safe ==
    /\ overlap \/ Serial
    /\ Told
    /\ VersionTrue
    /\ MappingKept

Inv == TypeOK /\ Shape /\ Safe

LEMMA InitInv == Init => Inv
<1> SUFFICES ASSUME Init PROVE Inv
  OBVIOUS
<1>1. TypeOK
  BY MigrationsAssumption DEF Init, TypeOK, OneStep, NoResult, Versions, Ended
<1>2. Shape
  BY DEF Init, Shape, WellOrdered
<1>3. Serial
  BY DEF Init, Serial, Active, Ended, Ordered, VersionsOf
<1>4. Told
  BY DEF Init, Told, ToldBy, NoResult
<1>5. VersionTrue /\ MappingKept
  BY DEF Init, VersionTrue, MappingKept, VersionsOf
<1>6. QED
  BY <1>1, <1>2, <1>3, <1>4, <1>5 DEF Inv, Safe

-----------------------------------------------------------------------------
(* Commands that begin or end, and leave the database alone *)

\* The steps of p that change no row: what becomes of p is for each to say.
Quiet(p) ==
    /\ UNCHANGED <<schema, applied, nextId, providers, promised, undone, rolledBack>>
    /\ overlap => overlap'
    /\ \A q \in Commands : q # p =>
          /\ op'[q] = op[q] /\ step'[q] = step[q] /\ todo'[q] = todo[q]
          /\ listed'[q] = listed[q] /\ pending'[q] = pending[q] /\ result'[q] = result[q]
          /\ q \in crossed => q \in crossed'

\* What such a step has to show of p itself.
Sound(p) ==
    /\ listed[p] = applied \/ WellOrdered(listed[p])
    /\ op[p] = "down" /\ step[p] = "run" => listed[p] = applied /\ applied # {}
    /\ op[p] = "up" /\ step[p] = "run" => todo[p] = NotApplied(applied)
    /\ p \notin crossed => ToldBy(p)

LEMMA QuietInv ==
    ASSUME Inv, NEW p \in Commands, Quiet(p), TypeOK', Sound(p)',
           overlap' \/ ~Active(p)' \/ \A q \in Commands : q # p => ~Active(q)
    PROVE  Inv'
<1>1. Shape'
  <2>1. ASSUME NEW q \in Commands
        PROVE  /\ WellOrdered(listed'[q])
               /\ op'[q] = "down" /\ step'[q] = "run" => listed'[q] # {}
    <3>1. CASE q = p
      BY <3>1 DEF Inv, Shape, Quiet, Sound, WellOrdered
    <3>2. CASE q # p
      BY <3>2 DEF Inv, Shape, Quiet
    <3>3. QED
      BY <3>1, <3>2
  <2>2. QED
    BY <2>1 DEF Inv, Shape, Quiet, WellOrdered
<1>2. ASSUME ~overlap' PROVE Serial'
  <2>1. ~overlap /\ Serial
    BY <1>2 DEF Quiet, Inv, Safe
  <2>2. \A q, r \in Commands : Active(q)' /\ Active(r)' => q = r
    BY <1>2, <2>1 DEF Serial, Quiet, Active
  <2>3. Ordered(applied)'
    BY <2>1 DEF Serial, Quiet, Ordered, VersionsOf
  <2>4. NotApplied(applied)' = NotApplied(applied)
    BY DEF Quiet, NotApplied, Highest, VersionsOf
  <2>5. ASSUME NEW q \in Commands
        PROVE  /\ op'[q] = "down" /\ step'[q] = "run" => listed'[q] = applied'
               /\ op'[q] = "up" /\ step'[q] = "run" => todo'[q] = NotApplied(applied)'
    <3>1. CASE q = p
      BY <3>1 DEF Sound
    <3>2. CASE q # p
      BY <2>1, <2>4, <3>2 DEF Serial, Quiet
    <3>3. QED
      BY <3>1, <3>2
  <2>6. QED
    BY <2>2, <2>3, <2>5 DEF Serial
<1>3. Told'
  <2>1. Highest(applied)' = Highest(applied)
    BY DEF Quiet, Highest, VersionsOf
  <2>2. ASSUME NEW q \in Commands, q \notin crossed' PROVE ToldBy(q)'
    <3>1. CASE q = p
      BY <2>2, <3>1 DEF Sound
    <3>2. CASE q # p
      <4>1. /\ q \notin crossed /\ step'[q] = step[q] /\ pending'[q] = pending[q]
            /\ result'[q] = result[q]
        BY <2>2, <3>2 DEF Quiet
      <4>2. ToldBy(q)
        BY <4>1 DEF Inv, Safe, Told
      <4>3. QED
        BY <2>1, <4>1, <4>2 DEF ToldBy, Latest
    <3>3. QED
      BY <3>1, <3>2
  <2>3. QED
    BY <2>2 DEF Told
<1>4. VersionTrue' /\ MappingKept'
  BY DEF Inv, Safe, VersionTrue, MappingKept, Quiet, VersionsOf
<1>5. QED
  BY <1>1, <1>2, <1>3, <1>4 DEF Inv, Safe

\* What the reads of the table of versions give.
LEMMA ReadTypes ==
    ASSUME TypeOK
    PROVE  /\ NotApplied(applied) \in SUBSET Versions
           /\ Highest(applied) \in {0} \cup Versions
           /\ applied \in SUBSET Row
BY HighestIs DEF TypeOK, NotApplied, Row

\* Nothing is pending exactly when the latest version is applied.
LEMMA NothingPending ==
    ASSUME TypeOK
    PROVE  NotApplied(applied) = {} <=> Highest(applied) = Latest
<1>1. Highest(applied) \in {0, 1, 2} /\ 2 \in Versions
  BY ReadTypes DEF Versions
<1>2. NotApplied(applied) = {} => ~(2 > Highest(applied))
  BY <1>1 DEF NotApplied
<1>3. Highest(applied) = 2 => NotApplied(applied) = {}
  BY DEF NotApplied, Versions
<1>4. QED
  BY <1>1, <1>2, <1>3 DEF Latest

LEMMA OverlapType ==
    ASSUME TypeOK, NEW p \in Commands,
           overlap' = (overlap \/ \E q \in Commands \ {p} : step[q] \notin Ended)
    PROVE  /\ overlap' \in BOOLEAN
           /\ overlap => overlap'
           /\ overlap' \/ \A q \in Commands : q # p => ~Active(q)
<1>1. overlap' \in BOOLEAN
  BY Zenon
<1>2. overlap => overlap'
  OBVIOUS
<1>3. overlap' \/ \A q \in Commands : q # p => ~Active(q)
  BY DEF Active
<1>4. QED
  BY <1>1, <1>2, <1>3

LEMMA StepType ==
    ASSUME TypeOK, NEW p \in Commands, NEW to \in Ended \cup {"list", "run", "version"},
           Goto(p, to)
    PROVE  /\ step' \in [Commands -> Ended \cup {"list", "run", "version"}]
           /\ step'[p] = to
           /\ \A q \in Commands : q # p => step'[q] = step[q]
BY DEF TypeOK, Goto

LEMMA AskUpInv ==
    ASSUME Inv, NEW p \in Commands, AskUp(p), op' = [op EXCEPT ![p] = "up"], runs' \in Nat,
           overlap' = (overlap \/ \E q \in Commands \ {p} : step[q] \notin Ended)
    PROVE  Inv'
<1>1. TypeOK
  BY DEF Inv
<1>2. PICK to \in {"failed", "done", "list"} : Goto(p, to)
  BY DEF AskUp
<1>3. /\ step' \in [Commands -> Ended \cup {"list", "run", "version"}] /\ step'[p] = to
      /\ \A q \in Commands : q # p => step'[q] = step[q]
  BY <1>1, <1>2, StepType DEF Ended
<1>4. /\ overlap' \in BOOLEAN /\ (overlap => overlap')
      /\ overlap' \/ \A q \in Commands : q # p => ~Active(q)
  BY <1>1, OverlapType
<1>5. TypeOK'
  BY <1>1, <1>3, <1>4 DEF AskUp, TypeOK, database
<1>6. Quiet(p)
  BY <1>1, <1>3, <1>4 DEF AskUp, Quiet, database, TypeOK
<1>7. Sound(p)'
  <2>1. WellOrdered(listed[p]) /\ Told
    BY DEF Inv, Shape, Safe
  <2>2. op'[p] = "up" /\ step'[p] \notin {"run", "version"} /\ listed' = listed
        /\ result' = result /\ crossed' = crossed
    BY <1>1, <1>3 DEF AskUp, TypeOK
  <2>3. p \notin crossed' => ToldBy(p)'
    BY <2>1, <2>2 DEF Told, ToldBy
  <2>4. QED
    BY <2>1, <2>2, <2>3 DEF Sound, WellOrdered
<1>8. QED
  BY <1>4, <1>5, <1>6, <1>7, QuietInv

LEMMA StartDownInv ==
    ASSUME Inv, NEW p \in Commands, NEW to \in {OneStep, 0, 1}, StartDown(p, to)
    PROVE  Inv'
<1>1. TypeOK
  BY DEF Inv
<1>2. PICK s \in {"run", "failed", "done"} : Goto(p, s) /\ (s = "run" => applied # {})
  BY DEF StartDown
<1>3. /\ step' \in [Commands -> Ended \cup {"list", "run", "version"}] /\ step'[p] = s
      /\ \A q \in Commands : q # p => step'[q] = step[q]
  BY <1>1, <1>2, StepType DEF Ended
<1>4. /\ overlap' \in BOOLEAN /\ (overlap => overlap')
      /\ overlap' \/ \A q \in Commands : q # p => ~Active(q)
  BY <1>1, OverlapType DEF StartDown, Start
<1>5. TypeOK'
  BY <1>1, <1>3, <1>4, ReadTypes DEF StartDown, Start, TypeOK, database, Row, Versions
<1>6. Quiet(p)
  BY <1>1, <1>3, <1>4 DEF StartDown, Start, Quiet, database, TypeOK
<1>7. Sound(p)'
  <2>1. Told
    BY DEF Inv, Safe
  <2>2. op'[p] = "down" /\ listed'[p] = applied' /\ result' = result /\ applied' = applied
        /\ crossed' = crossed
    BY <1>1 DEF StartDown, Start, TypeOK, database
  <2>3. p \notin crossed' => ToldBy(p)'
    BY <1>2, <1>3, <2>1, <2>2 DEF Told, ToldBy
  <2>4. QED
    BY <1>2, <1>3, <2>2, <2>3 DEF Sound
<1>8. QED
  BY <1>4, <1>5, <1>6, <1>7, QuietInv

LEMMA StartCheckInv ==
    ASSUME Inv, NEW p \in Commands, StartCheck(p)
    PROVE  Inv'
<1>1. TypeOK
  BY DEF Inv
<1>2. PICK s \in {"failed", "version"} : Goto(p, s)
  BY DEF StartCheck
<1>3. /\ step' \in [Commands -> Ended \cup {"list", "run", "version"}] /\ step'[p] = s
      /\ \A q \in Commands : q # p => step'[q] = step[q]
  BY <1>1, <1>2, StepType DEF Ended
<1>4. /\ overlap' \in BOOLEAN /\ (overlap => overlap')
      /\ overlap' \/ \A q \in Commands : q # p => ~Active(q)
  BY <1>1, OverlapType DEF StartCheck, Start
<1>5. pending' \in [Commands -> BOOLEAN]
  BY <1>1 DEF StartCheck, TypeOK
<1>6. TypeOK'
  BY <1>1, <1>3, <1>4, <1>5 DEF StartCheck, Start, TypeOK, database, NoResult
<1>7. Quiet(p)
  BY <1>1, <1>3, <1>4 DEF StartCheck, Start, Quiet, database, TypeOK
<1>8. Sound(p)'
  <2>1. WellOrdered(listed[p])
    BY DEF Inv, Shape
  <2>2. /\ op'[p] = "check" /\ listed' = listed /\ result'[p] = NoResult /\ applied' = applied
        /\ pending'[p] = (NotApplied(applied) # {})
    BY <1>1 DEF StartCheck, Start, TypeOK, database
  <2>3. pending'[p] <=> Highest(applied)' # Latest
    BY <1>1, <2>2, NothingPending DEF Highest, VersionsOf
  <2>4. ToldBy(p)'
    BY <2>2, <2>3 DEF ToldBy, NoResult, Latest
  <2>5. QED
    BY <2>1, <2>2, <2>4 DEF Sound, WellOrdered
<1>9. QED
  BY <1>4, <1>6, <1>7, <1>8, QuietInv

LEMMA ListUpInv ==
    ASSUME Inv, NEW p \in Commands, ListUp(p)
    PROVE  Inv'
<1>1. TypeOK /\ Active(p)
  BY DEF Inv, ListUp, Active, Ended
<1>2. PICK s \in {"failed", "done", "run"} : Goto(p, s)
  BY DEF ListUp
<1>3. /\ step' \in [Commands -> Ended \cup {"list", "run", "version"}] /\ step'[p] = s
      /\ \A q \in Commands : q # p => step'[q] = step[q]
  BY <1>1, <1>2, StepType DEF Ended
<1>4. TypeOK'
  BY <1>1, <1>3, ReadTypes DEF ListUp, TypeOK, database, history
<1>5. Quiet(p)
  BY <1>1, <1>3 DEF ListUp, Quiet, database, history, TypeOK
<1>6. Sound(p)'
  <2>1. WellOrdered(listed[p]) /\ Told
    BY DEF Inv, Shape, Safe
  <2>2. /\ op'[p] = "up" /\ step'[p] # "version" /\ listed' = listed /\ result' = result
        /\ crossed' = crossed /\ applied' = applied /\ todo'[p] = NotApplied(applied)
        /\ overlap' = overlap /\ rolledBack' = rolledBack
    BY <1>1, <1>3 DEF ListUp, TypeOK, database, history
  <2>3. NotApplied(applied)' = NotApplied(applied)
    BY <2>2 DEF NotApplied, Highest, VersionsOf
  <2>4. QED
    BY <2>1, <2>2, <2>3 DEF Sound, WellOrdered, Told, ToldBy
<1>7. overlap' \/ \A q \in Commands : q # p => ~Active(q)
  BY <1>1 DEF Inv, Safe, Serial, ListUp, history
<1>8. QED
  BY <1>4, <1>5, <1>6, <1>7, QuietInv

\* A command that ends without having changed a row.
LEMMA EndInv ==
    ASSUME Inv, NEW p \in Commands, NEW s \in {"failed", "done"}, Goto(p, s), faults' \in Nat,
           UNCHANGED <<database, op, todo, listed, target, pending, result, promised, undone,
                       runs, overlap, crossed, rolledBack>>
    PROVE  Inv'
<1>1. TypeOK
  BY DEF Inv
<1>2. /\ step' \in [Commands -> Ended \cup {"list", "run", "version"}] /\ step'[p] = s
      /\ \A q \in Commands : q # p => step'[q] = step[q]
  BY <1>1, StepType DEF Ended
<1>3. TypeOK'
  BY <1>1, <1>2 DEF TypeOK, database
<1>4. Quiet(p)
  BY <1>2 DEF Quiet, database
<1>5. Sound(p)'
  BY <1>2 DEF Inv, Shape, Safe, Told, ToldBy, Sound, WellOrdered, database
<1>6. ~Active(p)'
  BY <1>2 DEF Active, Ended
<1>7. QED
  BY <1>3, <1>4, <1>5, <1>6, QuietInv

LEMMA CheckInv ==
    ASSUME Inv, NEW p \in Commands, CheckVersion(p) \/ CheckNoVersion(p)
    PROVE  Inv'
<1>1. TypeOK
  BY DEF Inv
<1>2. PICK s \in {"failed", "done"} : Goto(p, s)
  BY DEF CheckVersion, CheckNoVersion
<1>3. /\ step' \in [Commands -> Ended \cup {"list", "run", "version"}] /\ step'[p] = s
      /\ \A q \in Commands : q # p => step'[q] = step[q]
  BY <1>1, <1>2, StepType DEF Ended
<1>4. PICK res \in [status : {"none", "ok", "pending", "unknown"}, version : {0} \cup Versions] :
         /\ result' = [result EXCEPT ![p] = res] \/ (result' = result /\ res = result[p])
         /\ p \notin crossed /\ res.status \in {"ok", "pending"} =>
               (res.status = "ok" <=> res.version = Latest)
  <2>1. CASE CheckVersion(p)
    <3> DEFINE res == [status |-> CheckStatus(p), version |-> Highest(applied)]
    <3>1. res \in [status : {"none", "ok", "pending", "unknown"}, version : {0} \cup Versions]
      BY <1>1, ReadTypes DEF CheckStatus
    <3>2. res.status = "ok" <=> ~pending[p]
      BY DEF CheckStatus
    <3>3. p \notin crossed => (pending[p] <=> Highest(applied) # Latest)
      BY <2>1 DEF CheckVersion, Inv, Safe, Told, ToldBy
    <3>4. result' = [result EXCEPT ![p] = res]
      BY <2>1 DEF CheckVersion
    <3>5. QED
      BY <3>1, <3>2, <3>3, <3>4
  <2>2. CASE CheckNoVersion(p) /\ pending[p]
    BY <1>1, <2>2 DEF CheckNoVersion, TypeOK, Inv, Safe, Told, ToldBy
  <2>3. CASE CheckNoVersion(p) /\ ~pending[p]
    <3> DEFINE res == [status |-> "unknown", version |-> 0]
    <3>1. res \in [status : {"none", "ok", "pending", "unknown"}, version : {0} \cup Versions]
      OBVIOUS
    <3>2. result' = [result EXCEPT ![p] = res]
      BY <2>3 DEF CheckNoVersion
    <3>3. res.status \notin {"ok", "pending"}
      OBVIOUS
    <3>4. QED
      BY <3>1, <3>2, <3>3
  <2>4. QED
    BY <2>1, <2>2, <2>3
<1>5. /\ UNCHANGED <<database, op, todo, listed, target, pending, promised, undone, runs,
                     overlap, crossed, rolledBack>>
      /\ faults' \in Nat
  BY <1>1 DEF CheckVersion, CheckNoVersion, history, Fault, TypeOK
<1>6. TypeOK'
  BY <1>1, <1>3, <1>4, <1>5 DEF TypeOK, database
<1>7. Quiet(p)
  BY <1>1, <1>3, <1>4, <1>5 DEF Quiet, database, TypeOK
<1>8. Sound(p)'
  <2>1. WellOrdered(listed[p]) /\ step'[p] \notin {"run", "version"}
    BY <1>3 DEF Inv, Shape
  <2>2. result'[p] = res
    BY <1>1, <1>4 DEF TypeOK
  <2>3. QED
    BY <1>4, <1>5, <2>1, <2>2 DEF Sound, ToldBy, WellOrdered
<1>9. ~Active(p)'
  BY <1>3 DEF Active, Ended
<1>10. QED
  BY <1>6, <1>7, <1>8, <1>9, QuietInv

-----------------------------------------------------------------------------
(* Migrations applied and taken back *)

\* Whichever check is between its queries when a row comes or goes is crossed.
LEMMA CrossTold ==
    ASSUME Inv, Cross, NEW p \in Commands, step'[p] # "version", result' = result,
           \A q \in Commands : q # p => step'[q] = step[q]
    PROVE  Told'
<1>1. ASSUME NEW q \in Commands, q \notin crossed' PROVE ToldBy(q)'
  <2>1. q \notin crossed /\ step[q] # "version"
    BY <1>1 DEF Cross
  <2>2. ToldBy(q) /\ step'[q] # "version"
    BY <2>1 DEF Inv, Safe, Told
  <2>3. QED
    BY <2>2 DEF ToldBy
<1>2. QED
  BY <1>1 DEF Told

LEMMA ApplyUpInv ==
    ASSUME Inv, NEW p \in Commands, NEW v \in todo[p], op[p] = "up", step[p] = "run",
           \A w \in todo[p] : v <= w, ApplyUp(v), todo' = [todo EXCEPT ![p] = @ \ {v}],
           Goto(p, AfterUp(p, v)), Cross,
           UNCHANGED <<op, listed, target, pending, result, promised, undone, runs, overlap,
                       rolledBack, faults>>
    PROVE  Inv'
<1> DEFINE new == [id |-> nextId, version |-> v]
<1>1. TypeOK /\ v \in Versions /\ todo[p] \subseteq Versions /\ new \in Row
  BY DEF Inv, TypeOK, Row
<1>2. PICK s \in {"done", "run"} : Goto(p, s) /\ s = AfterUp(p, v)
  BY DEF AfterUp
<1>3. /\ step' \in [Commands -> Ended \cup {"list", "run", "version"}] /\ step'[p] = s
      /\ \A q \in Commands : q # p => step'[q] = step[q]
  BY <1>1, <1>2, StepType DEF Ended
<1>4. /\ applied' = applied \cup {new} /\ nextId' = nextId + 1
      /\ schema' = schema \cup {v} /\ providers' = providers
  BY DEF ApplyUp, UpSchema, UpRows
<1>5. TypeOK'
  BY <1>1, <1>3, <1>4 DEF TypeOK, Row, Cross
<1>6. \A r \in applied : r.id < nextId /\ r \in Row
  BY <1>1 DEF Inv, Shape, TypeOK, Row
<1>7. Shape'
  <2>1. \A r \in applied' : r.id < nextId'
    BY <1>1, <1>4, <1>6 DEF Row, TypeOK
  <2>2. WellOrdered(applied)'
    <3>1. ASSUME NEW S \in SUBSET applied', S # {}
          PROVE  \E r \in S : \A t \in S : t.id <= r.id
      <4>1. CASE new \in S
        <5>1. \A t \in S : t.id <= new.id
          BY <1>1, <1>4, <1>6, <3>1 DEF Row, TypeOK
        <5>2. QED
          BY <4>1, <5>1
      <4>2. CASE new \notin S
        <5>1. S \in SUBSET applied
          BY <1>4, <4>2
        <5>2. QED
          BY <3>1, <5>1 DEF Inv, Shape, WellOrdered
      <4>3. QED
        BY <4>1, <4>2
    <3>2. QED
      BY <3>1 DEF WellOrdered
  <2>3. \A q \in Commands : /\ WellOrdered(listed[q])'
                            /\ op'[q] = "down" /\ step'[q] = "run" => listed'[q] # {}
    BY <1>3 DEF Inv, Shape, WellOrdered
  <2>4. QED
    BY <2>1, <2>2, <2>3 DEF Shape
<1>8. VersionsOf(applied)' = VersionsOf(applied) \cup {v}
  <2>1. ASSUME NEW w \in VersionsOf(applied)' PROVE w \in VersionsOf(applied) \cup {v}
    <3>1. PICK t \in applied' : w = t.version
      BY <2>1 DEF VersionsOf
    <3>2. t \in applied \/ t.version = v
      BY <1>4, <3>1
    <3>3. QED
      BY <3>1, <3>2 DEF VersionsOf
  <2>2. ASSUME NEW w \in VersionsOf(applied) \cup {v} PROVE w \in VersionsOf(applied)'
    <3>1. PICK t \in applied' : w = t.version
      <4>1. CASE w = v
        <5>1. new \in applied' /\ new.version = v
          BY <1>4
        <5>2. QED
          BY <4>1, <5>1
      <4>2. CASE w # v
        BY <1>4, <2>2, <4>2 DEF VersionsOf
      <4>3. QED
        BY <4>1, <4>2
    <3>2. QED
      BY <3>1 DEF VersionsOf
  <2>3. QED
    BY <2>1, <2>2
<1>9. overlap' = overlap /\ rolledBack' = rolledBack /\ promised' = promised
  OBVIOUS
<1>10. ASSUME ~overlap PROVE Serial'
  <2>1. Serial /\ todo[p] = NotApplied(applied) /\ Active(p)
    BY <1>10 DEF Inv, Safe, Serial, Active, Ended
  <2>2. ASSUME NEW q \in Commands, q # p PROVE ~Active(q) /\ ~Active(q)'
    BY <1>3, <2>1, <2>2 DEF Serial, Active
  <2>3. v > Highest(applied) /\ Highest(applied) \in {0, 1, 2}
    BY <1>1, <2>1, ReadTypes DEF NotApplied, Versions
  <2>4. \A r \in applied : r.version < v
    <3>1. applied \subseteq Row
      BY <1>1 DEF TypeOK, Row
    <3>2. ASSUME NEW r \in applied PROVE r.version < v
      <4>1. r.version \in VersionsOf(applied) /\ r.version \in {1, 2}
        BY <3>1 DEF VersionsOf, Row, Versions
      <4>2. QED
        BY <1>1, <2>3, <3>1, <4>1, HighestIs DEF Versions
    <3>3. QED
      BY <3>2
  <2>5. v = 2 => 1 \in VersionsOf(applied)
    <3>1. CASE v = 2
      <4>1. 1 \notin todo[p]
        BY <3>1
      <4>2. ~(1 > Highest(applied)) /\ Highest(applied) = 1
        BY <2>1, <2>3, <3>1, <4>1 DEF NotApplied, Versions
      <4>3. applied \subseteq Row
        BY <1>1 DEF TypeOK, Row
      <4>4. applied # {} /\ 2 \notin VersionsOf(applied)
        BY <4>2, <4>3, HighestIs
      <4>5. QED
        BY <4>3, <4>4 DEF VersionsOf, Row, Versions
    <3>2. QED
      BY <3>1
  <2>6. Ordered(applied)'
    <3>1. ASSUME NEW r \in applied', NEW t \in applied'
          PROVE  /\ r.version < t.version => r.id < t.id
                 /\ r.version = t.version => r = t
      <4>1. CASE r \in applied /\ t \in applied
        BY <2>1, <4>1 DEF Serial, Ordered
      <4>2. CASE r \in applied /\ t = new
        BY <1>1, <1>6, <2>4, <4>2 DEF Row, Versions, TypeOK
      <4>3. CASE r = new /\ t \in applied
        BY <1>1, <1>6, <2>4, <4>3 DEF Row, Versions, TypeOK
      <4>4. CASE r = new /\ t = new
        BY <1>1, <4>4 DEF Versions
      <4>5. QED
        BY <1>4, <4>1, <4>2, <4>3, <4>4
    <3>2. 2 \in VersionsOf(applied)' => 1 \in VersionsOf(applied)'
      BY <1>1, <1>8, <2>1, <2>5 DEF Serial, Ordered, Versions
    <3>3. QED
      BY <3>1, <3>2 DEF Ordered
  <2>7. todo'[p] = NotApplied(applied)'
    <3>1. todo'[p] = todo[p] \ {v}
      BY <1>1 DEF TypeOK
    <3>2. applied' \subseteq Row
      BY <1>5 DEF TypeOK, Row
    <3>3. Highest(applied)' = v
      <4>1. CASE v = 2
        BY <1>8, <3>2, <4>1, HighestIs
      <4>2. CASE v = 1
        <5>1. 2 \notin VersionsOf(applied)
          BY <2>4, <4>2 DEF VersionsOf
        <5>2. QED
          BY <1>8, <3>2, <4>2, <5>1, HighestIs
      <4>3. QED
        BY <1>1, <4>1, <4>2 DEF Versions
    <3>4. QED
      BY <1>1, <2>1, <2>3, <3>1, <3>3 DEF NotApplied, Versions
  <2>8. \A q \in Commands : step'[q] = "run" => q = p
    BY <2>2 DEF Active, Ended
  <2>9. QED
    BY <2>2, <2>6, <2>7, <2>8 DEF Serial
<1>11. Told'
  BY <1>3, CrossTold
<1>12. VersionTrue' /\ MappingKept'
  BY <1>4, <1>8, <1>9 DEF Inv, Safe, VersionTrue, MappingKept
<1>13. QED
  BY <1>5, <1>7, <1>9, <1>10, <1>11, <1>12 DEF Inv, Safe

\* A migrate down that runs alone takes back the one row of the highest version.
LEMMA SerialDown ==
    ASSUME Inv, ~overlap, NEW p \in Commands, op[p] = "down", step[p] = "run"
    PROVE  LET r == Newest(listed[p])
           IN  /\ listed[p] = applied /\ r \in applied /\ applied \subseteq Row
               /\ r.version = Highest(applied) /\ r.version \in Versions
               /\ RowsOf(r.version) = {r}
               /\ \A s \in applied \ {r} : s.version < r.version
<1> DEFINE r == Newest(listed[p])
<1>1. listed[p] = applied /\ applied # {} /\ Ordered(applied) /\ WellOrdered(applied)
  BY DEF Inv, Safe, Serial, Shape
<1>2. r \in applied /\ \A s \in applied : s.id <= r.id
  BY <1>1, NewestIs
<1>3. applied \subseteq Row
  BY DEF Inv, TypeOK, Row
<1>4. ASSUME NEW s \in applied, s # r PROVE s.version < r.version
  <2>1. s.id <= r.id /\ s \in Row /\ r \in Row
    BY <1>2, <1>3
  <2>2. s.version # r.version /\ (r.version < s.version => r.id < s.id)
    BY <1>1, <1>2, <1>4 DEF Ordered
  <2>3. QED
    BY <2>1, <2>2 DEF Row, Versions
<1>5. r.version \in VersionsOf(applied) /\ r.version \in Versions
  BY <1>2, <1>3 DEF VersionsOf, Row
<1>6. r.version = Highest(applied)
  <2>1. CASE r.version = 2
    BY <1>3, <1>5, <2>1, HighestIs
  <2>2. CASE r.version = 1
    <3>1. ASSUME NEW s \in applied PROVE s.version # 2
      BY <1>4, <2>2 DEF Versions
    <3>2. 2 \notin VersionsOf(applied)
      BY <3>1 DEF VersionsOf
    <3>3. QED
      BY <1>3, <1>5, <2>2, <3>2, HighestIs
  <2>3. QED
    BY <1>5, <2>1, <2>2 DEF Versions
<1>7. RowsOf(r.version) = {r}
  <2>1. \A s \in applied : s.version = r.version => s = r
    BY <1>1, <1>2 DEF Ordered
  <2>2. QED
    BY <1>2, <2>1 DEF RowsOf
<1>8. QED
  BY <1>1, <1>2, <1>3, <1>4, <1>5, <1>6, <1>7

LEMMA ApplyDownInv ==
    ASSUME Inv, NEW p \in Commands, op[p] = "down", step[p] = "run",
           NEW r, r = Newest(listed[p]), NEW v, v = r.version, ApplyDown(v),
           listed' = [listed EXCEPT ![p] = listed[p] \ {r}],
           NEW s \in {"done", "run"}, Goto(p, s), s = "run" => listed[p] \ {r} # {},
           rolledBack' = TRUE, Cross,
           undone' = undone \/ undone' = [version |-> v, highest |-> Highest(listed[p])],
           UNCHANGED <<op, todo, target, pending, result, promised, runs, overlap, faults>>
    PROVE  Inv'
<1>1. TypeOK /\ Shape /\ listed[p] # {} /\ listed[p] \subseteq Row
  BY DEF Inv, Shape, TypeOK, Row
<1>2. r \in listed[p] /\ v \in Versions /\ Highest(listed[p]) \in {0} \cup Versions
  <2>1. r \in listed[p]
    BY <1>1, NewestIs DEF Shape
  <2>2. QED
    BY <1>1, <2>1, HighestIs DEF Row
<1>3. /\ step' \in [Commands -> Ended \cup {"list", "run", "version"}] /\ step'[p] = s
      /\ \A q \in Commands : q # p => step'[q] = step[q]
  BY <1>1, StepType DEF Ended
<1>4. TypeOK'
  <2>1. /\ providers' \in [EntityIds -> Mappings \cup {Absent}]
        /\ \A e \in EntityIds : providers'[e] # Absent => 1 \in schema'
    <3>1. providers' = DownRows(v) /\ schema' = IF v = 1 THEN {} ELSE schema \ {v}
      BY DEF ApplyDown
    <3>2. CASE v = 1
      BY <3>1, <3>2 DEF DownRows
    <3>3. CASE v = 2
      BY <1>1, <3>1, <3>3, MigrationsAssumption DEF DownRows, TypeOK
    <3>4. QED
      BY <1>2, <3>2, <3>3 DEF Versions
  <2>2. undone' \in [version : {0} \cup Versions, highest : {0} \cup Versions]
    BY <1>1, <1>2 DEF TypeOK
  <2>3. listed' \in [Commands -> SUBSET [id : Nat, version : Versions]]
    BY <1>1 DEF TypeOK
  <2>4. schema' \subseteq Versions /\ applied' \subseteq [id : Nat, version : Versions]
        /\ nextId' \in Nat
    BY <1>1 DEF ApplyDown, TypeOK
  <2>5. QED
    BY <1>1, <1>3, <2>1, <2>2, <2>3, <2>4 DEF TypeOK, Cross
<1>5. applied' = applied \ RowsOf(v) /\ nextId' = nextId
  BY DEF ApplyDown
<1>6. Shape'
  <2>1. (\A t \in applied' : t.id < nextId') /\ WellOrdered(applied)'
    BY <1>1, <1>5 DEF Shape, WellOrdered
  <2>2. ASSUME NEW q \in Commands
        PROVE  WellOrdered(listed[q])' /\ (op'[q] = "down" /\ step'[q] = "run" => listed'[q] # {})
    <3>1. CASE q = p
      <4>1. listed'[q] = listed[p] \ {r}
        BY <1>1, <3>1 DEF TypeOK
      <4>2. QED
        BY <1>1, <1>3, <3>1, <4>1 DEF Shape, WellOrdered
    <3>2. CASE q # p
      <4>1. listed'[q] = listed[q] /\ op'[q] = op[q] /\ step'[q] = step[q]
        BY <1>1, <1>3, <3>2 DEF TypeOK
      <4>2. QED
        BY <1>1, <4>1 DEF Shape, WellOrdered
    <3>3. QED
      BY <3>1, <3>2
  <2>3. QED
    BY <2>1, <2>2 DEF Shape
<1>7. ASSUME ~overlap PROVE Serial' /\ schema' = VersionsOf(applied)'
  <2>1. /\ listed[p] = applied /\ r \in applied /\ applied \subseteq Row
        /\ v = Highest(applied) /\ RowsOf(v) = {r}
        /\ \A t \in applied \ {r} : t.version < v
    BY <1>7, SerialDown
  <2>2. applied' = applied \ {r}
    BY <1>5, <2>1
  <2>3. Serial /\ Active(p) /\ schema = VersionsOf(applied)
    BY <1>7 DEF Inv, Safe, VersionTrue, Active, Ended
  <2>4. ASSUME NEW q \in Commands, q # p PROVE ~Active(q) /\ ~Active(q)'
    BY <1>3, <2>3, <2>4 DEF Serial, Active
  <2>5. VersionsOf(applied)' = VersionsOf(applied) \ {v}
    <3>1. ASSUME NEW t \in applied PROVE t.version = v <=> t = r
      BY <1>2, <2>1 DEF Versions, Row
    <3>2. ASSUME NEW w \in VersionsOf(applied)' PROVE w \in VersionsOf(applied) \ {v}
      BY <2>2, <3>1 DEF VersionsOf
    <3>3. ASSUME NEW w \in VersionsOf(applied) \ {v} PROVE w \in VersionsOf(applied)'
      BY <2>2, <3>1 DEF VersionsOf
    <3>4. QED
      BY <3>2, <3>3
  <2>6. schema' = VersionsOf(applied)'
    <3>1. CASE v = 1
      <4>1. ASSUME NEW t \in applied' PROVE FALSE
        <5>1. t.version < 1 /\ t.version \in Versions
          BY <2>1, <2>2, <3>1, <4>1 DEF Row
        <5>2. QED
          BY <5>1 DEF Versions
      <4>2. QED
        BY <3>1, <4>1 DEF ApplyDown, VersionsOf
    <3>2. CASE v = 2
      BY <2>3, <2>5, <3>2 DEF ApplyDown
    <3>3. QED
      BY <1>2, <3>1, <3>2 DEF Versions
  <2>7. Ordered(applied)'
    <3>1. \A t, u \in applied' : /\ t.version < u.version => t.id < u.id
                                 /\ t.version = u.version => t = u
      BY <2>2, <2>3 DEF Serial, Ordered
    <3>2. 2 \notin VersionsOf(applied)'
      <4>1. \A t \in applied' : t.version # 2
        BY <1>2, <2>1, <2>2 DEF Row, Versions
      <4>2. QED
        BY <4>1 DEF VersionsOf
    <3>3. QED
      BY <3>1, <3>2 DEF Ordered
  <2>8. Serial'
    <3>1. \A q, t \in Commands : Active(q)' /\ Active(t)' => q = t
      BY <2>4
    <3>2. ASSUME NEW q \in Commands, step'[q] = "run"
          PROVE  q = p /\ op'[q] = "down" /\ listed'[q] = applied'
      <4>1. q = p
        BY <2>4, <3>2 DEF Active, Ended
      <4>2. QED
        BY <1>1, <2>1, <2>2, <4>1 DEF TypeOK
    <3>3. QED
      BY <2>7, <3>1, <3>2 DEF Serial
  <2>9. QED
    BY <2>6, <2>8
<1>8. Told'
  BY <1>3, CrossTold
<1>9. QED
  BY <1>4, <1>6, <1>7, <1>8 DEF Inv, Safe, VersionTrue, MappingKept

LEMMA UpInv ==
    ASSUME Inv, NEW p \in Commands, Up(p)
    PROVE  Inv'
<1>1. PICK v \in todo[p] :
        /\ op[p] = "up" /\ step[p] = "run"
        /\ \A w \in todo[p] : v <= w
        /\ IF Runnable(v)
           THEN /\ ApplyUp(v) /\ Cross
                /\ todo' = [todo EXCEPT ![p] = @ \ {v}]
                /\ Goto(p, AfterUp(p, v))
           ELSE Goto(p, "failed") /\ UNCHANGED <<database, todo, crossed>>
        /\ UNCHANGED <<op, listed, target, pending, result, promised, undone, runs, overlap,
                       rolledBack, faults>>
  BY DEF Up
<1>2. CASE Runnable(v)
  BY <1>1, <1>2, ApplyUpInv
<1>3. CASE ~Runnable(v)
  <2>1. /\ UNCHANGED <<database, op, todo, listed, target, pending, result, promised, undone,
                       runs, overlap, crossed, rolledBack>>
        /\ faults' \in Nat /\ Goto(p, "failed")
    BY <1>1, <1>3 DEF Inv, TypeOK
  <2>2. QED
    BY <2>1, EndInv
<1>4. QED
  BY <1>2, <1>3

LEMMA DownInv ==
    ASSUME Inv, NEW p \in Commands, Down(p)
    PROVE  Inv'
<1> DEFINE r == Newest(listed[p])
           v == r.version
           rest == listed[p] \ {r}
           back == /\ ApplyDown(v) /\ Cross
                   /\ listed' = [listed EXCEPT ![p] = rest]
                   /\ Goto(p, IF target[p] = OneStep \/ rest = {} THEN "done" ELSE "run")
                   /\ rolledBack' = TRUE
                   /\ undone' = IF target[p] = OneStep
                                THEN [version |-> v, highest |-> Highest(listed[p])] ELSE undone
<1>1. /\ op[p] = "down" /\ step[p] = "run"
      /\ \/ /\ Goto(p, "done") \/ Goto(p, "failed")
            /\ UNCHANGED <<database, listed, undone, crossed, rolledBack>>
         \/ back
      /\ UNCHANGED <<op, todo, target, pending, result, promised, runs, overlap, faults>>
  <2>1. CASE v <= target[p]
    BY <2>1 DEF Down
  <2>2. CASE v > target[p] /\ ~Runnable(v) /\ ~(v <= target[p])
    BY <2>2 DEF Down
  <2>3. CASE ~(v <= target[p]) /\ ~(v > target[p] /\ ~Runnable(v))
    BY <2>3 DEF Down
  <2>4. QED
    BY <2>1, <2>2, <2>3
<1>2. CASE back
  <2>1. PICK s \in {"done", "run"} : Goto(p, s) /\ (s = "run" => rest # {})
    BY <1>2
  <2>2. QED
    BY <1>1, <1>2, <2>1, ApplyDownInv
<1>3. CASE /\ Goto(p, "done") \/ Goto(p, "failed")
           /\ UNCHANGED <<database, listed, undone, crossed, rolledBack>>
  <2>1. faults' \in Nat
    BY <1>1 DEF Inv, TypeOK
  <2>2. QED
    BY <1>1, <1>3, <2>1, EndInv
<1>4. QED
  BY <1>1, <1>2, <1>3

LEMMA FailInv ==
    ASSUME Inv, NEW p \in Commands, Fail(p)
    PROVE  Inv'
<1>1. faults' \in Nat
  BY DEF Fail, Fault, Inv, TypeOK
<1>2. QED
  BY <1>1, EndInv DEF Fail

LEMMA RegisterInv ==
    ASSUME Inv, NEW e \in EntityIds, NEW m \in Mappings, Register(e, m)
    PROVE  Inv'
<1>1. TypeOK'
  BY DEF Register, commands, Inv, TypeOK, Versions
<1>2. Shape'
  BY DEF Register, commands, Inv, Shape, WellOrdered
<1>3. Serial => Serial'
  BY DEF Register, commands, Serial, Active, Ordered, NotApplied, Highest, VersionsOf
<1>4. Told => Told'
  BY DEF Register, commands, Told, ToldBy, Highest, VersionsOf
<1>5. VersionTrue' /\ MappingKept'
  BY DEF Register, commands, Inv, Safe, VersionTrue, MappingKept, VersionsOf
<1>6. QED
  BY <1>1, <1>2, <1>3, <1>4, <1>5 DEF Inv, Safe, Register

LEMMA StutterInv ==
    ASSUME Inv, UNCHANGED vars
    PROVE  Inv'
<1>1. TypeOK'
  BY DEF vars, database, commands, history, Inv, TypeOK
<1>2. Shape'
  BY DEF vars, database, commands, history, Inv, Shape, WellOrdered
<1>3. Serial => Serial'
  BY DEF vars, database, commands, history, Serial, Active, Ordered, NotApplied, Highest,
         VersionsOf
<1>4. Told => Told'
  BY DEF vars, database, commands, history, Told, ToldBy, Highest, VersionsOf
<1>5. /\ VersionTrue' /\ MappingKept'
      /\ overlap' = overlap /\ rolledBack' = rolledBack
  BY DEF vars, database, commands, history, Inv, Safe, VersionTrue, MappingKept, VersionsOf
<1>6. QED
  BY <1>1, <1>2, <1>3, <1>4, <1>5 DEF Inv, Safe

LEMMA NextInv ==
    ASSUME Inv, [Next]_vars
    PROVE  Inv'
<1>1. CASE UNCHANGED vars
  BY <1>1, StutterInv
<1>2. ASSUME NEW p \in Commands, StartUp(p) PROVE Inv'
  <2>1. /\ op' = [op EXCEPT ![p] = "up"] /\ runs' \in Nat
        /\ overlap' = (overlap \/ \E q \in Commands \ {p} : step[q] \notin Ended)
    BY <1>2 DEF StartUp, Start, Inv, TypeOK
  <2>2. AskUp(p)
    BY <1>2 DEF StartUp
  <2>3. QED
    BY <2>1, <2>2, AskUpInv
<1>3. ASSUME NEW p \in Commands, RestartUp(p) PROVE Inv'
  <2>1. op' = [op EXCEPT ![p] = "up"] /\ runs' \in Nat
    BY <1>3 DEF RestartUp, Inv, TypeOK
  <2>2. QED
    BY <1>3, <2>1, AskUpInv DEF RestartUp
<1>4. ASSUME NEW p \in Commands, StartCheck(p) PROVE Inv'
  BY <1>4, StartCheckInv
<1>5. ASSUME NEW p \in Commands, NEW to \in {OneStep, 0, 1}, StartDown(p, to) PROVE Inv'
  BY <1>5, StartDownInv
<1>6. ASSUME NEW p \in Commands, Proceed(p) PROVE Inv'
  BY <1>6, ListUpInv, UpInv, DownInv, CheckInv, FailInv DEF Proceed
<1>7. ASSUME NEW e \in EntityIds, NEW m \in Mappings, Register(e, m) PROVE Inv'
  BY <1>7, RegisterInv
<1>8. QED
  BY <1>1, <1>2, <1>3, <1>4, <1>5, <1>6, <1>7 DEF Next, Rest

LEMMA Invariance == Spec => []Inv
<1>1. Inv /\ [Next]_vars => Inv'
  BY NextInv
<1>2. QED
  BY <1>1, InitInv, PTL DEF Spec

-----------------------------------------------------------------------------
(* The theorems *)

\* The state keeps its shape, and there are registrations only where there is a table.
THEOREM TypeCorrect == Spec => []TypeOK
<1>1. Inv => TypeOK
  BY DEF Inv
<1>2. QED
  BY <1>1, Invariance, PTL

\* The version table says what the schema is, unless commands have overlapped and
\* migrations were taken back as well.
THEOREM VersionTrueCorrect == Spec => []VersionTrue
<1>1. Inv => VersionTrue
  BY DEF Inv, Safe
<1>2. QED
  BY <1>1, Invariance, PTL

\* migrate up loses no registered mapping, however often and by however many it is run.
THEOREM MappingKeptCorrect == Spec => []MappingKept
<1>1. Inv => MappingKept
  BY DEF Inv, Safe
<1>2. QED
  BY <1>1, Invariance, PTL

\* What a check prints as status and what it prints as version agree, through failed
\* and overlapping commands, unless a migration was applied or taken back between the
\* two queries of that check.
THEOREM CheckToldCorrect == Spec => []CheckTold
<1>1. Inv => CheckTold
  BY DEF Inv, Safe, Told, ToldBy, CheckTold
<1>2. QED
  BY <1>1, Invariance, PTL

\* No other step than its own ends a migrate down.
LEMMA OnlyDownEnds ==
    ASSUME Inv, [Next]_vars, NEW p \in Commands,
           op[p] = "down", step[p] = "run", step'[p] = "done"
    PROVE  Down(p)
<1>1. step'[p] # step[p] /\ TypeOK /\ step[p] \notin Ended
  BY DEF Ended, Inv
<1>2. ASSUME NEW q \in Commands, NEW to, Goto(q, to) PROVE q = p
  BY <1>1, <1>2 DEF TypeOK, Goto
<1>3. ASSUME NEW q \in Commands, StartUp(q) \/ RestartUp(q) \/ StartCheck(q) PROVE FALSE
  <2>1. step[q] \in Ended
    BY <1>3 DEF StartUp, StartCheck, Start, RestartUp, Ended
  <2>2. q = p
    BY <1>2, <1>3 DEF StartUp, AskUp, RestartUp, StartCheck
  <2>3. QED
    BY <1>1, <2>1, <2>2
<1>4. ASSUME NEW q \in Commands, NEW to \in {OneStep, 0, 1}, StartDown(q, to) PROVE FALSE
  <2>1. step[q] \in Ended
    BY <1>4 DEF StartDown, Start
  <2>2. q = p
    BY <1>2, <1>4 DEF StartDown
  <2>3. QED
    BY <1>1, <2>1, <2>2
<1>5. ASSUME NEW q \in Commands, ListUp(q) \/ Up(q) \/ CheckVersion(q) \/ CheckNoVersion(q)
      PROVE FALSE
  <2>1. op[q] # "down"
    BY <1>5 DEF ListUp, Up, CheckVersion, CheckNoVersion
  <2>2. q = p
    BY <1>2, <1>5 DEF ListUp, Up, CheckVersion, CheckNoVersion
  <2>3. QED
    BY <2>1, <2>2
<1>6. ASSUME NEW q \in Commands, Fail(q) PROVE FALSE
  <2>1. q = p /\ step'[q] = "failed"
    BY <1>1, <1>2, <1>6 DEF Fail, Goto, TypeOK
  <2>2. QED
    BY <2>1
<1>7. ASSUME NEW q \in Commands, Down(q) PROVE Down(p)
  <2>1. step' # step /\ \E to \in {"done", "failed", "run"} : Goto(q, to)
    <3> DEFINE v == Newest(listed[q]).version
    <3>1. CASE v <= target[q]
      BY <1>1, <1>7, <3>1 DEF Down
    <3>2. CASE v > target[q] /\ ~Runnable(v) /\ ~(v <= target[q])
      BY <1>1, <1>7, <3>2 DEF Down
    <3>3. CASE ~(v <= target[q]) /\ ~(v > target[q] /\ ~Runnable(v))
      BY <1>1, <1>7, <3>3 DEF Down
    <3>4. QED
      BY <3>1, <3>2, <3>3
  <2>2. QED
    BY <1>2, <1>7, <2>1
<1>8. ASSUME NEW e \in EntityIds, NEW m \in Mappings, Register(e, m) PROVE FALSE
  BY <1>1, <1>8 DEF Register, commands
<1>9. CASE UNCHANGED vars
  BY <1>1, <1>9 DEF vars, commands
<1>10. QED
  BY <1>3, <1>4, <1>5, <1>6, <1>7, <1>8, <1>9 DEF Next, Proceed, Rest

\* A migrate down that ends well has taken back the highest version, or all above its
\* target, when no two commands have overlapped.
THEOREM DownReachesCorrect == Spec => DownReaches
<1>1. ASSUME Inv, [Next]_vars, NEW p \in Commands,
             op[p] = "down", step[p] = "run", step'[p] = "done", ~overlap
      PROVE  Reaches(p)
  <2> DEFINE r == Newest(listed[p])
             v == r.version
             rest == listed[p] \ {r}
  <2>1. Down(p)
    BY <1>1, OnlyDownEnds
  <2>2. /\ listed[p] = applied /\ r \in applied /\ applied \subseteq Row
        /\ v = Highest(applied) /\ v \in Versions /\ RowsOf(v) = {r}
        /\ \A s \in applied \ {r} : s.version < v
    BY <1>1, SerialDown
  <2>3. TypeOK /\ target[p] \in {-1, 0, 1, 2}
    BY <1>1 DEF Inv, TypeOK, OneStep, Versions
  <2>4. CASE v <= target[p]
    <3>1. applied' = applied
      BY <2>1, <2>4 DEF Down, database
    <3>2. target[p] # OneStep
      BY <2>2, <2>3, <2>4 DEF OneStep, Versions
    <3>3. Highest(applied') = Highest(applied)
      BY <3>1
    <3>4. QED
      BY <2>2, <2>4, <3>2, <3>3 DEF Reaches
  <2>5. CASE v > target[p] /\ ~Runnable(v) /\ ~(v <= target[p])
    <3>1. Goto(p, "failed")
      BY <2>1, <2>5 DEF Down
    <3>2. QED
      BY <1>1, <2>3, <3>1 DEF Goto, TypeOK
  <2>6. CASE ~(v <= target[p]) /\ ~(v > target[p] /\ ~Runnable(v))
    <3>1. /\ applied' = applied \ {r}
          /\ Goto(p, IF target[p] = OneStep \/ rest = {} THEN "done" ELSE "run")
      BY <2>1, <2>2, <2>6 DEF Down, ApplyDown
    <3>2. target[p] = OneStep \/ rest = {}
      BY <1>1, <2>3, <3>1 DEF Goto, TypeOK
    <3>3. CASE target[p] = OneStep
      <4>1. VersionsOf(applied') = VersionsOf(applied) \ {v}
        <5>1. ASSUME NEW t \in applied PROVE t.version = v <=> t = r
          BY <2>2 DEF Versions, Row
        <5>2. ASSUME NEW w \in VersionsOf(applied') PROVE w \in VersionsOf(applied) \ {v}
          BY <3>1, <5>1, <5>2 DEF VersionsOf
        <5>3. ASSUME NEW w \in VersionsOf(applied) \ {v} PROVE w \in VersionsOf(applied')
          BY <3>1, <5>1, <5>3 DEF VersionsOf
        <5>4. QED
          BY <5>2, <5>3
      <4>2. QED
        BY <2>2, <3>3, <4>1 DEF Reaches
    <3>4. CASE target[p] # OneStep
      <4>1. applied' = {}
        BY <2>2, <3>1, <3>2, <3>4
      <4>2. Highest(applied') = 0
        BY <4>1 DEF Highest
      <4>3. QED
        BY <2>3, <3>4, <4>2 DEF Reaches, OneStep
    <3>5. QED
      BY <3>3, <3>4
  <2>7. QED
    BY <2>4, <2>5, <2>6
<1>2. Inv /\ [Next]_vars =>
        [\A p \in Commands : op[p] = "down" /\ step[p] = "run" /\ step'[p] = "done" /\ ~overlap
            => Reaches(p)]_vars
  BY <1>1
<1>3. QED
  BY <1>2, Invariance, PTL DEF Spec, DownReaches

\* "Roll back the last migration" is what a plain migrate down does, as long as no two
\* commands have overlapped: that is the one way to the violation that TLC finds.
THEOREM RollsBackLastAlone == Spec => [](overlap \/ RollsBackLast)
<1>1. Init => overlap \/ RollsBackLast
  BY DEF Init, RollsBackLast
<1>2. ASSUME Inv, overlap \/ RollsBackLast, [Next]_vars PROVE (overlap \/ RollsBackLast)'
  <2>1. ASSUME NEW p \in Commands, Down(p), ~overlap PROVE RollsBackLast'
    <3> DEFINE r == Newest(listed[p])
               v == r.version
               rest == listed[p] \ {r}
    <3>1. op[p] = "down" /\ step[p] = "run" /\ RollsBackLast
      BY <1>2, <2>1 DEF Down
    <3>2. listed[p] = applied /\ v = Highest(applied)
      BY <1>2, <2>1, <3>1, SerialDown
    <3>3. undone' = undone \/ undone' = [version |-> v, highest |-> Highest(listed[p])]
      <4>1. CASE v <= target[p]
        BY <2>1, <4>1 DEF Down
      <4>2. CASE v > target[p] /\ ~Runnable(v) /\ ~(v <= target[p])
        BY <2>1, <4>2 DEF Down
      <4>3. CASE ~(v <= target[p]) /\ ~(v > target[p] /\ ~Runnable(v))
        BY <2>1, <4>3 DEF Down
      <4>4. QED
        BY <4>1, <4>2, <4>3
    <3> HIDE DEF v
    <3>4. QED
      BY <3>1, <3>2, <3>3 DEF RollsBackLast
  <2>2. ASSUME NEW p \in Commands, Down(p) PROVE overlap' = overlap
    BY <2>2 DEF Down
  <2>3. \/ (overlap => overlap') /\ undone' = undone
        \/ \E p \in Commands : Down(p)
    BY <1>2 DEF Next, StartUp, StartDown, StartCheck, Start, AskUp, RestartUp, Proceed, ListUp,
       Up, CheckVersion, CheckNoVersion, Fail, Register, Rest, history, vars
  <2>4. QED
    BY <1>2, <2>1, <2>2, <2>3 DEF RollsBackLast
<1>3. Inv /\ (overlap \/ RollsBackLast) /\ [Next]_vars => (overlap \/ RollsBackLast)'
  BY <1>2
<1>4. QED
  BY <1>1, <1>3, Invariance, PTL DEF Spec
=============================================================================
