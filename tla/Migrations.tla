------------------------------ MODULE Migrations ------------------------------
(***************************************************************************)
(* The schema of the database and the commands migrate up, migrate down    *)
(* and migrate check, which are run by a job of the deployment, by hand    *)
(* and by make run, with nothing to keep two of them apart: the provider   *)
(* of goose is made without a session locker (newGooseProvider).           *)
(*                                                                         *)
(* Meanwhile the server may be running: serve pings the database and does  *)
(* not look at its schema.  Its statements name the columns of migration   *)
(* 002 and fail where they are missing.                                    *)
(*                                                                         *)
(* goose itself is external.  It keeps a row of goose_db_version for each  *)
(* migration applied, numbered by an identity column and not unique by     *)
(* version; it runs one migration and the change of its row in one         *)
(* transaction, lists the rows newest first, and refuses to go up while a  *)
(* version below the highest is missing.                                   *)
(***************************************************************************)
EXTENDS Integers, FiniteSets

CONSTANTS
    Commands,    \* the processes that run the migrate command,
    Jobs,        \*   those of the deployment's job among them
    EntityIds,   \* the entities that may be registered
    Mappings,    \* the attribute mappings they may be registered with,
    NoMapping,   \*   NULL among them
    Absent,      \* no row
    MaxRuns,     \* bound: how many commands are run
    MaxFaults    \* bound: failing statements and processes that end

ASSUME MigrationsAssumption ==
    /\ Jobs \subseteq Commands
    /\ NoMapping \in Mappings
    /\ Absent \notin Mappings
    /\ MaxRuns \in Nat /\ MaxFaults \in Nat

Versions == {1, 2}
Latest == 2

VARIABLES
    \* the database
    schema,     \* the versions whose tables or columns are there
    applied,    \* the rows of goose_db_version, but for that of version 0
    nextId,     \* its identity sequence
    providers,  \* providers[e] is the attribute_mapping of e, or Absent
    \* the commands
    op,         \* what the process runs
    step,       \* the next step of it
    todo,       \* up: the versions to apply
    listed,     \* down: the rows that were listed and are not reverted yet
    target,     \* down: the version to go down to, or OneStep
    pending,    \* check: what HasPending returned
    result,     \* what the command printed
    \* history
    promised,   \* promised[e] is the mapping e was last registered with, or Absent
    undone,     \* what a plain migrate down took back last, and the highest it had listed
    runs,       \* how many commands have been run
    overlap,    \* a command was run while another was running
    crossed,    \* the checks between whose two queries a migration was applied or
                \*   taken back
    rolledBack, \* some migration has been taken back
    faults      \* how many faults the environment has caused

database == <<schema, applied, nextId, providers>>
commands == <<op, step, todo, listed, target, pending, result>>
history == <<promised, undone, runs, overlap, crossed, rolledBack, faults>>
vars == <<database, commands, history>>

OneStep == -1
NoResult == [status |-> "none", version |-> 0]
Ended == {"idle", "done", "failed"}

VersionsOf(rows) == {r.version : r \in rows}

Highest(rows) == IF rows = {} THEN 0 ELSE CHOOSE v \in VersionsOf(rows) :
                                                \A w \in VersionsOf(rows) : w <= v

\* A slip: the rows are listed oldest first.
Newest_First(rows) == CHOOSE r \in rows : \A s \in rows : r.id <= s.id

\* ORDER BY id DESC
Newest(rows) == CHOOSE r \in rows : \A s \in rows : s.id <= r.id

TypeOK ==
    /\ schema \subseteq Versions
    /\ applied \subseteq [id : Nat, version : Versions]
    /\ nextId \in Nat
    /\ providers \in [EntityIds -> Mappings \cup {Absent}]
    /\ \A e \in EntityIds : providers[e] # Absent => 1 \in schema
    /\ op \in [Commands -> {"none", "up", "down", "check"}]
    /\ step \in [Commands -> Ended \cup {"list", "run", "version"}]
    /\ todo \in [Commands -> SUBSET Versions]
    /\ listed \in [Commands -> SUBSET [id : Nat, version : Versions]]
    /\ target \in [Commands -> {OneStep, 0} \cup Versions]
    /\ pending \in [Commands -> BOOLEAN]
    /\ result \in [Commands -> [status : {"none", "ok", "pending", "unknown"},
                                version : {0} \cup Versions]]
    /\ promised \in [EntityIds -> Mappings \cup {Absent}]
    /\ undone \in [version : {0} \cup Versions, highest : {0} \cup Versions]
    /\ runs \in Nat
    /\ overlap \in BOOLEAN
    /\ crossed \subseteq Commands
    /\ rolledBack \in BOOLEAN
    /\ faults \in Nat

\* An empty database.
Init ==
    /\ schema = {} /\ applied = {} /\ nextId = 1
    /\ providers = [e \in EntityIds |-> Absent]
    /\ op = [p \in Commands |-> "none"]
    /\ step = [p \in Commands |-> "idle"]
    /\ todo = [p \in Commands |-> {}]
    /\ listed = [p \in Commands |-> {}]
    /\ target = [p \in Commands |-> OneStep]
    /\ pending = [p \in Commands |-> FALSE]
    /\ result = [p \in Commands |-> NoResult]
    /\ promised = [e \in EntityIds |-> Absent]
    /\ undone = [version |-> 0, highest |-> 0]
    /\ runs = 0 /\ overlap = FALSE /\ crossed = {} /\ rolledBack = FALSE /\ faults = 0

Fault == faults < MaxFaults /\ faults' = faults + 1

\* The rows change: a check may be between its two queries of them.
Cross == crossed' = crossed \cup {p \in Commands : step[p] = "version"}

Goto(p, to) == step' = [step EXCEPT ![p] = to]

-----------------------------------------------------------------------------
(* The migrations, each a transaction with its row *)

\* ALTER TABLE needs the tables, whichever way it goes.
Runnable(v) == v = 1 \/ 1 \in schema

\* A slip: 001 is edited to create the columns of 002 as well.
UpSchema_Edited(v) == schema \cup Versions

UpSchema(v) == schema \cup {v}

\* A slip: ADD COLUMN without IF NOT EXISTS, after a DROP COLUMN IF EXISTS.
UpRows_Anew(v) == [e \in EntityIds |-> IF v = 2 /\ providers[e] # Absent THEN NoMapping
                                                                         ELSE providers[e]]

\* IF NOT EXISTS: what is there stays as it is; new columns are NULL or empty.
UpRows(v) == providers

ApplyUp(v) ==
    /\ schema' = UpSchema(v)
    /\ applied' = applied \cup {[id |-> nextId, version |-> v]}
    /\ nextId' = nextId + 1
    /\ providers' = UpRows(v)

\* A slip: the Down of 001 does not drop service_providers.
DownRows_Kept(v) == [e \in EntityIds |-> IF providers[e] = Absent THEN Absent ELSE NoMapping]

\* Version 1 is taken back with its tables, version 2 with its columns and what
\* they held.
DownRows(v) ==
    [e \in EntityIds |-> IF v = 1 THEN Absent
                         ELSE IF providers[e] = Absent THEN Absent ELSE NoMapping]

\* DELETE FROM goose_db_version WHERE version_id = v: all of them, if there are more.
RowsOf(v) == {r \in applied : r.version = v}

ApplyDown(v) ==
    /\ schema' = IF v = 1 THEN {} ELSE schema \ {v}
    /\ applied' = applied \ RowsOf(v)
    /\ providers' = DownRows(v)
    /\ UNCHANGED nextId

-----------------------------------------------------------------------------
(* The commands *)

\* A version below the highest that is not applied: "found missing migrations".
MissingVersion(rows) == \E v \in Versions : v < Highest(rows) /\ v \notin VersionsOf(rows)

NotApplied(rows) == {v \in Versions : v > Highest(rows)}

Start(p, o) ==
    /\ step[p] \in Ended /\ runs < MaxRuns
    /\ p \in Jobs => o = "up"
    /\ op' = [op EXCEPT ![p] = o]
    /\ runs' = runs + 1
    /\ overlap' = (overlap \/ \E q \in Commands \ {p} : step[q] \notin Ended)

\* HasPending, which up asks first: with nothing to do it ends here.
AskUp(p) ==
    /\ Goto(p, IF MissingVersion(applied) THEN "failed"
               ELSE IF NotApplied(applied) = {} THEN "done" ELSE "list")
    /\ UNCHANGED <<database, todo, listed, target, pending, result, promised, undone,
                   crossed, rolledBack, faults>>

StartUp(p) == Start(p, "up") /\ AskUp(p)

\* restartPolicy OnFailure: the job runs a command that failed again.
RestartUp(p) ==
    /\ p \in Jobs /\ op[p] = "up" /\ step[p] = "failed"
    /\ AskUp(p)
    /\ overlap' = (overlap \/ \E q \in Commands \ {p} : step[q] \notin Ended)
    /\ UNCHANGED <<op, runs>>

\* The rows are listed once more, and what is to be applied is settled.
ListUp(p) ==
    /\ op[p] = "up" /\ step[p] = "list"
    /\ todo' = [todo EXCEPT ![p] = NotApplied(applied)]
    /\ Goto(p, IF MissingVersion(applied) THEN "failed"
               ELSE IF NotApplied(applied) = {} THEN "done" ELSE "run")
    /\ UNCHANGED <<database, op, listed, target, pending, result, history>>

\* A slip: UpByOne for Up.
AfterUp_One(p, v) == "done"

AfterUp(p, v) == IF todo[p] = {v} THEN "done" ELSE "run"

\* The lowest of them is applied, and the next one after it.
Up(p) ==
    \E v \in todo[p] :
        /\ op[p] = "up" /\ step[p] = "run"
        /\ \A w \in todo[p] : v <= w
        /\ IF Runnable(v)
           THEN /\ ApplyUp(v) /\ Cross
                /\ todo' = [todo EXCEPT ![p] = @ \ {v}]
                /\ Goto(p, AfterUp(p, v))
           ELSE Goto(p, "failed") /\ UNCHANGED <<database, todo, crossed>>
        /\ UNCHANGED <<op, listed, target, pending, result, promised, undone, runs, overlap,
                       rolledBack, faults>>

\* migrate down, or migrate down --version to.
StartDown(p, to) ==
    /\ Start(p, "down")
    /\ target' = [target EXCEPT ![p] = to]
    /\ listed' = [listed EXCEPT ![p] = applied]
    /\ Goto(p, IF applied # {} THEN "run" ELSE IF to = OneStep THEN "failed" ELSE "done")
    /\ UNCHANGED <<database, todo, pending, result, promised, undone, crossed, rolledBack,
                   faults>>

\* The row listed first tells what to take back, until one is at the target.
Down(p) ==
    LET r == Newest(listed[p])
        v == r.version
        rest == listed[p] \ {r}
    IN  /\ op[p] = "down" /\ step[p] = "run"
        /\ CASE v <= target[p] ->
                  Goto(p, "done") /\ UNCHANGED <<database, listed, undone, crossed, rolledBack>>
             [] v > target[p] /\ ~Runnable(v) ->
                  Goto(p, "failed") /\ UNCHANGED <<database, listed, undone, crossed, rolledBack>>
             [] OTHER ->
                  /\ ApplyDown(v) /\ Cross
                  /\ listed' = [listed EXCEPT ![p] = rest]
                  /\ Goto(p, IF target[p] = OneStep \/ rest = {} THEN "done" ELSE "run")
                  /\ rolledBack' = TRUE
                  /\ undone' = IF target[p] = OneStep
                               THEN [version |-> v, highest |-> Highest(listed[p])] ELSE undone
        /\ UNCHANGED <<op, todo, target, pending, result, promised, runs, overlap, faults>>

\* A statement fails, or the process ends: its transaction is undone, the ones
\* before it are not.
Fail(p) ==
    /\ step[p] \notin Ended
    /\ Fault
    /\ Goto(p, "failed")
    /\ UNCHANGED <<database, op, todo, listed, target, pending, result, promised, undone,
                   runs, overlap, crossed, rolledBack>>

\* migrate check: HasPending, ...
StartCheck(p) ==
    /\ Start(p, "check")
    /\ result' = [result EXCEPT ![p] = NoResult]
    /\ pending' = [pending EXCEPT ![p] = NotApplied(applied) # {}]
    /\ Goto(p, IF MissingVersion(applied) THEN "failed" ELSE "version")
    /\ crossed' = crossed \ {p}
    /\ UNCHANGED <<database, todo, listed, target, promised, undone, rolledBack, faults>>

\* A slip: the version decides.
CheckStatus_Version(p) == IF Highest(applied) = 0 THEN "pending" ELSE "ok"

CheckStatus(p) == IF pending[p] THEN "pending" ELSE "ok"

\* ... then GetDBVersion.
CheckVersion(p) ==
    /\ op[p] = "check" /\ step[p] = "version"
    /\ result' = [result EXCEPT ![p] = [status |-> CheckStatus(p), version |-> Highest(applied)]]
    /\ Goto(p, "done")
    /\ UNCHANGED <<database, op, todo, listed, target, pending, history>>

\* The version cannot be read: that is an error only if something is pending.
CheckNoVersion(p) ==
    /\ op[p] = "check" /\ step[p] = "version"
    /\ Fault
    /\ IF pending[p] THEN Goto(p, "failed") /\ UNCHANGED result
       ELSE /\ Goto(p, "done")
            /\ result' = [result EXCEPT ![p] = [status |-> "unknown", version |-> 0]]
    /\ UNCHANGED <<database, op, todo, listed, target, pending, promised, undone, runs,
                   overlap, crossed, rolledBack>>

-----------------------------------------------------------------------------
(* The server *)

\* The upsert names attribute_mapping, with a mapping or without one: where the
\* column is missing the statement fails and the registration is answered 500.
Register(e, m) ==
    /\ schema = Versions
    /\ providers' = [providers EXCEPT ![e] = m]
    /\ promised' = [promised EXCEPT ![e] = m]
    /\ UNCHANGED <<schema, applied, nextId, commands, undone, runs, overlap, crossed, rolledBack,
                   faults>>

\* Every command has been run to its end.
Rest == runs = MaxRuns /\ (\A p \in Commands : step[p] \in Ended) /\ UNCHANGED vars

Proceed(p) == ListUp(p) \/ Up(p) \/ Down(p) \/ CheckVersion(p) \/ CheckNoVersion(p) \/ Fail(p)

Next ==
    \/ \E p \in Commands : StartUp(p) \/ RestartUp(p) \/ StartCheck(p) \/ Proceed(p)
    \/ \E p \in Commands, to \in {OneStep, 0, 1} : StartDown(p, to)
    \/ \E e \in EntityIds, m \in Mappings : Register(e, m)
    \/ Rest

Spec == Init /\ [][Next]_vars

\* A process runs on, and the job runs a command that failed again.
FairSpec == Spec /\ \A p \in Commands : WF_vars(Proceed(p)) /\ WF_vars(RestartUp(p))

-----------------------------------------------------------------------------
(* Properties *)

\* The version table says what the schema is, through failures and restarts and
\* although nothing keeps two commands apart, unless commands have overlapped and
\* migrations were taken back as well (migrate.go 39-46).
VersionTrue == (overlap /\ rolledBack) \/ schema = VersionsOf(applied)

\* A registered mapping is what the table holds until a migration is taken back,
\* also when a second migrate up runs over a schema that is in use, or a server is
\* started before the schema is there (002, lines 4-9; serve.go 73).
MappingKept == rolledBack \/ providers = promised

\* "database is up to date": a check asks for pending migrations and for the version in
\* two queries (migrate.go 199-204).  They agree, "ok" with the latest version and
\* "pending" with an older one, whatever other commands have done before or have left
\* half done; only a migration applied or taken back between the two queries of that
\* very check can make it print the one with the other's version, which it then may.
CheckTold ==
    \A p \in Commands : result[p].status \in {"ok", "pending"} /\ p \notin crossed =>
        (result[p].status = "ok" <=> result[p].version = Latest)

Reaches(p) ==
    IF target[p] = OneStep THEN VersionsOf(applied') = VersionsOf(applied) \ {Highest(applied)}
    ELSE Highest(applied') <= target[p]

\* "Roll back the last migration, or down to a specific version": it does just
\* that when it runs alone and no two commands have overlapped before.
DownReaches ==
    [][\A p \in Commands :
        op[p] = "down" /\ step[p] = "run" /\ step'[p] = "done" /\ ~overlap => Reaches(p)]_vars

\* "Roll back the last migration" (migrate.go 98): what migrate down takes back is the
\* highest version it found applied. Two overlapping migrate up can leave a row of
\* version 1 that is newer than that of version 2.
RollsBackLast == undone.version = undone.highest

\* Once the job has been started the schema is complete in the end, whatever fails
\* on the way, and an early server can store (jobs.yaml 25), unless someone takes
\* migrations back.
Migrated == \A p \in Jobs : op[p] = "up" ~> (schema = Versions \/ rolledBack)
=============================================================================
