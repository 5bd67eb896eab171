------------------------------ MODULE Database ------------------------------
(***************************************************************************)
(* The PostgreSQL tables of the bridge as internal/provider/database.go    *)
(* uses them: `sessions`, keyed by session id, and `service_providers`,    *)
(* keyed by entity id, with the clock NOW() that expiry is compared with.  *)
(* Every method of Database is one SQL statement, hence one atomic step    *)
(* here: a reader is an operator on the tables, a writer a conjunct of an  *)
(* action.  Errors of the connection are the callers' business.            *)
(*                                                                         *)
(* A row that does not exist is NoSession or Unregistered, so the tables   *)
(* are total functions.  Of a session row the model keeps whom it speaks   *)
(* for and when it expires; the claims and profile columns of that user    *)
(* are data of AttributeMapping.                                           *)
(***************************************************************************)
EXTENDS Integers

CONSTANTS
    Agents,       \* the users, each with a browser of their own
    NoUser,       \* the user of a session row that does not exist
    SessionIds,   \* the values of sessions.id
    EntityIds,    \* the values of service_providers.entity_id
    AcsUrls,      \* the values of service_providers.acs_url
    Mappings,     \* the values of service_providers.attribute_mapping, with NoMapping
    NoMapping,    \* a NULL or empty attribute_mapping
    Unregistered  \* the row of an entity id that has none

Configs == [acs : AcsUrls, binding : {"POST", "Redirect"}, mapping : Mappings]

ASSUME DatabaseAssumption ==
    /\ NoUser \notin Agents
    /\ NoMapping \in Mappings
    /\ Unregistered \notin Configs

VARIABLES
    sessions,          \* sessions[id] is the row of that id, or NoSession
    serviceProviders,  \* serviceProviders[e] is the row of that entity, or Unregistered
    now                \* what NOW() and time.Now() return, in ticks

NoSession == [user |-> NoUser, expire |-> 0]

Sessions == [user : Agents \cup {NoUser}, expire : Nat]

DatabaseTypeOK ==
    /\ sessions \in [SessionIds -> Sessions]
    /\ serviceProviders \in [EntityIds -> Configs \cup {Unregistered}]
    /\ now \in Nat

-----------------------------------------------------------------------------
\* INSERT ... ON CONFLICT (id) DO UPDATE: a row of the same id is replaced.
SaveSession(id, row) == sessions' = [sessions EXCEPT ![id] = row]

\* A slip: the WHERE clause without its expiry.
Retrievable_Ever(id) == id \in SessionIds /\ sessions[id] # NoSession

\* WHERE id = $1 AND expire_time > NOW(): an expired row is no row.
Retrievable(id) == id \in SessionIds /\ sessions[id].expire > now

GetSession(id) == IF Retrievable(id) THEN sessions[id] ELSE NoSession

\* A slip: COALESCE(EXCLUDED.attribute_mapping, attribute_mapping).
SaveServiceProvider_Merge(e, config) ==
    serviceProviders' = [serviceProviders EXCEPT ![e] =
        IF config.mapping = NoMapping /\ @ # Unregistered
        THEN [config EXCEPT !.mapping = serviceProviders[e].mapping] ELSE config]

\* INSERT ... ON CONFLICT (entity_id) DO UPDATE of every column, the mapping too.
SaveServiceProvider(e, config) ==
    serviceProviders' = [serviceProviders EXCEPT ![e] = config]

GetServiceProvider(e) == serviceProviders[e]

\* Selects the mapping alone, in a statement of its own; no row means no mapping.
GetAttributeMapping(e) ==
    IF serviceProviders[e] = Unregistered THEN NoMapping ELSE serviceProviders[e].mapping
=============================================================================
