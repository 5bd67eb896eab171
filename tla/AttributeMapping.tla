-------------------------- MODULE AttributeMapping --------------------------
(***************************************************************************)
(* internal/provider/mapping.go: how the claims of an ID token become the  *)
(* attributes and the NameID a service provider is told, under the mapping *)
(* registered for it.  The operators are pure; the actions at the end take *)
(* one token through handleOIDCCallback and one mapping through            *)
(* applyAttributeMapping, as the bridge does within a login.               *)
(*                                                                         *)
(* A Go string that may be a NUL-joined list is the sequence of its parts, *)
(* so "" is <<"">> and a plain string has one part.  A claim of the token  *)
(* is the sequence of the strings it holds: none for an empty list and for *)
(* a number, a boolean or an object.  Go's maps are iterated in any order: *)
(* what depends on it, the order of the attributes and the choice between  *)
(* two claims mapped to one field, is a set of possible results.           *)
(***************************************************************************)
EXTENDS Integers, Sequences, FiniteSets, Functions

CONSTANTS
    Tokens,       \* the ID tokens: functions from claim names to [type, items]
    AttributeMappings,  \* the mappings that may be registered
    LowerCase,    \* strings.ToLower where it is not the identity
    Urns,         \* the NameID formats that begin with "urn:"
    Absent        \* no session, no mapping, no result yet

\* strings.ToLower makes nothing empty.
ASSUME LowerCaseAssumption == \A s \in DOMAIN LowerCase : s # "" /\ LowerCase[s] # ""

\* The parser of the token leaves sequences of items, and one item for a string.
ASSUME TokensAssumption ==
    \A t \in Tokens : \A c \in DOMAIN t :
        /\ t[c].items \in Seq(STRING)
        /\ t[c].type = "string" => Len(t[c].items) = 1

\* A mapping is a JSON object: it lists finitely many attributes.
ASSUME MappingsAssumption ==
    \A m \in AttributeMappings : IsFiniteSet(DOMAIN m.SAMLAttributes)

ToLower(s) == IF s \in DOMAIN LowerCase THEN LowerCase[s] ELSE s

Empty == <<"">>

Kept(v) == {i \in DOMAIN v : v[i] # ""}

Present(v) == Kept(v) # {}

\* The n-th of a set of positions.
Nth(positions, n) == CHOOSE i \in positions : Cardinality({j \in positions : j <= i}) = n

NonEmptyParts(v) == [n \in 1..Cardinality(Kept(v)) |-> v[Nth(Kept(v), n)]]

-----------------------------------------------------------------------------
(* The session that a token becomes (handleOIDCCallback). *)

Claim(token, c) == IF c \in DOMAIN token THEN token[c].items ELSE Empty

\* The claims struct: a claim of another type is a parse error, and the email a must.
Usable(token) ==
    /\ \A c \in {"sub", "email", "name"} \cap DOMAIN token : token[c].type = "string"
    /\ "groups" \in DOMAIN token => token["groups"].type = "list"
    /\ Claim(token, "email") # Empty

SessionOf(token) ==
    [NameID |-> Claim(token, "email"), NameIDFormat |-> "",
     UserEmail |-> Claim(token, "email"),
     UserCommonName |-> IF Claim(token, "name") = Empty THEN Claim(token, "email")
                                                        ELSE Claim(token, "name"),
     UserName |-> Claim(token, "sub"),
     Groups |-> IF "groups" \in DOMAIN token THEN token["groups"].items ELSE << >>,
     CustomAttributes |-> << >>]

-----------------------------------------------------------------------------
(* nameIDFormatToURN and getNameIDValue *)

Urn == [persistent   |-> "urn:oasis:names:tc:SAML:2.0:nameid-format:persistent",
        transient    |-> "urn:oasis:names:tc:SAML:2.0:nameid-format:transient",
        emailAddress |-> "urn:oasis:names:tc:SAML:1.1:nameid-format:emailAddress",
        unspecified  |-> "urn:oasis:names:tc:SAML:1.1:nameid-format:unspecified"]

nameIDFormatToURN(format) ==
    CASE ToLower(format) = "persistent"                 -> Urn.persistent
      [] ToLower(format) = "transient"                  -> Urn.transient
      [] ToLower(format) \in {"emailaddress", "email"}  -> Urn.emailAddress
      [] ToLower(format) = "unspecified"                -> Urn.unspecified
      [] OTHER -> IF format \in Urns THEN format ELSE Urn.transient

FirstPresent(model, fields) ==
    LET has == {i \in DOMAIN fields : fields[i] \in DOMAIN model /\ model[fields[i]] # Empty}
    IN  IF has = {} THEN Empty
        ELSE model[fields[CHOOSE i \in has : \A j \in has : i <= j]]

\* A slip: the order of the default format for the persistent one too.
getNameIDValue_EmailFirst(model, format) ==
    IF ToLower(format) \in {"emailaddress", "email"} THEN FirstPresent(model, <<"email">>)
    ELSE FirstPresent(model, <<"email", "subject">>)

getNameIDValue(model, format) ==
    FirstPresent(model, CASE ToLower(format) = "persistent" -> <<"subject", "email">>
                          [] ToLower(format) \in {"emailaddress", "email"} -> <<"email">>
                          [] OTHER -> <<"email", "subject">>)

-----------------------------------------------------------------------------
(* buildInternalModel *)

DefaultClaims ==
    [sub |-> "subject", email |-> "email", name |-> "name", groups |-> "groups"]

OidcToInternal(mapping) ==
    IF DOMAIN mapping.OIDCClaims = {} THEN DefaultClaims ELSE mapping.OIDCClaims

SessionValues(session) ==
    [sub |-> session.UserName, email |-> session.UserEmail, name |-> session.UserCommonName,
     groups |-> session.Groups]

\* A slip: only what the session row kept of the token can be mapped.
OidcValue_SessionOnly(session, rawClaims, c) ==
    IF c \in DOMAIN SessionValues(session) THEN SessionValues(session)[c] ELSE << >>

\* The value of claim c: the token's own where it holds a string, else what the
\* session kept of it, which for groups may be nothing; << >> for no value.
OidcValue(session, rawClaims, c) ==
    IF c \in DOMAIN rawClaims /\ rawClaims[c].items # << >> THEN rawClaims[c].items
    ELSE IF c \in DOMAIN SessionValues(session) THEN SessionValues(session)[c]
    ELSE << >>

\* A slip: an internal field takes any claim, mapped to it or not.
Sources_Any(session, mapping, rawClaims, field) ==
    {c \in DOMAIN OidcToInternal(mapping) : OidcValue(session, rawClaims, c) # << >>}

Sources(session, mapping, rawClaims, field) ==
    {c \in DOMAIN OidcToInternal(mapping) :
        OidcToInternal(mapping)[c] = field /\ OidcValue(session, rawClaims, c) # << >>}

\* Of several claims mapped to one field, the last one iterated stays.
InternalModels(session, mapping, rawClaims) ==
    LET claims == OidcToInternal(mapping)
        from(f) == Sources(session, mapping, rawClaims, f)
        fields == {f \in {claims[c] : c \in DOMAIN claims} : from(f) # {}}
        last == {pick \in [fields -> DOMAIN claims] : \A f \in fields : pick[f] \in from(f)}
    IN  {[f \in fields |-> OidcValue(session, rawClaims, pick[f])] : pick \in last}

-----------------------------------------------------------------------------
(* applyAttributeMapping *)

Transformed(model, options) ==
    IF options.LowercaseEmail /\ "email" \in DOMAIN model
    THEN [model EXCEPT !["email"] = [i \in DOMAIN @ |-> ToLower(@[i])]]
    ELSE model

Named(session, mapping, model) ==
    IF mapping.NameIDFormat = "" THEN session
    ELSE [session EXCEPT !.NameIDFormat = nameIDFormatToURN(mapping.NameIDFormat),
                         !.NameID = getNameIDValue(model, mapping.NameIDFormat)]

\* A slip: a list is released as it is joined, empty items and all.
Attribute_Unfiltered(name, value) == [Name |-> name, Values |-> value]

\* The list is split at the NULs again, without its empty items.
Attribute(name, value) == [Name |-> name, Values |-> NonEmptyParts(value)]

\* A slip: the built-in fields are kept beside the custom attributes.
Cleared_Not(session) == session

\* "Clear built-in fields to prevent default attribute generation by the library"
Cleared(session) ==
    [session EXCEPT !.UserEmail = Empty, !.UserCommonName = Empty, !.UserName = Empty,
                    !.Groups = << >>]

\* The fields that are listed and have a value.
Listed(mapping, model) ==
    {f \in DOMAIN mapping.SAMLAttributes \cap DOMAIN model : Present(model[f])}

\* The orders in which Go may iterate a map with these keys.
Orders(keys) == Bijection(1..Cardinality(keys), keys)

\* An attribute is appended for each field that is listed, in the order of iteration;
\* two of one name both stay.
Released(session, mapping, model) ==
    LET names == mapping.SAMLAttributes
        appended(order) ==
            [i \in DOMAIN order |-> Attribute(names[order[i]], model[order[i]])]
    IN  IF DOMAIN names = {} THEN {session}
        ELSE {[Cleared(session) EXCEPT !.CustomAttributes = @ \o appended(order)] :
                order \in Orders(Listed(mapping, model))}

Outcomes(session, mapping, model) ==
    Released(Named(session, mapping, model), mapping, model)

applyAttributeMapping(session, mapping, rawClaims) ==
    UNION {Outcomes(session, mapping, Transformed(m, mapping.Options)) :
              m \in InternalModels(session, mapping, rawClaims)}

-----------------------------------------------------------------------------
(* One login.  A row saved before migration 002 has an empty user_name and *)
(* no raw_oidc_claims: it may still be live when the new server reads it.  *)

VARIABLES
    token,      \* the ID token
    session,    \* the row saved from it, or Absent
    rawClaims,  \* its raw_oidc_claims
    mapping,    \* the mapping registered for the service provider, or Absent
    result      \* the session the assertion is made from, or Absent

vars == <<token, session, rawClaims, mapping, result>>

NoClaims == << >>

Init ==
    /\ token \in Tokens
    /\ session = Absent /\ rawClaims = NoClaims /\ mapping = Absent /\ result = Absent

\* The callback stores the session and every claim of the token.
SaveSession ==
    /\ session = Absent /\ Usable(token)
    /\ session' = SessionOf(token)
    /\ rawClaims' = token
    /\ UNCHANGED <<token, mapping, result>>

\* The same row as the release before migration 002 wrote it.
SavedBefore002 ==
    /\ session = Absent /\ Usable(token)
    /\ session' = [SessionOf(token) EXCEPT !.UserName = Empty]
    /\ UNCHANGED <<token, rawClaims, mapping, result>>

Apply(m) ==
    /\ session # Absent /\ mapping = Absent
    /\ mapping' = m
    /\ result' \in applyAttributeMapping(session, m, rawClaims)
    /\ UNCHANGED <<token, session, rawClaims>>

Next == SaveSession \/ SavedBefore002 \/ \E m \in AttributeMappings : Apply(m)

Spec == Init /\ [][Next]_vars

-----------------------------------------------------------------------------
(* Properties *)

Done == result # Absent

Current == rawClaims = token

\* The strings of claim c that the token holds and a mapping may release.
Strings(c) == NonEmptyParts(Claim(token, c))

Lowered(strings) == [i \in DOMAIN strings |-> ToLower(strings[i])]

Attributes(s) == {s.CustomAttributes[i] : i \in DOMAIN s.CustomAttributes}

MappedTo(field) ==
    {c \in DOMAIN OidcToInternal(mapping) : OidcToInternal(mapping)[c] = field}

\* Every custom attribute carries the strings of one claim of the token, one that
\* is mapped to the field that is mapped to the attribute: joining the items at
\* NULs, overlaying, picking and splitting again loses, adds and mixes nothing.
\* A name the token lacks is the email, and the email is lowercased where the
\* mapping asks for it, and only there (lines 59-219).
AttributesComeFromTheirClaims ==
    Done => \A a \in Attributes(result) :
        /\ a.Values # << >>
        /\ \E f \in DOMAIN mapping.SAMLAttributes :
            /\ mapping.SAMLAttributes[f] = a.Name
            /\ \E c \in MappedTo(f) :
                  LET kept == IF c = "name" /\ Strings(c) = << >> THEN Strings("email")
                                                                  ELSE Strings(c)
                  IN  a.Values = IF f = "email" /\ mapping.Options.LowercaseEmail
                                 THEN Lowered(kept) ELSE kept

\* A claim of strings that is mapped to a field of its own, and on to an
\* attribute, is released, whatever else the mapping does with other claims.
MappedClaimsAreReleased ==
    Done /\ Current => \A c \in DOMAIN OidcToInternal(mapping) \cap DOMAIN token :
        LET f == OidcToInternal(mapping)[c]
        IN  MappedTo(f) = {c} /\ f \in DOMAIN mapping.SAMLAttributes /\ Strings(c) # << >>
            => \E a \in Attributes(result) : a.Name = mapping.SAMLAttributes[f]

\* "Any claim present in the OIDC ID token can be mapped", numbers and booleans
\* with the rest.
AnyClaimCanBeMapped ==
    Done /\ Current => \A c \in DOMAIN OidcToInternal(mapping) \cap DOMAIN token :
        LET f == OidcToInternal(mapping)[c]
        IN  /\ MappedTo(f) = {c} /\ f \in DOMAIN mapping.SAMLAttributes
            /\ token[c].type = "other"
            => \E a \in Attributes(result) : a.Name = mapping.SAMLAttributes[f]

\* What the SAML library turns into attributes by itself.
BuiltIn(s) == {v \in {s.UserEmail, s.UserCommonName, s.UserName} : v # Empty}

\* A mapping that lists SAML attributes decides alone what is released.
OnlyListedAttributes ==
    Done /\ DOMAIN mapping.SAMLAttributes # {} =>
        /\ BuiltIn(result) = {} /\ result.Groups = << >>
        /\ \A a \in Attributes(result) :
              \E f \in DOMAIN mapping.SAMLAttributes : mapping.SAMLAttributes[f] = a.Name

Persistent ==
    Done /\ Current /\ MappedTo("subject") = {"sub"} /\ Strings("sub") # << >>

\* A persistent NameID, asked for by its short name, is the OIDC subject: it does
\* not move when the user's email does (getNameIDValue 223-249).
PersistentIsTheSubject ==
    Persistent /\ ToLower(mapping.NameIDFormat) = "persistent" => result.NameID = Strings("sub")

\* "getNameIDValue returns the NameID value based on the configured format": also
\* when the format is given by its full URN, as the README allows.
PersistentUrnIsTheSubject ==
    Persistent /\ result.NameIDFormat = Urn.persistent => result.NameID = Strings("sub")

Unambiguous(m) ==
    \A c, d \in DOMAIN OidcToInternal(m) : OidcToInternal(m)[c] = OidcToInternal(m)[d] => c = d

\* The one is the other with its attributes in another order.
Rearranged(one, other) ==
    /\ [one EXCEPT !.CustomAttributes = << >>] = [other EXCEPT !.CustomAttributes = << >>]
    /\ \E p \in Bijection(DOMAIN one.CustomAttributes, DOMAIN other.CustomAttributes) :
          \A i \in DOMAIN p : other.CustomAttributes[p[i]] = one.CustomAttributes[i]

\* The order in which Go iterates its maps shows in the order of the attributes, which
\* differs from one login to the next (lines 108 and 148), and, where two claims are
\* mapped to one field, in which of them is told (212).  It shows in nothing else: the
\* NameID, and each attribute with its values, are the same however they are iterated.
OrderAloneVaries ==
    Done /\ Unambiguous(mapping) =>
        \A other \in applyAttributeMapping(session, mapping, rawClaims) :
            Rearranged(result, other)
=============================================================================
