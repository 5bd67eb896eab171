----------------------------- MODULE MCMapping -----------------------------
(***************************************************************************)
(* The tokens and mappings that AttributeMapping is checked over.          *)
(***************************************************************************)
EXTENDS AttributeMapping, TLC

Str(s) == [type |-> "string", items |-> <<s>>]
List(items) == [type |-> "list", items |-> items]
Number == [type |-> "other", items |-> << >>]

None == << >>
Optional(c, values) == {None} \cup {c :> v : v \in values}

MCTokens ==
    {("email" :> Str("Ann@X")) @@ sub @@ name @@ groups @@ extra :
        sub \in Optional("sub", {Str("s1")}),
        name \in Optional("name", {Str(""), Str("Ann")}),
        groups \in Optional("groups", {List(<< >>), List(<<"g1">>), List(<<"g1", "", "g2">>)}),
        extra \in Optional("username", {Str("ann"), List(<<"ann", "Ann@X">>), Number})}

MCClaims == {
    None,
    [sub |-> "subject", email |-> "email", username |-> "name"],
    [name |-> "name", username |-> "name", email |-> "mail"],
    [username |-> "email", groups |-> "groups"]}

MCAttributes == {
    None,
    [email |-> "mail", groups |-> "memberOf", name |-> "cn"],
    [email |-> "id", subject |-> "id"],
    [mail |-> "mail", other |-> "other"]}

MCFormats == {"", "Persistent", "emailAddress", "transient", "bogus", Urn.persistent}

MCMappings ==
    [NameIDFormat : MCFormats, SAMLAttributes : MCAttributes, OIDCClaims : MCClaims,
     Options : [LowercaseEmail : BOOLEAN]]

MCLowerCase == "Persistent" :> "persistent" @@ "emailAddress" :> "emailaddress"
                @@ "Ann@X" :> "ann@x" @@ "Ann" :> "ann"

MCUrns == {Urn.persistent}
=============================================================================
