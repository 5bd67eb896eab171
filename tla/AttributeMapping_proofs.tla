----------------------- MODULE AttributeMapping_proofs -----------------------
(***************************************************************************)
(* What the mapping of claims to attributes promises, for every token and  *)
(* mapping: an attribute has the strings of a claim mapped to it, a claim  *)
(* that is mapped is released, only what is listed is released, the order  *)
(* in which Go iterates its maps decides the order of the attributes and,  *)
(* unless two claims are mapped to one field, nothing else, and a          *)
(* persistent NameID is the subject.  The part on NonEmptyParts is about   *)
(* sequences alone: the least position up to which there are n takes the   *)
(* place of an induction.                                                  *)
(***************************************************************************)
EXTENDS AttributeMapping, FiniteSetTheorems, SequenceTheorems, WellFoundedInduction, TLAPS

\* A session has just these fields.
IsSession(s) ==
    s = [NameID |-> s.NameID, NameIDFormat |-> s.NameIDFormat, UserEmail |-> s.UserEmail,
         UserCommonName |-> s.UserCommonName, UserName |-> s.UserName, Groups |-> s.Groups,
         CustomAttributes |-> s.CustomAttributes]

\* The session that was saved is the token's, but for the subject that a row from
\* before migration 002 lacks.
OfToken(s, t) ==
    /\ s.NameID = SessionOf(t).NameID /\ s.UserEmail = SessionOf(t).UserEmail
    /\ s.UserCommonName = SessionOf(t).UserCommonName
    /\ s.UserName \in {SessionOf(t).UserName, Empty}
    /\ s.Groups = SessionOf(t).Groups

\* The session that was saved is the token's and has no custom attributes, the raw
\* claims are the token's or none, and the session that is returned is made of both.
MappedInv ==
    /\ token \in Tokens /\ rawClaims \in {token, NoClaims}
    /\ session # Absent =>
          /\ Usable(token) /\ OfToken(session, token)
          /\ IsSession(session) /\ session.CustomAttributes = << >>
    /\ Done => /\ session # Absent /\ mapping \in AttributeMappings
               /\ result \in applyAttributeMapping(session, mapping, rawClaims)

LEMMA SessionOfIs ==
    ASSUME NEW t
    PROVE  IsSession(SessionOf(t)) /\ SessionOf(t).CustomAttributes = << >>
BY DEF IsSession, SessionOf

LEMMA Invariance == Spec => []MappedInv
<1>1. Init => MappedInv
  BY DEF Init, MappedInv, Done
<1>2. ASSUME MappedInv, [Next]_vars PROVE MappedInv'
  <2>1. CASE SaveSession
    <3>1. session = Absent /\ ~Done /\ ~Done'
      BY <1>2, <2>1 DEF SaveSession, MappedInv, Done
    <3>2. IsSession(session') /\ session'.CustomAttributes = << >>
      BY <2>1, SessionOfIs DEF SaveSession
    <3>3. Usable(token) /\ OfToken(session', token) /\ token' = token /\ rawClaims' = token
      BY <2>1 DEF SaveSession, OfToken
    <3>4. token' \in Tokens /\ Usable(token)' /\ OfToken(session, token)' /\ IsSession(session)'
      BY <1>2, <3>2, <3>3 DEF MappedInv, Usable, Claim, OfToken, SessionOf, IsSession
    <3>5. QED
      BY <3>1, <3>2, <3>3, <3>4 DEF MappedInv
  <2>2. CASE SavedBefore002
    <3>1. session = Absent /\ ~Done /\ ~Done'
      BY <1>2, <2>2 DEF SavedBefore002, MappedInv, Done
    <3>2. IsSession(session') /\ session'.CustomAttributes = << >>
      BY <2>2 DEF SavedBefore002, IsSession, SessionOf
    <3>3. Usable(token) /\ OfToken(session', token) /\ token' = token /\ rawClaims' = rawClaims
      BY <2>2 DEF SavedBefore002, OfToken, SessionOf
    <3>4. token' \in Tokens /\ Usable(token)' /\ OfToken(session, token)' /\ IsSession(session)'
      BY <1>2, <3>2, <3>3 DEF MappedInv, Usable, Claim, OfToken, SessionOf, IsSession
    <3>5. QED
      BY <1>2, <3>1, <3>2, <3>3, <3>4 DEF MappedInv, NoClaims
  <2>3. ASSUME NEW m \in AttributeMappings, Apply(m) PROVE MappedInv'
    <3>1. /\ session # Absent /\ session' = session /\ rawClaims' = rawClaims /\ mapping' = m
          /\ token' = token /\ result' \in applyAttributeMapping(session, m, rawClaims)
      BY <2>3 DEF Apply
    <3>2. result' \in applyAttributeMapping(session', mapping', rawClaims')
      BY <3>1
    <3>3. token' \in Tokens /\ Usable(token)' /\ OfToken(session, token)' /\ IsSession(session)'
      BY <1>2, <3>1 DEF MappedInv, Usable, Claim, OfToken, SessionOf, IsSession
    <3>4. QED
      BY <1>2, <3>1, <3>2, <3>3 DEF MappedInv, applyAttributeMapping, NoClaims
  <2>4. CASE UNCHANGED vars
    <3>1. token' \in Tokens /\ (session # Absent =>
             Usable(token)' /\ OfToken(session, token)' /\ IsSession(session)')
      BY <1>2, <2>4 DEF vars, MappedInv, Usable, Claim, OfToken, SessionOf, IsSession
    <3>2. QED
      BY <1>2, <2>4, <3>1 DEF vars, MappedInv, Done, applyAttributeMapping, NoClaims
  <2>5. QED
    BY <1>2, <2>1, <2>2, <2>3, <2>4 DEF Next
<1>3. QED
  BY <1>1, <1>2, PTL DEF Spec

-----------------------------------------------------------------------------

LEMMA NamedIs ==
    ASSUME NEW s, NEW m, NEW model, IsSession(s), s.CustomAttributes = << >>
    PROVE  IsSession(Named(s, m, model)) /\ Named(s, m, model).CustomAttributes = << >>
BY DEF Named, IsSession

LEMMA ClearedIs ==
    ASSUME NEW s, IsSession(s)
    PROVE  LET out == Cleared(s)
           IN  /\ out.UserEmail = Empty /\ out.UserCommonName = Empty /\ out.UserName = Empty
               /\ out.Groups = << >> /\ out.CustomAttributes = s.CustomAttributes
               /\ out.NameID = s.NameID
               /\ {"UserEmail", "UserCommonName", "UserName", "Groups", "NameID",
                   "CustomAttributes"} \subseteq DOMAIN out
<1>1. {"UserEmail", "UserCommonName", "UserName", "Groups", "NameID", "CustomAttributes"}
            \subseteq DOMAIN s
  BY DEF IsSession
<1>2. QED
  BY <1>1 DEF Cleared

-----------------------------------------------------------------------------
(* What is released *)

LEMMA OrderIs ==
    ASSUME NEW keys, IsFiniteSet(keys), NEW order \in Orders(keys)
    PROVE  /\ Cardinality(keys) \in Nat /\ order \in [1..Cardinality(keys) -> keys]
           /\ \A k \in keys : \E i \in DOMAIN order : order[i] = k
           /\ \A i, j \in DOMAIN order : order[i] = order[j] => i = j
<1>1. Cardinality(keys) \in Nat
  BY FS_CardinalityType
<1>2. QED
  BY <1>1 DEF Orders, Bijection, Injection, Surjection, IsInjective

Appended(m, model, order) ==
    [i \in DOMAIN order |-> Attribute(m.SAMLAttributes[order[i]], model[order[i]])]

\* What a mapping adds to a session that has no attributes is what it appends, in some
\* order of iteration.
LEMMA ReleasedIs ==
    ASSUME NEW s, NEW m, NEW model, IsSession(s), s.CustomAttributes = << >>,
           IsFiniteSet(DOMAIN m.SAMLAttributes), DOMAIN m.SAMLAttributes # {},
           NEW out \in Released(s, m, model)
    PROVE  IsFiniteSet(Listed(m, model)) /\
           \E order \in Orders(Listed(m, model)) :
              out = [Cleared(s) EXCEPT !.CustomAttributes = Appended(m, model, order)]
<1> DEFINE keys == Listed(m, model)
           all == {Attribute(m.SAMLAttributes[f], model[f]) : f \in keys}
<1>1. PICK order \in Orders(keys) :
         out = [Cleared(s) EXCEPT !.CustomAttributes = @ \o Appended(m, model, order)]
  BY DEF Released, Appended
<1>2. IsFiniteSet(keys)
  <2>1. keys \subseteq DOMAIN m.SAMLAttributes
    BY DEF Listed
  <2>2. QED
    BY <2>1, FS_Subset
<1> HIDE DEF keys
<1>3. Appended(m, model, order) \in Seq(all)
  <2>1. Cardinality(keys) \in Nat /\ order \in [1..Cardinality(keys) -> keys]
    BY <1>2, OrderIs
  <2>2. Appended(m, model, order) \in [1..Cardinality(keys) -> all]
    BY <2>1 DEF Appended
  <2> HIDE DEF all
  <2>3. QED
    BY <2>1, <2>2, SeqDef
<1>4. << >> \o Appended(m, model, order) = Appended(m, model, order)
  BY <1>3, ConcatEmptySeq
<1>5. out = [Cleared(s) EXCEPT !.CustomAttributes = << >> \o Appended(m, model, order)]
  BY <1>1, ClearedIs
<1>6. QED
  BY <1>2, <1>4, <1>5 DEF keys

\* A release has an attribute for each field that is listed and has a value, keeps the
\* NameID, and leaves no built-in field if the mapping lists attributes.
LEMMA ReleasedAdds ==
    ASSUME NEW s, NEW m, NEW model, IsSession(s), s.CustomAttributes = << >>,
           IsFiniteSet(DOMAIN m.SAMLAttributes), NEW out \in Released(s, m, model)
    PROVE  /\ out.NameID = s.NameID
           /\ Attributes(out) =
                 {Attribute(m.SAMLAttributes[f], model[f]) : f \in Listed(m, model)}
           /\ DOMAIN m.SAMLAttributes # {} =>
                 /\ out.UserEmail = Empty /\ out.UserCommonName = Empty
                 /\ out.UserName = Empty /\ out.Groups = << >>
<1> DEFINE keys == Listed(m, model)
           added == {Attribute(m.SAMLAttributes[f], model[f]) : f \in keys}
<1>1. CASE DOMAIN m.SAMLAttributes = {}
  <2>1. out = s /\ added = {} /\ Attributes(s) = {}
    BY <1>1 DEF Released, Listed, Attributes
  <2>2. QED
    BY <1>1, <2>1
<1>2. CASE DOMAIN m.SAMLAttributes # {}
  <2>1. PICK order \in Orders(keys) :
           out = [Cleared(s) EXCEPT !.CustomAttributes = Appended(m, model, order)]
    BY <1>2, ReleasedIs
  <2>2. IsFiniteSet(keys)
    BY <1>2, ReleasedIs
  <2>3. /\ order \in [DOMAIN order -> keys]
        /\ \A k \in keys : \E i \in DOMAIN order : order[i] = k
    BY <2>2, OrderIs
  <2>4. out.CustomAttributes = Appended(m, model, order)
    BY <2>1, ClearedIs
  <2>5. Attributes(out) = added
    <3>1. Attributes(out) = {Attribute(m.SAMLAttributes[order[i]], model[order[i]]) :
                                i \in DOMAIN order}
      BY <2>4 DEF Attributes, Appended
    <3> HIDE DEF keys
    <3>2. QED
      BY <2>3, <3>1
  <2>6. /\ out.NameID = s.NameID /\ out.UserEmail = Empty /\ out.UserCommonName = Empty
        /\ out.UserName = Empty /\ out.Groups = << >>
    BY <2>1, ClearedIs
  <2>7. QED
    BY <2>5, <2>6
<1>3. QED
  BY <1>1, <1>2

\* The session that is returned is a release of a model of the claims.
LEMMA ResultIs ==
    ASSUME MappedInv, Done
    PROVE  \E m \in InternalModels(session, mapping, rawClaims) :
              LET model == Transformed(m, mapping.Options)
              IN  /\ result.NameID = Named(session, mapping, model).NameID
                  /\ Attributes(result) =
                        {Attribute(mapping.SAMLAttributes[f], model[f]) :
                            f \in Listed(mapping, model)}
                  /\ DOMAIN mapping.SAMLAttributes # {} =>
                        /\ result.UserEmail = Empty /\ result.UserCommonName = Empty
                        /\ result.UserName = Empty /\ result.Groups = << >>
<1>1. IsSession(session) /\ session.CustomAttributes = << >>
  BY DEF MappedInv
<1>2. IsFiniteSet(DOMAIN mapping.SAMLAttributes)
  BY MappingsAssumption DEF MappedInv
<1>3. PICK m \in InternalModels(session, mapping, rawClaims) :
         result \in Outcomes(session, mapping, Transformed(m, mapping.Options))
  BY DEF MappedInv, applyAttributeMapping
<1> DEFINE model == Transformed(m, mapping.Options)
           named == Named(session, mapping, model)
<1>4. IsSession(named) /\ named.CustomAttributes = << >>
  BY <1>1, NamedIs
<1>5. result \in Released(named, mapping, model)
  BY <1>3 DEF Outcomes
<1> HIDE DEF named, model
<1>6. /\ result.NameID = named.NameID
      /\ Attributes(result) =
            {Attribute(mapping.SAMLAttributes[f], model[f]) : f \in Listed(mapping, model)}
      /\ DOMAIN mapping.SAMLAttributes # {} =>
            /\ result.UserEmail = Empty /\ result.UserCommonName = Empty
            /\ result.UserName = Empty /\ result.Groups = << >>
  BY <1>2, <1>4, <1>5, ReleasedAdds
<1>7. QED
  BY <1>6 DEF named, model

\* A mapping that lists SAML attributes decides alone what is released, for any token.
THEOREM OnlyListedCorrect == Spec => []OnlyListedAttributes
<1>1. MappedInv => OnlyListedAttributes
  <2> SUFFICES ASSUME MappedInv, Done, DOMAIN mapping.SAMLAttributes # {}
               PROVE  /\ BuiltIn(result) = {} /\ result.Groups = << >>
                      /\ \A a \in Attributes(result) :
                            \E f \in DOMAIN mapping.SAMLAttributes :
                                mapping.SAMLAttributes[f] = a.Name
    BY DEF OnlyListedAttributes
  <2>1. PICK m \in InternalModels(session, mapping, rawClaims) :
           /\ Attributes(result) =
                 {Attribute(mapping.SAMLAttributes[f], Transformed(m, mapping.Options)[f]) :
                     f \in Listed(mapping, Transformed(m, mapping.Options))}
           /\ result.UserEmail = Empty /\ result.UserCommonName = Empty
           /\ result.UserName = Empty /\ result.Groups = << >>
    BY ResultIs
  <2>2. \A a \in Attributes(result) : \E f \in DOMAIN mapping.SAMLAttributes :
            mapping.SAMLAttributes[f] = a.Name
    BY <2>1 DEF Attribute, Listed
  <2>3. QED
    BY <2>1, <2>2 DEF BuiltIn
<1>2. QED
  BY <1>1, Invariance, PTL

-----------------------------------------------------------------------------

\* If every claim has a field of its own, there is one model at most.
LEMMA OneModel ==
    ASSUME NEW s, NEW m, NEW raw, Unambiguous(m),
           NEW one \in InternalModels(s, m, raw), NEW other \in InternalModels(s, m, raw)
    PROVE  one = other
<1> DEFINE claims == OidcToInternal(m)
           from(f) == Sources(s, m, raw, f)
           fields == {f \in {claims[c] : c \in DOMAIN claims} : from(f) # {}}
           last == {pick \in [fields -> DOMAIN claims] : \A f \in fields : pick[f] \in from(f)}
           made(pick) == [f \in fields |-> OidcValue(s, raw, pick[f])]
<1>1. InternalModels(s, m, raw) = {made(pick) : pick \in last}
  BY DEF InternalModels
<1>2. PICK p \in last : one = made(p)
  BY <1>1
<1>3. PICK q \in last : other = made(q)
  BY <1>1
<1>4. ASSUME NEW f, NEW c \in from(f), NEW d \in from(f) PROVE c = d
  <2>1. c \in DOMAIN claims /\ claims[c] = f /\ d \in DOMAIN claims /\ claims[d] = f
    BY <1>4 DEF Sources
  <2>2. QED
    BY <2>1 DEF Unambiguous
<1>5. \A f \in fields : p[f] = q[f]
  BY <1>4
<1> HIDE DEF fields
<1>6. made(p) = made(q)
  BY <1>5
<1>7. QED
  BY <1>2, <1>3, <1>6

\* Two orders of one set of fields give the same attributes in two orders.
LEMMA ReorderedIs ==
    ASSUME NEW base, "CustomAttributes" \in DOMAIN base, NEW m, NEW model, NEW keys,
           IsFiniteSet(keys), NEW o1 \in Orders(keys), NEW o2 \in Orders(keys), NEW one, NEW other,
           one = [base EXCEPT !.CustomAttributes = Appended(m, model, o1)],
           other = [base EXCEPT !.CustomAttributes = Appended(m, model, o2)]
    PROVE  Rearranged(one, other)
<1> DEFINE n == Cardinality(keys)
           p == [i \in 1..n |-> CHOOSE j \in 1..n : o2[j] = o1[i]]
<1>1. /\ o1 \in [1..n -> keys] /\ o2 \in [1..n -> keys]
      /\ \A k \in keys : (\E i \in 1..n : o1[i] = k) /\ (\E i \in 1..n : o2[i] = k)
      /\ \A i, j \in 1..n : (o1[i] = o1[j] => i = j) /\ (o2[i] = o2[j] => i = j)
  BY OrderIs
<1> HIDE DEF n
<1>2. \A i \in 1..n : p[i] \in 1..n /\ o2[p[i]] = o1[i]
  BY <1>1
<1>3. p \in Bijection(1..n, 1..n)
  <2>1. p \in [1..n -> 1..n]
    BY <1>2
  <2>2. \A i, j \in 1..n : p[i] = p[j] => i = j
    BY <1>1, <1>2
  <2>3. ASSUME NEW j \in 1..n PROVE \E i \in 1..n : p[i] = j
    <3>1. PICK i \in 1..n : o1[i] = o2[j]
      BY <1>1
    <3>2. p[i] = j
      BY <1>1, <1>2, <3>1
    <3>3. QED
      BY <3>2
  <2> HIDE DEF p
  <2>4. QED
    BY <2>1, <2>2, <2>3 DEF Bijection, Injection, Surjection, IsInjective
<1>4. DOMAIN p = 1..n
  OBVIOUS
<1> HIDE DEF p
<1>5. one.CustomAttributes = Appended(m, model, o1)
      /\ other.CustomAttributes = Appended(m, model, o2)
  OBVIOUS
<1>6. DOMAIN one.CustomAttributes = 1..n /\ DOMAIN other.CustomAttributes = 1..n
  BY <1>1, <1>5 DEF Appended
<1>7. \A i \in DOMAIN p : other.CustomAttributes[p[i]] = one.CustomAttributes[i]
  BY <1>1, <1>2, <1>4, <1>5 DEF Appended
<1>8. [one EXCEPT !.CustomAttributes = << >>] = [other EXCEPT !.CustomAttributes = << >>]
  OBVIOUS
<1>9. QED
  BY <1>3, <1>6, <1>7, <1>8 DEF Rearranged

LEMMA SameIsRearranged == ASSUME NEW s, s.CustomAttributes = << >> PROVE Rearranged(s, s)
<1> DEFINE p == [i \in {} |-> i]
<1>1. DOMAIN s.CustomAttributes = {}
  OBVIOUS
<1>2. p \in Bijection({}, {}) /\ DOMAIN p = {}
  BY DEF Bijection, Injection, Surjection, IsInjective
<1> HIDE DEF p
<1>3. QED
  BY <1>1, <1>2 DEF Rearranged

\* The order of Go's maps decides the order of the attributes and nothing else in the
\* session that is returned, unless two claims are mapped to one field, for any token
\* and mapping.
THEOREM OrderAloneVariesCorrect == Spec => []OrderAloneVaries
<1>1. MappedInv => OrderAloneVaries
  <2> SUFFICES ASSUME MappedInv, Done, Unambiguous(mapping),
                      NEW other \in applyAttributeMapping(session, mapping, rawClaims)
               PROVE  Rearranged(result, other)
    BY DEF OrderAloneVaries
  <2>1. PICK m \in InternalModels(session, mapping, rawClaims) :
           result \in Outcomes(session, mapping, Transformed(m, mapping.Options))
    BY DEF MappedInv, applyAttributeMapping
  <2>2. PICK n \in InternalModels(session, mapping, rawClaims) :
           other \in Outcomes(session, mapping, Transformed(n, mapping.Options))
    BY DEF applyAttributeMapping
  <2>3. m = n
    BY OneModel
  <2> DEFINE model == Transformed(m, mapping.Options)
             named == Named(session, mapping, model)
  <2>4. result \in Released(named, mapping, model) /\ other \in Released(named, mapping, model)
    BY <2>1, <2>2, <2>3 DEF Outcomes
  <2>5. IsSession(named) /\ named.CustomAttributes = << >>
    BY NamedIs DEF MappedInv
  <2>6. IsFiniteSet(DOMAIN mapping.SAMLAttributes)
    BY MappingsAssumption DEF MappedInv
  <2> HIDE DEF named, model
  <2>7. CASE DOMAIN mapping.SAMLAttributes = {}
    <3>1. result = named /\ other = named
      BY <2>4, <2>7 DEF Released
    <3>2. QED
      BY <2>5, <3>1, SameIsRearranged
  <2>8. CASE DOMAIN mapping.SAMLAttributes # {}
    <3>1. IsFiniteSet(Listed(mapping, model))
      BY <2>4, <2>5, <2>6, <2>8, ReleasedIs
    <3>2. PICK o1 \in Orders(Listed(mapping, model)) :
             result = [Cleared(named) EXCEPT !.CustomAttributes = Appended(mapping, model, o1)]
      BY <2>4, <2>5, <2>6, <2>8, ReleasedIs
    <3>3. PICK o2 \in Orders(Listed(mapping, model)) :
             other = [Cleared(named) EXCEPT !.CustomAttributes = Appended(mapping, model, o2)]
      BY <2>4, <2>5, <2>6, <2>8, ReleasedIs
    <3>4. "CustomAttributes" \in DOMAIN Cleared(named)
      BY <2>5, ClearedIs
    <3>5. QED
      BY <3>1, <3>2, <3>3, <3>4, ReorderedIs
  <2>9. QED
    BY <2>7, <2>8
<1>2. QED
  BY <1>1, Invariance, PTL

-----------------------------------------------------------------------------
(* Taking the empty parts out of a list: NonEmptyParts has the others, in  *)
(* their order.                                                            *)

LEMMA Least ==
    ASSUME NEW S, S \subseteq Nat, S # {}
    PROVE  \E x \in S : \A y \in S : x <= y
<1> DEFINE Less == {p \in Nat \X Nat : p[1] < p[2]}
<1>1. IsWellFoundedOn(Less, Nat)
  BY NatLessThanWellFounded, Zenon DEF OpToRel
<1>2. \A x, y \in Nat : y < x => <<y, x>> \in Less
  OBVIOUS
<1> HIDE DEF Less
<1>3. PICK x \in S : \A y \in S : <<y, x>> \notin Less
  BY <1>1, WFMin
<1>4. \A y \in S : x \in Nat /\ y \in Nat /\ ~(y < x)
  BY <1>2, <1>3
<1>5. QED
  BY <1>4

UpTo(K, i) == {j \in K : j <= i}

\* A set of n positions has an n-th, and every smaller n too: the least position up
\* to which there are n.
LEMMA Ranked ==
    ASSUME NEW len \in Nat, NEW K \in SUBSET (1..len), NEW n \in 1..Cardinality(K)
    PROVE  \E i \in K : Cardinality(UpTo(K, i)) = n
<1>1. \A i : IsFiniteSet(UpTo(K, i)) /\ Cardinality(UpTo(K, i)) \in Nat
  <2>1. IsFiniteSet(1..len)
    BY FS_Interval
  <2>2. \A i : UpTo(K, i) \in SUBSET (1..len)
    BY DEF UpTo
  <2>3. QED
    BY <2>1, <2>2, FS_Subset, FS_CardinalityType
<1>2. \A j \in K : j \in Int /\ 1 <= j /\ j <= len
  OBVIOUS
<1>3. UpTo(K, len) = K
  BY <1>2 DEF UpTo
<1>4. UpTo(K, 0) = {}
  <2>1. \A j \in K : ~(j <= 0)
    BY <1>2
  <2>2. QED
    BY <2>1 DEF UpTo
<1>5. Cardinality(K) \in Nat /\ n \in Nat /\ n >= 1 /\ n <= Cardinality(K)
  BY <1>1, <1>3
<1> DEFINE enough == {i \in 1..len : n <= Cardinality(UpTo(K, i))}
<1>6. len \in enough
  <2>1. 0 # len
    BY <1>3, <1>4, <1>5, FS_EmptySet
  <2>2. QED
    BY <1>3, <1>5, <2>1
<1>7. PICK i \in enough : \A j \in enough : i <= j
  <2>1. enough \subseteq Nat
    OBVIOUS
  <2> HIDE DEF enough
  <2>2. QED
    BY <1>6, <2>1, Least
<1>8. Cardinality(UpTo(K, i - 1)) < n
  <2>1. CASE i = 1
    BY <1>4, <1>5, <2>1, FS_EmptySet
  <2>2. CASE i # 1
    <3>1. i - 1 \in 1..len /\ ~(i <= i - 1)
      BY <2>2
    <3>2. ~(n <= Cardinality(UpTo(K, i - 1)))
      BY <1>7, <3>1
    <3>3. QED
      BY <1>1, <1>5, <3>2
  <2>3. QED
    BY <2>1, <2>2
<1>9. UpTo(K, i) = IF i \in K THEN UpTo(K, i - 1) \cup {i} ELSE UpTo(K, i - 1)
  <2>1. i \in Int
    OBVIOUS
  <2>2. \A j \in K : j <= i <=> (j <= i - 1 \/ j = i)
    BY <1>2, <2>1
  <2>3. QED
    BY <2>2, <2>1 DEF UpTo
<1>10. i \in K
  BY <1>1, <1>5, <1>7, <1>8, <1>9
<1>11. Cardinality(UpTo(K, i)) = Cardinality(UpTo(K, i - 1)) + 1
  <2>1. i \notin UpTo(K, i - 1)
    BY DEF UpTo
  <2>2. QED
    BY <1>1, <1>9, <1>10, <2>1, FS_AddElement
<1>12. n <= Cardinality(UpTo(K, i))
  OBVIOUS
<1> HIDE DEF enough
<1>13. QED
  BY <1>1, <1>5, <1>8, <1>10, <1>11, <1>12

\* A later position has a greater rank.
LEMMA RankGrows ==
    ASSUME NEW len \in Nat, NEW K \in SUBSET (1..len), NEW i \in K, NEW j \in K, i < j
    PROVE  Cardinality(UpTo(K, i)) < Cardinality(UpTo(K, j))
<1>1. IsFiniteSet(1..len)
  BY FS_Interval
<1>2. \A k : UpTo(K, k) \in SUBSET (1..len)
  BY DEF UpTo
<1>3. \A k : IsFiniteSet(UpTo(K, k)) /\ Cardinality(UpTo(K, k)) \in Nat
  BY <1>1, <1>2, FS_Subset, FS_CardinalityType
<1>4. i \in Int /\ j \in Int /\ \A k \in K : k \in Int
  OBVIOUS
<1>5. UpTo(K, i) \subseteq UpTo(K, j) /\ j \in UpTo(K, j) /\ j \notin UpTo(K, i)
  <2>1. j <= j /\ ~(j <= i) /\ \A k \in K : k <= i => k <= j
    BY <1>4
  <2>2. QED
    BY <2>1 DEF UpTo
<1>6. UpTo(K, i) \in SUBSET UpTo(K, j) /\ UpTo(K, i) # UpTo(K, j)
  BY <1>5
<1>7. /\ Cardinality(UpTo(K, i)) <= Cardinality(UpTo(K, j))
      /\ Cardinality(UpTo(K, i)) # Cardinality(UpTo(K, j))
  BY <1>3, <1>6, FS_Subset
<1>8. QED
  BY <1>3, <1>7

\* Nth counts a set of positions off from the least to the greatest.
LEMMA NthIs ==
    ASSUME NEW len \in Nat, NEW K \in SUBSET (1..len)
    PROVE  /\ \A n \in 1..Cardinality(K) : Nth(K, n) \in K
           /\ \A m, n \in 1..Cardinality(K) : m < n => Nth(K, m) < Nth(K, n)
           /\ \A i \in K : \E n \in 1..Cardinality(K) : Nth(K, n) = i
<1> DEFINE rank(i) == Cardinality(UpTo(K, i))
<1>1. \A n : Nth(K, n) = CHOOSE i \in K : rank(i) = n
  BY DEF Nth, UpTo
<1>2. \A i, j \in K : i < j => rank(i) < rank(j)
  BY RankGrows
<1>3. \A i \in K : rank(i) \in 1..Cardinality(K)
  <2> SUFFICES ASSUME NEW i \in K PROVE rank(i) \in 1..Cardinality(K)
    OBVIOUS
  <2>1. IsFiniteSet(1..len)
    BY FS_Interval
  <2>2. IsFiniteSet(K)
    BY <2>1, FS_Subset
  <2>3. UpTo(K, i) \in SUBSET K /\ i \in UpTo(K, i)
    BY DEF UpTo
  <2>4. IsFiniteSet(UpTo(K, i)) /\ rank(i) <= Cardinality(K)
    BY <2>2, <2>3, FS_Subset
  <2>5. rank(i) \in Nat /\ Cardinality(K) \in Nat
    BY <2>2, <2>4, FS_CardinalityType
  <2>6. rank(i) # 0
    BY <2>3, <2>4, FS_EmptySet
  <2> HIDE DEF rank
  <2>7. QED
    BY <2>4, <2>5, <2>6
<1>4. \A n \in 1..Cardinality(K) : \E i \in K : rank(i) = n
  BY Ranked
<1> HIDE DEF rank
<1>5. \A n \in 1..Cardinality(K) : Nth(K, n) \in K /\ rank(Nth(K, n)) = n
  BY <1>1, <1>4
<1>6. \A i \in K : i \in Int
  OBVIOUS
<1>7. \A i, j \in K : rank(i) = rank(j) => i = j
  <2> SUFFICES ASSUME NEW i \in K, NEW j \in K, rank(i) = rank(j) PROVE i = j
    OBVIOUS
  <2>1. ~(i < j) /\ ~(j < i)
    BY <1>2, <1>3
  <2>2. QED
    BY <1>6, <2>1
<1>8. \A i \in K : Nth(K, rank(i)) = i
  BY <1>3, <1>5, <1>7
<1>9. ASSUME NEW m \in 1..Cardinality(K), NEW n \in 1..Cardinality(K), m < n
      PROVE  Nth(K, m) < Nth(K, n)
  <2>1. /\ Nth(K, m) \in K /\ rank(Nth(K, m)) = m
        /\ Nth(K, n) \in K /\ rank(Nth(K, n)) = n
    BY <1>5
  <2>2. m \in Int /\ n \in Int /\ ~(n < m) /\ m # n
    BY <1>9
  <2>3. ~(Nth(K, n) < Nth(K, m)) /\ Nth(K, n) # Nth(K, m)
    BY <1>2, <2>1, <2>2
  <2>4. Nth(K, m) \in Int /\ Nth(K, n) \in Int
    BY <1>6, <2>1
  <2>5. QED
    BY <2>3, <2>4
<1>10. QED
  BY <1>3, <1>5, <1>8, <1>9

IsSequence(v) == Len(v) \in Nat /\ v = [n \in 1..Len(v) |-> v[n]]

LEMMA KeptIs ==
    ASSUME NEW v, IsSequence(v)
    PROVE  Len(v) \in Nat /\ DOMAIN v = 1..Len(v) /\ Kept(v) \in SUBSET (1..Len(v))
<1>1. Len(v) \in Nat /\ DOMAIN v = 1..Len(v)
  BY DEF IsSequence
<1>2. Kept(v) \subseteq DOMAIN v
  BY DEF Kept
<1>3. QED
  BY <1>1, <1>2

\* What is left of a list is its non-empty parts, each of them, in their order.
LEMMA NonEmptyPartsIs ==
    ASSUME NEW v, IsSequence(v)
    PROVE  \E at \in [DOMAIN NonEmptyParts(v) -> Kept(v)] :
              /\ \A n \in DOMAIN at : NonEmptyParts(v)[n] = v[at[n]]
              /\ \A m, n \in DOMAIN at : m < n => at[m] < at[n]
              /\ \A i \in Kept(v) : \E n \in DOMAIN at : at[n] = i
<1>1. Len(v) \in Nat /\ DOMAIN v = 1..Len(v) /\ Kept(v) \in SUBSET (1..Len(v))
  BY KeptIs
<1> DEFINE at == [n \in 1..Cardinality(Kept(v)) |-> Nth(Kept(v), n)]
<1>2. at \in [DOMAIN NonEmptyParts(v) -> Kept(v)]
  BY <1>1, NthIs DEF NonEmptyParts
<1>3. \A m, n \in DOMAIN at : m < n => at[m] < at[n]
  BY <1>1, NthIs
<1>4. \A i \in Kept(v) : \E n \in DOMAIN at : at[n] = i
  BY <1>1, NthIs
<1>5. \A n \in DOMAIN at : NonEmptyParts(v)[n] = v[at[n]]
  BY DEF NonEmptyParts
<1>6. QED
  BY <1>2, <1>3, <1>4, <1>5

LEMMA PresentHasParts ==
    ASSUME NEW v, IsSequence(v)
    PROVE  Present(v) <=> NonEmptyParts(v) # << >>
<1>1. Len(v) \in Nat /\ DOMAIN v = 1..Len(v) /\ Kept(v) \in SUBSET (1..Len(v))
  BY KeptIs
<1>2. IsFiniteSet(Kept(v))
  <2>1. IsFiniteSet(1..Len(v))
    BY <1>1, FS_Interval
  <2>2. QED
    BY <1>1, <2>1, FS_Subset
<1>3. Cardinality(Kept(v)) \in Nat /\ (Cardinality(Kept(v)) = 0 <=> Kept(v) = {})
  BY <1>2, FS_CardinalityType, FS_EmptySet
<1>4. DOMAIN NonEmptyParts(v) = 1..Cardinality(Kept(v))
  BY DEF NonEmptyParts
<1>5. CASE Kept(v) = {}
  <2>1. Cardinality(Kept(v)) = 0
    BY <1>3, <1>5
  <2>2. NonEmptyParts(v) = << >>
    BY <2>1 DEF NonEmptyParts
  <2>3. QED
    BY <1>5, <2>2 DEF Present
<1>6. CASE Kept(v) # {}
  <2>1. 1 \in DOMAIN NonEmptyParts(v)
    BY <1>3, <1>4, <1>6
  <2>2. QED
    BY <1>6, <2>1 DEF Present
<1>7. QED
  BY <1>5, <1>6

LEMMA NothingInEmpty == IsSequence(Empty) /\ ~Present(Empty)
<1>1. Len(Empty) = 1 /\ DOMAIN Empty = {1} /\ Empty[1] = "" /\ 1..1 = {1}
  BY DEF Empty
<1>2. Empty = [n \in 1..1 |-> Empty[n]]
  BY <1>1 DEF Empty
<1>3. IsSequence(Empty)
  <2>1. Len(Empty) \in Nat /\ 1..Len(Empty) = 1..1
    <3>1. Len(Empty) = 1
      BY <1>1
    <3>2. QED
      BY <3>1
  <2>2. Empty = [n \in 1..Len(Empty) |-> Empty[n]]
    BY <1>2, <2>1, Zenon
  <2>3. QED
    BY <2>1, <2>2, Zenon DEF IsSequence
<1>4. Kept(Empty) = {}
  <2>1. \A i \in DOMAIN Empty : ~(Empty[i] # "")
    BY <1>1
  <2>2. QED
    BY <2>1 DEF Kept
<1>5. QED
  BY <1>3, <1>4 DEF Present

\* Lowercasing leaves the parts where they are.
LEMMA LoweredIs ==
    ASSUME NEW v, IsSequence(v)
    PROVE  /\ Kept(Lowered(v)) = Kept(v)
           /\ NonEmptyParts(Lowered(v)) = Lowered(NonEmptyParts(v))
<1>1. Len(v) \in Nat /\ DOMAIN v = 1..Len(v) /\ Kept(v) \in SUBSET (1..Len(v))
  BY KeptIs
<1>2. \A x : ToLower(x) = "" <=> x = ""
  BY LowerCaseAssumption DEF ToLower
<1>3. DOMAIN Lowered(v) = DOMAIN v /\ \A i \in DOMAIN v : Lowered(v)[i] = ToLower(v[i])
  BY DEF Lowered
<1>4. Kept(Lowered(v)) = Kept(v)
  BY <1>2, <1>3 DEF Kept
<1> DEFINE places == 1..Cardinality(Kept(v))
<1>5. \A n \in places : Nth(Kept(v), n) \in DOMAIN v
  BY <1>1, NthIs
<1>6. NonEmptyParts(Lowered(v)) = [n \in places |-> Lowered(v)[Nth(Kept(v), n)]]
  BY <1>4 DEF NonEmptyParts
<1>7. Lowered(NonEmptyParts(v)) = [n \in places |-> ToLower(v[Nth(Kept(v), n)])]
  BY DEF Lowered, NonEmptyParts
<1> HIDE DEF places
<1>8. \A n \in places : Lowered(v)[Nth(Kept(v), n)] = ToLower(v[Nth(Kept(v), n)])
  BY <1>3, <1>5
<1>9. QED
  BY <1>4, <1>6, <1>7, <1>8

\* A string that is not empty is all there is of it.
LEMMA OneString ==
    ASSUME NEW v, IsSequence(v), Len(v) = 1, Present(v)
    PROVE  NonEmptyParts(v) = v
<1>1. DOMAIN v = {1} /\ Kept(v) = {1}
  <2>1. DOMAIN v = {1}
    BY KeptIs
  <2>2. QED
    BY <2>1 DEF Present, Kept
<1>2. Cardinality(Kept(v)) = 1
  BY <1>1, FS_Singleton
<1>3. Nth(Kept(v), 1) = 1
  <2>1. {1} \in SUBSET (1..1) /\ 1 \in 1..1 /\ 1 \in Nat
    OBVIOUS
  <2>2. \A n \in 1..Cardinality({1}) : Nth({1}, n) \in {1}
    BY <2>1, NthIs
  <2>3. QED
    BY <1>1, <1>2, <2>1, <2>2
<1>4. NonEmptyParts(v) = [n \in 1..1 |-> v[Nth(Kept(v), n)]]
  BY <1>2 DEF NonEmptyParts
<1>5. 1..1 = {1}
  OBVIOUS
<1>6. v = [n \in {1} |-> v[n]]
  BY <1>5 DEF IsSequence
<1>7. QED
  BY <1>3, <1>4, <1>5, <1>6

-----------------------------------------------------------------------------
(* What a claim of the token becomes. *)

LEMMA ClaimIs ==
    ASSUME NEW t \in Tokens, NEW c
    PROVE  IsSequence(Claim(t, c))
<1>1. CASE c \in DOMAIN t
  <2>1. t[c].items \in Seq(STRING)
    BY <1>1, TokensAssumption
  <2>2. IsSequence(t[c].items)
    BY <2>1 DEF IsSequence
  <2>3. QED
    BY <1>1, <2>2 DEF Claim
<1>2. CASE c \notin DOMAIN t
  BY <1>2, NothingInEmpty DEF Claim
<1>3. QED
  BY <1>1, <1>2

LEMMA LoweredIsSequence ==
    ASSUME NEW v, IsSequence(v)
    PROVE  IsSequence(Lowered(v))
<1>1. Len(v) \in Nat /\ DOMAIN v = 1..Len(v)
  BY KeptIs
<1>2. Lowered(v) = [i \in 1..Len(v) |-> ToLower(v[i])]
  BY <1>1 DEF Lowered
<1>3. Len(Lowered(v)) = Len(v)
  BY <1>1, <1>2
<1>4. QED
  BY <1>1, <1>2, <1>3 DEF IsSequence

\* A value that is worth releasing is the claim as the token has it; for a name that
\* the token lacks it is the email.
LEMMA ValueOfClaim ==
    ASSUME NEW t \in Tokens, NEW s, OfToken(s, t), NEW raw \in {t, NoClaims}, NEW c,
           OidcValue(s, raw, c) # << >>
    PROVE  LET value == OidcValue(s, raw, c)
           IN  /\ IsSequence(value)
               /\ Present(value) =>
                     \/ value = Claim(t, c) /\ ~(c = "name" /\ ~Present(Claim(t, "name")))
                     \/ c = "name" /\ ~Present(Claim(t, "name")) /\ value = Claim(t, "email")
<1> DEFINE value == OidcValue(s, raw, c)
           Goal == /\ IsSequence(value)
                   /\ Present(value) =>
                        \/ value = Claim(t, c) /\ ~(c = "name" /\ ~Present(Claim(t, "name")))
                        \/ c = "name" /\ ~Present(Claim(t, "name")) /\ value = Claim(t, "email")
<1>1. CASE c \in DOMAIN raw /\ raw[c].items # << >>
  <2>1. raw = t
    BY <1>1 DEF NoClaims
  <2>2. value = Claim(t, c)
    BY <1>1, <2>1 DEF OidcValue, Claim
  <2>3. QED
    BY <2>2, ClaimIs
<1>2. CASE ~(c \in DOMAIN raw /\ raw[c].items # << >>)
  <2>1. c \in {"sub", "email", "name", "groups"} /\ value = SessionValues(s)[c]
    BY <1>2 DEF OidcValue, SessionValues
  <2>2. CASE c = "sub"
    <3>1. value \in {Claim(t, "sub"), Empty}
      BY <2>1, <2>2 DEF SessionValues, OfToken, SessionOf
    <3>2. QED
      BY <2>2, <3>1, ClaimIs, NothingInEmpty
  <2>3. CASE c = "email"
    <3>1. value = Claim(t, "email")
      BY <2>1, <2>3 DEF SessionValues, OfToken, SessionOf
    <3>2. QED
      BY <2>3, <3>1, ClaimIs
  <2>4. CASE c = "name"
    <3>1. value = IF Claim(t, "name") = Empty THEN Claim(t, "email") ELSE Claim(t, "name")
      BY <2>1, <2>4 DEF SessionValues, OfToken, SessionOf
    <3>2. QED
      BY <2>4, <3>1, ClaimIs, NothingInEmpty
  <2>5. CASE c = "groups"
    <3>1. value = IF "groups" \in DOMAIN t THEN t["groups"].items ELSE << >>
      BY <2>1, <2>5 DEF SessionValues, OfToken, SessionOf
    <3>2. value = Claim(t, "groups")
      BY <3>1 DEF Claim
    <3>3. QED
      BY <2>5, <3>2, ClaimIs
  <2>6. QED
    BY <2>1, <2>2, <2>3, <2>4, <2>5
<1>3. QED
  BY <1>1, <1>2

\* A model has a value of a claim that is mapped to it, for each of its fields, and
\* has a field for each claim that has a value.
LEMMA ModelIs ==
    ASSUME NEW s, NEW m, NEW raw, NEW model \in InternalModels(s, m, raw)
    PROVE  /\ \A f \in DOMAIN model : \E c \in Sources(s, m, raw, f) :
                  model[f] = OidcValue(s, raw, c)
           /\ \A c \in DOMAIN OidcToInternal(m) :
                  OidcValue(s, raw, c) # << >> => OidcToInternal(m)[c] \in DOMAIN model
<1> DEFINE claims == OidcToInternal(m)
           from(f) == Sources(s, m, raw, f)
           fields == {f \in {claims[c] : c \in DOMAIN claims} : from(f) # {}}
           last == {pick \in [fields -> DOMAIN claims] : \A f \in fields : pick[f] \in from(f)}
<1>1. PICK p \in last : model = [f \in fields |-> OidcValue(s, raw, p[f])]
  BY DEF InternalModels
<1>2. \A c \in DOMAIN claims : OidcValue(s, raw, c) # << >> => claims[c] \in fields
  BY DEF Sources
<1>3. \A f \in fields : p[f] \in from(f)
  BY <1>1
<1> HIDE DEF fields, last
<1>4. QED
  BY <1>1, <1>2, <1>3

LEMMA TransformedIs ==
    ASSUME NEW model, NEW options
    PROVE  /\ DOMAIN Transformed(model, options) = DOMAIN model
           /\ \A f \in DOMAIN model :
                 Transformed(model, options)[f] =
                    IF f = "email" /\ options.LowercaseEmail THEN Lowered(model[f]) ELSE model[f]
BY DEF Transformed, Lowered

\* Of any token and under any mapping, an attribute has the strings of a claim that is
\* mapped to it: joining the items at NULs, overlaying, picking, lowercasing and
\* splitting again loses, adds and mixes nothing.
THEOREM AttributesCorrect == Spec => []AttributesComeFromTheirClaims
<1>1. MappedInv => AttributesComeFromTheirClaims
  <2> SUFFICES ASSUME MappedInv, Done, NEW a \in Attributes(result)
               PROVE  /\ a.Values # << >>
                      /\ \E f \in DOMAIN mapping.SAMLAttributes :
                          /\ mapping.SAMLAttributes[f] = a.Name
                          /\ \E c \in MappedTo(f) :
                                LET kept == IF c = "name" /\ Strings(c) = << >>
                                            THEN Strings("email") ELSE Strings(c)
                                IN  a.Values =
                                        IF f = "email" /\ mapping.Options.LowercaseEmail
                                        THEN Lowered(kept) ELSE kept
    BY DEF AttributesComeFromTheirClaims
  <2>1. PICK m \in InternalModels(session, mapping, rawClaims) :
           Attributes(result) =
              {Attribute(mapping.SAMLAttributes[f], Transformed(m, mapping.Options)[f]) :
                  f \in Listed(mapping, Transformed(m, mapping.Options))}
    BY ResultIs
  <2> DEFINE model == Transformed(m, mapping.Options)
  <2>2. PICK f \in DOMAIN mapping.SAMLAttributes \cap DOMAIN model :
           Present(model[f]) /\ a = Attribute(mapping.SAMLAttributes[f], model[f])
    BY <2>1 DEF Listed
  <2>3. a.Name = mapping.SAMLAttributes[f] /\ a.Values = NonEmptyParts(model[f])
    BY <2>2 DEF Attribute
  <2>4. /\ f \in DOMAIN m
        /\ model[f] = IF f = "email" /\ mapping.Options.LowercaseEmail
                      THEN Lowered(m[f]) ELSE m[f]
    BY TransformedIs
  <2>5. PICK c \in Sources(session, mapping, rawClaims, f) :
           m[f] = OidcValue(session, rawClaims, c)
    BY <2>4, ModelIs
  <2>6. c \in MappedTo(f) /\ m[f] # << >>
    BY <2>5 DEF Sources, MappedTo
  <2>7. token \in Tokens /\ rawClaims \in {token, NoClaims} /\ OfToken(session, token)
    BY DEF MappedInv
  <2> HIDE DEF model
  <2>8. IsSequence(m[f])
    BY <2>5, <2>6, <2>7, ValueOfClaim
  <2>9. Present(m[f]) /\ IsSequence(model[f])
    BY <2>2, <2>4, <2>8, LoweredIs, LoweredIsSequence DEF Present
  <2>10. NonEmptyParts(model[f]) # << >>
    BY <2>2, <2>9, PresentHasParts
  <2>11. NonEmptyParts(model[f]) = IF f = "email" /\ mapping.Options.LowercaseEmail
                                   THEN Lowered(NonEmptyParts(m[f])) ELSE NonEmptyParts(m[f])
    BY <2>4, <2>8, LoweredIs
  <2> DEFINE kept == IF c = "name" /\ Strings(c) = << >> THEN Strings("email") ELSE Strings(c)
  <2>12. NonEmptyParts(m[f]) = kept
    <3>1. \/ m[f] = Claim(token, c) /\ ~(c = "name" /\ ~Present(Claim(token, "name")))
          \/ c = "name" /\ ~Present(Claim(token, "name")) /\ m[f] = Claim(token, "email")
      BY <2>5, <2>6, <2>7, <2>9, ValueOfClaim
    <3>2. Present(Claim(token, "name")) <=> Strings("name") # << >>
      BY <2>7, ClaimIs, PresentHasParts DEF Strings
    <3>3. QED
      BY <3>1, <3>2 DEF Strings
  <2> HIDE DEF kept
  <2>13. a.Values = IF f = "email" /\ mapping.Options.LowercaseEmail
                    THEN Lowered(kept) ELSE kept
    BY <2>3, <2>11, <2>12
  <2>14. QED
    BY <2>2, <2>3, <2>6, <2>10, <2>13 DEF kept
<1>2. QED
  BY <1>1, Invariance, PTL

LEMMA PresentStrings ==
    ASSUME MappedInv, NEW c, Strings(c) # << >>
    PROVE  /\ c \in DOMAIN token /\ token[c].items = Claim(token, c)
           /\ IsSequence(Claim(token, c)) /\ Present(Claim(token, c))
           /\ Claim(token, c) # << >> /\ Claim(token, c) # Empty
<1>1. IsSequence(Claim(token, c)) /\ Present(Claim(token, c))
  BY ClaimIs, PresentHasParts DEF Strings, MappedInv
<1>2. Claim(token, c) # Empty
  BY <1>1, NothingInEmpty
<1>3. Claim(token, c) # << >>
  <2>1. Kept(<< >>) = {}
    BY DEF Kept
  <2>2. QED
    BY <1>1, <2>1 DEF Present
<1>4. QED
  BY <1>1, <1>2, <1>3 DEF Claim

\* While the raw claims of the token are there, they give the value of the claim.
LEMMA RawValue ==
    ASSUME MappedInv, Current, NEW c, Strings(c) # << >>
    PROVE  OidcValue(session, rawClaims, c) = Claim(token, c)
BY PresentStrings DEF OidcValue, Current

\* Of any token and under any mapping, a claim of strings with a field of its own is
\* released under the name of the attribute that the field is mapped to.
THEOREM MappedClaimsCorrect == Spec => []MappedClaimsAreReleased
<1>1. MappedInv => MappedClaimsAreReleased
  <2> SUFFICES ASSUME MappedInv, Done, Current,
                      NEW c \in DOMAIN OidcToInternal(mapping) \cap DOMAIN token,
                      MappedTo(OidcToInternal(mapping)[c]) = {c},
                      OidcToInternal(mapping)[c] \in DOMAIN mapping.SAMLAttributes,
                      Strings(c) # << >>
               PROVE  \E a \in Attributes(result) :
                          a.Name = mapping.SAMLAttributes[OidcToInternal(mapping)[c]]
    BY DEF MappedClaimsAreReleased
  <2> DEFINE f == OidcToInternal(mapping)[c]
  <2>1. PICK m \in InternalModels(session, mapping, rawClaims) :
           Attributes(result) =
              {Attribute(mapping.SAMLAttributes[g], Transformed(m, mapping.Options)[g]) :
                  g \in Listed(mapping, Transformed(m, mapping.Options))}
    BY ResultIs
  <2> DEFINE model == Transformed(m, mapping.Options)
  <2>2. OidcValue(session, rawClaims, c) # << >>
    BY RawValue, PresentStrings
  <2>3. f \in DOMAIN m
    BY <2>2, ModelIs
  <2>4. \A d \in Sources(session, mapping, rawClaims, f) : d = c
    BY DEF Sources, MappedTo
  <2>5. m[f] = Claim(token, c)
    BY <2>3, <2>4, ModelIs, RawValue
  <2>6. /\ f \in DOMAIN model
        /\ model[f] = IF f = "email" /\ mapping.Options.LowercaseEmail
                      THEN Lowered(m[f]) ELSE m[f]
    BY <2>3, TransformedIs
  <2>7. Present(model[f])
    BY <2>5, <2>6, PresentStrings, LoweredIs DEF Present
  <2> HIDE DEF f, model
  <2>8. Attribute(mapping.SAMLAttributes[f], model[f]) \in Attributes(result)
    BY <2>1, <2>6, <2>7 DEF f, model, Listed
  <2>9. Attribute(mapping.SAMLAttributes[f], model[f]).Name = mapping.SAMLAttributes[f]
    BY DEF Attribute
  <2>10. QED
    BY <2>8, <2>9 DEF f
<1>2. QED
  BY <1>1, Invariance, PTL

-----------------------------------------------------------------------------

\* The first field that is there and not empty is the one that counts.
LEMMA FirstPresentIs ==
    ASSUME NEW model, NEW first, NEW second, first \in DOMAIN model, model[first] # Empty
    PROVE  FirstPresent(model, <<first, second>>) = model[first]
<1> DEFINE fields == <<first, second>>
           has == {i \in DOMAIN fields : fields[i] \in DOMAIN model /\ model[fields[i]] # Empty}
           least == CHOOSE i \in has : \A j \in has : i <= j
<1>1. has \subseteq {1, 2} /\ 1 \in has
  OBVIOUS
<1>2. \A j \in has : 1 <= j
  BY <1>1
<1> HIDE DEF has
<1>3. least \in has /\ least <= 1
  BY <1>1, <1>2
<1>4. FirstPresent(model, fields) = model[fields[least]]
  BY <1>1 DEF FirstPresent, has
<1> HIDE DEF least
<1>5. least = 1
  <2>1. least = 1 \/ least = 2
    BY <1>1, <1>3
  <2>2. QED
    BY <1>3, <2>1
<1>6. fields[1] = first
  OBVIOUS
<1> HIDE DEF fields
<1>7. FirstPresent(model, fields) = model[first]
  BY <1>4, <1>5, <1>6
<1>8. QED
  BY <1>7 DEF fields

\* Of any token and under any mapping, a persistent NameID asked for by its short name
\* is the subject of the token.
THEOREM PersistentCorrect == Spec => []PersistentIsTheSubject
<1>1. MappedInv => PersistentIsTheSubject
  <2> SUFFICES ASSUME MappedInv, Persistent, ToLower(mapping.NameIDFormat) = "persistent"
               PROVE  result.NameID = Strings("sub")
    BY DEF PersistentIsTheSubject
  <2>1. Done /\ Current /\ MappedTo("subject") = {"sub"} /\ Strings("sub") # << >>
    BY DEF Persistent
  <2>2. PICK m \in InternalModels(session, mapping, rawClaims) :
           result.NameID = Named(session, mapping, Transformed(m, mapping.Options)).NameID
    BY <2>1, ResultIs
  <2> DEFINE model == Transformed(m, mapping.Options)
  <2>3. mapping.NameIDFormat # ""
    BY LowerCaseAssumption DEF ToLower
  <2>4. /\ "sub" \in DOMAIN OidcToInternal(mapping)
        /\ OidcToInternal(mapping)["sub"] = "subject"
        /\ \A d \in Sources(session, mapping, rawClaims, "subject") : d = "sub"
    BY <2>1 DEF Sources, MappedTo
  <2>5. OidcValue(session, rawClaims, "sub") = Claim(token, "sub")
    BY <2>1, RawValue
  <2>6. Claim(token, "sub") # << >> /\ Claim(token, "sub") # Empty
    BY <2>1, PresentStrings
  <2>7. "subject" \in DOMAIN m /\ m["subject"] = Claim(token, "sub")
    BY <2>4, <2>5, <2>6, ModelIs
  <2>8. "subject" \in DOMAIN model /\ model["subject"] = Claim(token, "sub")
    BY <2>7, TransformedIs
  <2> HIDE DEF model
  <2>9. Named(session, mapping, model).NameID = getNameIDValue(model, mapping.NameIDFormat)
    <3>1. "NameID" \in DOMAIN session
      BY <2>1 DEF MappedInv, IsSession
    <3>2. QED
      BY <2>3, <3>1 DEF Named
  <2>10. getNameIDValue(model, mapping.NameIDFormat) = Claim(token, "sub")
    <3>1. FirstPresent(model, <<"subject", "email">>) = Claim(token, "sub")
      BY <2>6, <2>8, FirstPresentIs
    <3>2. QED
      BY <3>1 DEF getNameIDValue
  <2>11. Strings("sub") = Claim(token, "sub")
    <3>1. "sub" \in DOMAIN token /\ token \in Tokens /\ Usable(token)
      BY <2>1, PresentStrings DEF MappedInv
    <3>2. Len(Claim(token, "sub")) = 1
      BY <3>1, TokensAssumption DEF Usable, Claim
    <3>3. IsSequence(Claim(token, "sub")) /\ Present(Claim(token, "sub"))
      BY <2>1, PresentStrings
    <3>4. QED
      BY <3>2, <3>3, OneString DEF Strings
  <2>12. QED
    BY <2>2, <2>9, <2>10, <2>11 DEF model
<1>2. QED
  BY <1>1, Invariance, PTL
=============================================================================
