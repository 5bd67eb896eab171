--------------------------- MODULE MCRegistration ---------------------------
(***************************************************************************)
(* Two entities, three attempts at registering them, and the command lines *)
(* and requests that meet every branch of the command and the handler.     *)
(***************************************************************************)
EXTENDS Registration, TLC

CONSTANTS e1, e2, none, m1, m2, noFile, badFile, a1, a2, a3

MCEntityIds == {e1, e2}
MCAttempts == {a1, a2, a3}
MCMappings == {none, m1, m2}
MCUrlOf ==
    [good |-> [scheme |-> "https", host |-> "sp"], ftp |-> [scheme |-> "ftp", host |-> "sp"]]
MCAcsUrls == DOMAIN MCUrlOf
MCOnlyNameId == [persistent |-> m2]

Line(e, acs, binding, file, nameid, output) ==
    [entity |-> e, acs |-> acs, binding |-> binding, file |-> file, nameid |-> nameid,
     output |-> output]

MCCommandLines == {
    Line(e1, "good", "POST", m1, "persistent", "human"),
    Line(e1, "good", Blank, noFile, "persistent", "json"),
    Line(e2, "good", "Redirect", noFile, "absent", "human"),
    Line(e2, "good", "POST", badFile, "absent", "other")}

Body(type, wellFormed, e, acs, binding, mapping) ==
    [type |-> type, wellFormed |-> wellFormed, entity |-> e, acs |-> acs, binding |-> binding,
     mapping |-> mapping]

MCPosts == {
    Body("form", TRUE, e1, "good", Blank, m1),
    Body("none", TRUE, e2, "ftp", "POST", none),
    Body("json", FALSE, Blank, Blank, Blank, none)}

Alike == Permutations(MCAttempts)
=============================================================================
