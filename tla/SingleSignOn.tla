---------------------------- MODULE SingleSignOn ----------------------------
(***************************************************************************)
(* What the bridge promises, with no cookies, codes, databases or pending  *)
(* requests: a tab is opened with a request; its agent authenticates, which *)
(* is good for SessionTTL at most; while that is good the agent may be     *)
(* recognised; and an agent recognised in a tab is what the answer to the  *)
(* request of that very tab says, once.  A recognition may be lost.        *)
(***************************************************************************)
EXTENDS Integers

CONSTANTS Tabs, Agents, AgentOf, Requests, NoRequest, RelayOf, NoAnswer, SessionTTL

VARIABLES
    now,
    asked,       \* asked[t] is the request tab t was opened with
    granted,     \* granted[a]: until when each authentication of a is good
    recognised,  \* recognised[t]: the agent is recognised in tab t
    answer       \* answer[t] is what the service provider has been told

ssoVars == <<now, asked, granted, recognised, answer>>

Init ==
    /\ now = 0
    /\ asked = [t \in Tabs |-> NoRequest]
    /\ granted = [a \in Agents |-> {}]
    /\ recognised = [t \in Tabs |-> FALSE]
    /\ answer = [t \in Tabs |-> NoAnswer]

Tick == now' = now + 1 /\ UNCHANGED <<asked, granted, recognised, answer>>

Ask(t, r) ==
    /\ asked[t] = NoRequest
    /\ asked' = [asked EXCEPT ![t] = r]
    /\ UNCHANGED <<now, granted, recognised, answer>>

\* Nobody is authenticated who has not come with a request, nor for longer than
\* SessionTTL from now; an authentication that took long may be good for less.
Authenticate(a) ==
    /\ \E t \in Tabs : AgentOf[t] = a /\ asked[t] # NoRequest
    /\ \E until \in 0..(now + SessionTTL) :
            granted' = [granted EXCEPT ![a] = @ \cup {until}]
    /\ UNCHANGED <<now, asked, recognised, answer>>

Recognise(t) ==
    /\ asked[t] # NoRequest /\ answer[t] = NoAnswer
    /\ \E until \in granted[AgentOf[t]] : until > now
    /\ recognised' = [recognised EXCEPT ![t] = TRUE]
    /\ UNCHANGED <<now, asked, granted, answer>>

LoseRecognition(lost) ==
    /\ recognised' = [t \in Tabs |-> recognised[t] /\ t \notin lost]
    /\ UNCHANGED <<now, asked, granted, answer>>

Answer(t) ==
    /\ recognised[t] /\ answer[t] = NoAnswer
    /\ answer' = [answer EXCEPT ![t] = [user |-> AgentOf[t], request |-> asked[t],
                                        relay |-> RelayOf[asked[t]]]]
    /\ recognised' = [recognised EXCEPT ![t] = FALSE]
    /\ UNCHANGED <<now, asked, granted>>

Next ==
    \/ Tick
    \/ \E t \in Tabs, r \in Requests : Ask(t, r)
    \/ \E a \in Agents : Authenticate(a)
    \/ \E t \in Tabs : Recognise(t) \/ Answer(t)
    \/ \E lost \in SUBSET Tabs : LoseRecognition(lost)

Spec == Init /\ [][Next]_ssoVars
=============================================================================
