------------------------------- MODULE HttpServer -------------------------------
(***************************************************************************)
(* HttpServer (http_server.cpp): each connection has a thread of its own,  *)
(* which reads one request, calls the router and answers.  How a request   *)
(* is spelled is left out; its headers arrive or do not, and its body      *)
(* arrives in parts.                                                       *)
(***************************************************************************)
EXTENDS GraphRouter

VARIABLE wire   \* per connection: "closed", "reading" or "called"

vars == <<liveVars, events, callVars, second, mongoVars, wire>>

Init ==
    /\ RouterInit /\ MongoInit
    /\ wire = [c \in Calls |-> "closed"]

\* run(): a connection is accepted and gets a thread.
Accept(c) ==
    /\ wire[c] = "closed"
    /\ Event
    /\ wire' = [wire EXCEPT ![c] = "reading"]
    /\ UNCHANGED callVars

\* Closed without a call: recv fails before the headers are complete; or with a status of
\* 400, which is sent at once: headers too large, a malformed request line, a body that is
\* declared too large.
Reject(c) ==
    /\ wire[c] = "reading"
    /\ wire' = [wire EXCEPT ![c] = "closed"]
    /\ UNCHANGED <<events, callVars>>

\* A text that is cut off does not parse.
Arrived(body) == IF body = Empty THEN {Empty} ELSE {body, Malformed, Empty}

\* Reading the body ends with the length the headers declare, 0 if they declare none, or
\* when recv returns 0 or an error: what there is then is routed all the same.
ReadRequest(c) ==
    /\ wire[c] = "reading"
    /\ wire' = [wire EXCEPT ![c] = "called"]
    /\ \E request \in Requests : \E body \in Arrived(request.body) :
          Route(c, request.route, body)
    /\ UNCHANGED events

\* The response is sent and the connection closed.
Respond(c) ==
    /\ wire[c] = "called" /\ at[c] = "done"
    /\ wire' = [wire EXCEPT ![c] = "closed"]
    /\ Leave(c)
    /\ UNCHANGED events

WireStep(c) ==
    /\ Accept(c) \/ Reject(c) \/ ReadRequest(c) \/ Respond(c)
    /\ UNCHANGED <<liveVars, second, mongoVars>>

Handle(c) == HandlerStep(c) /\ UNCHANGED wire

Next ==
    \/ \E c \in Calls : WireStep(c) \/ Handle(c)
    \/ (\E n \in Nodes : LiveStep(n)) /\ UNCHANGED wire
    \/ Tick /\ UNCHANGED wire

Spec == Init /\ [][Next]_vars

-----------------------------------------------------------------------------
TypeOK ==
    /\ online \subseteq Nodes /\ outOfStock \subseteq Warehouses
    /\ tcp \in [Nodes -> {"idle", "snapshot", "install"}]
    /\ at \in [Calls -> {"none", "route", "swap", "compute", "name", "save", "rebuild", "done"}]
    /\ route \in [Calls -> Routes \cup {None}]
    /\ wire \in [Calls -> {"closed", "reading", "called"}]
    /\ \A c \in Calls : at[c] # "none" <=> wire[c] = "called"
    /\ \A c \in Calls : at[c] \in {"swap", "compute", "name", "save", "rebuild"} => graph[c] # None
=============================================================================
