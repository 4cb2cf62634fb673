------------------------------- MODULE Sessions -------------------------------
(***************************************************************************)
(* The connections of hubs and warehouses: the thread that serves each TCP *)
(* connection (server/src/server.cpp), authentication and disconnection    *)
(* (authentication.cpp), the registry of sockets by client id (sender.cpp) *)
(* and the is_online column of the users table (database.cpp).             *)
(*                                                                         *)
(* A connection is its file descriptor, which the kernel hands out again   *)
(* once it is closed.  The two ends of a connection move on their own: a   *)
(* client sends its disconnect request and exits without waiting for an    *)
(* answer (hub/src/hub.c), or dies.  TCP keeps no message boundaries: when *)
(* the server reads two messages at once it can parse neither.             *)
(***************************************************************************)
EXTENDS Naturals, Sequences

CONSTANTS
    Clients,      \* hub and warehouse ids
    Senders,      \* server threads that send to a client by its id
    None,         \* no client
    MaxFd,        \* bound: file descriptors for connections
    MaxRetries,   \* MAX_RETRIES (authentication.hpp)
    MaxAccepts,   \* bound: connections accepted
    MaxRequests,  \* bound: messages that are neither the first nor the last
    MaxDeaths,    \* bound: clients that die
    MaxFaults     \* bound: SQL statements that fail

ASSUME SessionsAssumption ==
    /\ None \notin Clients
    /\ MaxFd \in Nat
    /\ MaxRetries \in Nat \ {0}
    /\ MaxAccepts \in Nat
    /\ MaxRequests \in Nat
    /\ MaxDeaths \in Nat
    /\ MaxFaults \in Nat

Fds == 1..MaxFd

VARIABLES
    peer,         \* the client behind each descriptor, None if it is closed
    alive,        \* is the client's end of it open?
    bytes,        \* messages the server has not read yet
    pc,           \* what the thread of the connection is doing
    tries,        \* failed attempts to store the client
    connections,  \* Sender::connections, 0 for a client that is not registered
    isOnline,     \* users.is_online
    lookup,       \* sender threads between getConnection and send
    dropped,      \* history: clients whose end of file came without a disconnection
    greeted,      \* history: open connections whose client info was handled
    overlapped,   \* history: clients that came back before their last connection was closed
    accepts, requests, deaths, faults

conn == <<peer, alive, bytes, pc, tries>>
counters == <<accepts, requests, deaths, faults>>
vars == <<conn, connections, isOnline, lookup, dropped, greeted, overlapped, counters>>

NoLookup == [fd |-> 0, to |-> None]

TypeOK ==
    /\ peer \in [Fds -> Clients \cup {None}]
    /\ alive \in [Fds -> BOOLEAN]
    /\ bytes \in [Fds -> Seq({"info", "request", "disconnect"})]
    /\ pc \in [Fds -> {"none", "read", "store", "offline", "remove", "close"}]
    /\ \A f \in Fds : pc[f] # "none" => peer[f] \in Clients
    /\ tries \in [Fds -> 0..MaxRetries]
    /\ connections \in [Clients -> Fds \cup {0}]
    /\ isOnline \in [Clients -> BOOLEAN]
    /\ lookup \in [Senders -> [fd : Fds \cup {0}, to : Clients \cup {None}]]
    /\ dropped \subseteq Clients
    /\ greeted \subseteq Fds
    /\ overlapped \subseteq Clients
    /\ accepts \in 0..MaxAccepts
    /\ requests \in 0..MaxRequests
    /\ deaths \in 0..MaxDeaths
    /\ faults \in 0..MaxFaults

Init ==
    /\ peer = [f \in Fds |-> None]
    /\ alive = [f \in Fds |-> FALSE]
    /\ bytes = [f \in Fds |-> <<>>]
    /\ pc = [f \in Fds |-> "none"]
    /\ tries = [f \in Fds |-> 0]
    /\ connections = [c \in Clients |-> 0]
    /\ isOnline = [c \in Clients |-> FALSE]
    /\ lookup = [s \in Senders |-> NoLookup]
    /\ dropped = {}
    /\ greeted = {}
    /\ overlapped = {}
    /\ accepts = 0 /\ requests = 0 /\ deaths = 0 /\ faults = 0

Running(c) == \E f \in Fds : peer[f] = c /\ alive[f]

\* A statement is carried out, or fails within the bound.
Outcome(ok) ==
    /\ ok \/ faults < MaxFaults
    /\ faults' = IF ok THEN faults ELSE faults + 1

-----------------------------------------------------------------------------
(***************************************************************************)
(* Clients.  One program runs per client id; its first message is its      *)
(* client info.                                                            *)
(***************************************************************************)

\* accept takes the lowest descriptor that is free and a thread is started for it.
Accept(c, f) ==
    /\ accepts < MaxAccepts
    /\ ~Running(c)
    /\ peer[f] = None
    /\ \A g \in 1..(f - 1) : peer[g] # None
    /\ peer' = [peer EXCEPT ![f] = c]
    /\ alive' = [alive EXCEPT ![f] = TRUE]
    /\ bytes' = [bytes EXCEPT ![f] = <<"info">>]
    /\ pc' = [pc EXCEPT ![f] = "read"]
    /\ accepts' = accepts + 1
    /\ overlapped' = IF \E g \in Fds : peer[g] = c THEN overlapped \cup {c} ELSE overlapped
    /\ UNCHANGED <<tries, connections, isOnline, lookup, dropped, greeted, requests,
                   deaths, faults>>

SendRequest(f) ==
    /\ alive[f]
    /\ requests < MaxRequests
    /\ requests' = requests + 1
    /\ bytes' = [bytes EXCEPT ![f] = Append(@, "request")]
    /\ UNCHANGED <<peer, alive, pc, tries, connections, isOnline, lookup, dropped,
                   greeted, overlapped,
                   accepts, deaths, faults>>

\* The client sends its disconnect request and closes its end.
SendDisconnect(f) ==
    /\ alive[f]
    /\ bytes' = [bytes EXCEPT ![f] = Append(@, "disconnect")]
    /\ alive' = [alive EXCEPT ![f] = FALSE]
    /\ UNCHANGED <<peer, pc, tries, connections, isOnline, lookup, dropped, greeted,
                   overlapped, counters>>

ClientDies(f) ==
    /\ alive[f]
    /\ deaths < MaxDeaths
    /\ deaths' = deaths + 1
    /\ alive' = [alive EXCEPT ![f] = FALSE]
    /\ UNCHANGED <<peer, bytes, pc, tries, connections, isOnline, lookup, dropped,
                   greeted, overlapped,
                   accepts, requests, faults>>

-----------------------------------------------------------------------------
(***************************************************************************)
(* The thread of a connection (handleClient).                              *)
(***************************************************************************)

\* read returns the first n messages that wait.
Reads(f, n) ==
    /\ pc[f] = "read"
    /\ n <= Len(bytes[f])
    /\ bytes' = [bytes EXCEPT ![f] = SubSeq(@, n + 1, Len(@))]

\* Mutant: a socket that is registered already is kept.
KeepsOlderSocket(f) ==
    /\ Reads(f, 1)
    /\ bytes[f][1] = "info"
    /\ connections' = [connections EXCEPT ![peer[f]] = IF @ = 0 THEN f ELSE @]
    /\ pc' = [pc EXCEPT ![f] = "store"]
    /\ tries' = [tries EXCEPT ![f] = 0]
    /\ greeted' = greeted \cup {f}
    /\ UNCHANGED <<peer, alive, isOnline, lookup, dropped, overlapped, counters>>

\* processClientInfo registers the socket before it stores the client.
HandleInfo(f) ==
    /\ Reads(f, 1)
    /\ bytes[f][1] = "info"
    /\ connections' = [connections EXCEPT ![peer[f]] = f]
    /\ pc' = [pc EXCEPT ![f] = "store"]
    /\ tries' = [tries EXCEPT ![f] = 0]
    /\ greeted' = greeted \cup {f}
    /\ UNCHANGED <<peer, alive, isOnline, lookup, dropped, overlapped, counters>>

\* insertOrUpdateUser, tried MAX_RETRIES times; the client is answered an error after
\* that but stays connected and registered.
StoreUser(f, ok) ==
    /\ pc[f] = "store"
    /\ Outcome(ok)
    /\ isOnline' = IF ok THEN [isOnline EXCEPT ![peer[f]] = TRUE] ELSE isOnline
    /\ tries' = [tries EXCEPT ![f] = IF ok THEN @ ELSE @ + 1]
    /\ pc' = [pc EXCEPT ![f] = IF ok \/ tries'[f] = MaxRetries THEN "read" ELSE @]
    /\ UNCHANGED <<peer, alive, bytes, connections, lookup, dropped, greeted, overlapped,
                   accepts, requests, deaths>>

\* Any other message is handled elsewhere; several at once are refused as invalid.
HandleOther(f) ==
    /\ \/ Reads(f, 1) /\ bytes[f][1] = "request"
       \/ \E n \in 2..Len(bytes[f]) : Reads(f, n)
    /\ UNCHANGED <<peer, alive, pc, tries, connections, isOnline, lookup, dropped,
                   greeted, overlapped, counters>>

HandleDisconnect(f) ==
    /\ Reads(f, 1)
    /\ bytes[f][1] = "disconnect"
    /\ pc' = [pc EXCEPT ![f] = "offline"]
    /\ UNCHANGED <<peer, alive, tries, connections, isOnline, lookup, dropped, greeted,
                   overlapped, counters>>

\* Mutant: the client is only removed from the registry.
SkipsOffline(f, ok) ==
    /\ pc[f] = "offline"
    /\ Outcome(ok)
    /\ pc' = [pc EXCEPT ![f] = "remove"]
    /\ UNCHANGED <<peer, alive, bytes, tries, connections, isOnline, lookup, dropped,
                   greeted, overlapped,
                   accepts, requests, deaths>>

\* updateUserOnlineStatus: a failure is logged.
SetOffline(f, ok) ==
    /\ pc[f] = "offline"
    /\ Outcome(ok)
    /\ isOnline' = IF ok THEN [isOnline EXCEPT ![peer[f]] = FALSE] ELSE isOnline
    /\ pc' = [pc EXCEPT ![f] = "remove"]
    /\ UNCHANGED <<peer, alive, bytes, tries, connections, lookup, dropped, greeted,
                   overlapped,
                   accepts, requests, deaths>>

\* Mutant: the entry stays.
KeepsConnection(f) ==
    /\ pc[f] = "remove"
    /\ pc' = [pc EXCEPT ![f] = "close"]
    /\ UNCHANGED <<peer, alive, bytes, tries, connections, isOnline, lookup, dropped,
                   greeted, overlapped, counters>>

\* The registry entry goes by the client's id, whichever socket it holds by now.
RemoveConnection(f) ==
    /\ pc[f] = "remove"
    /\ connections' = [connections EXCEPT ![peer[f]] = 0]
    /\ pc' = [pc EXCEPT ![f] = "close"]
    /\ UNCHANGED <<peer, alive, bytes, tries, isOnline, lookup, dropped, greeted,
                   overlapped, counters>>

\* read returns 0: the thread leaves its loop and tells nobody.
EndOfFile(f) ==
    /\ pc[f] = "read"
    /\ bytes[f] = <<>>
    /\ ~alive[f]
    /\ pc' = [pc EXCEPT ![f] = "close"]
    /\ dropped' = dropped \cup {peer[f]}
    /\ UNCHANGED <<peer, alive, bytes, tries, connections, isOnline, lookup, greeted,
                   overlapped, counters>>

\* close frees the descriptor and the thread ends.
Close(f) ==
    /\ pc[f] = "close"
    /\ peer' = [peer EXCEPT ![f] = None]
    /\ alive' = [alive EXCEPT ![f] = FALSE]
    /\ bytes' = [bytes EXCEPT ![f] = <<>>]
    /\ pc' = [pc EXCEPT ![f] = "none"]
    /\ tries' = [tries EXCEPT ![f] = 0]
    /\ greeted' = greeted \ {f}
    /\ UNCHANGED <<connections, isOnline, lookup, dropped, overlapped, counters>>

-----------------------------------------------------------------------------
(***************************************************************************)
(* sendMessageToClient: the registry is locked for the lookup only.        *)
(***************************************************************************)
GetConnection(s, c) ==
    /\ lookup[s] = NoLookup
    /\ connections[c] # 0
    /\ lookup' = [lookup EXCEPT ![s] = [fd |-> connections[c], to |-> c]]
    /\ UNCHANGED <<conn, connections, isOnline, dropped, greeted, overlapped, counters>>

Send(s) ==
    /\ lookup[s] # NoLookup
    /\ lookup' = [lookup EXCEPT ![s] = NoLookup]
    /\ UNCHANGED <<conn, connections, isOnline, dropped, greeted, overlapped, counters>>

-----------------------------------------------------------------------------
ClientStep(f) ==
    (\E c \in Clients : Accept(c, f)) \/ SendRequest(f) \/ SendDisconnect(f) \/ ClientDies(f)

ThreadStep(f) ==
    \/ HandleInfo(f) \/ HandleOther(f) \/ HandleDisconnect(f)
    \/ \E ok \in BOOLEAN : StoreUser(f, ok) \/ SetOffline(f, ok)
    \/ RemoveConnection(f) \/ EndOfFile(f) \/ Close(f)

SenderStep(s) == (\E c \in Clients : GetConnection(s, c)) \/ Send(s)

Next == (\E f \in Fds : ClientStep(f) \/ ThreadStep(f)) \/ \E s \in Senders : SenderStep(s)

Spec == Init /\ [][Next]_vars

\* The threads of the server are scheduled; clients need not do anything.
FairSpec == Spec /\ \A f \in Fds : WF_vars(ThreadStep(f))

-----------------------------------------------------------------------------
\* The registry never names a descriptor that is closed, or open for another client,
\* unless the client once vanished without its disconnection being handled.
RegistryNamesOwner ==
    \A c \in Clients : connections[c] # 0 => peer[connections[c]] = c \/ c \in dropped

\* No statement has failed, and the client never came back too early.
Orderly(c) == c \notin overlapped /\ faults = 0

\* A client the database shows online can be sent to: findWarehouseForItem picks
\* warehouses by is_online, and the supply request goes through the registry.
OnlineIsRegistered ==
    \A c \in Clients : Orderly(c) /\ isOnline[c] => connections[c] # 0

\* A client whose info was handled is registered with this very connection until the
\* server takes it off, and never with one that it left behind or another client owns,
\* unless it came back before its last connection was closed.
RunningIsReachable ==
    \A f \in greeted :
        pc[f] # "close" /\ peer[f] \notin overlapped => connections[peer[f]] = f

\* A client that is gone, and stays away, is in the end shown offline, if a statement
\* has not failed and the server has handled its disconnection.  (When read returns 0
\* or an error the thread only closes the socket: a client that vanished is shown
\* online for good.)
GoneIsOffline ==
    \A c \in Clients : []<>(Running(c) \/ ~isOnline[c] \/ c \in dropped \/ faults > 0)

\* "Send a JSON message to a specific client" (sender.hpp:62): what is sent to a client
\* reaches that client or nobody.
DeliveredToAddressee ==
    [][\A s \in Senders :
          lookup[s] # NoLookup /\ lookup'[s] = NoLookup
              => peer[lookup[s].fd] \in {lookup[s].to, None}]_vars
=============================================================================
