--------------------------- MODULE Sessions_proofs ---------------------------
(***************************************************************************)
(* Theorems about Sessions, for any clients, descriptors and bounds.       *)
(***************************************************************************)
EXTENDS Sessions, TLAPS

\* What the proofs need of the types; the rest of TypeOK plays no part in them.
Typing ==
    /\ peer \in [Fds -> Clients \cup {None}]
    /\ pc \in [Fds -> {"none", "read", "store", "offline", "remove", "close"}]
    /\ connections \in [Clients -> Fds \cup {0}]
    /\ isOnline \in [Clients -> BOOLEAN]
    /\ dropped \subseteq Clients
    /\ \A f \in Fds : pc[f] # "none" => peer[f] \in Clients
    /\ \A f \in Fds : peer[f] \in Clients => pc[f] # "none"

\* A client that never dropped out is registered with a connection of its own, the
\* thread of which has not taken it off the registry yet.
Owned ==
    \A c \in Clients \ dropped :
        connections[c] # 0 => peer[connections[c]] = c /\ pc[connections[c]] # "close"

OwnedInv == Typing /\ Owned

LEMMA FdsPositive == 0 \notin Fds
BY DEF Fds

LEMMA OwnedInit == Init => OwnedInv
BY SessionsAssumption DEF Init, OwnedInv, Typing, Owned

\* The steps that leave the registry and the threads alone.
LEMMA OwnedQuiet ==
    ASSUME OwnedInv, UNCHANGED <<peer, pc, connections, isOnline, dropped>>
    PROVE  OwnedInv'
BY DEF OwnedInv, Typing, Owned

LEMMA OwnedAccept ==
    ASSUME OwnedInv, NEW f \in Fds, NEW c \in Clients, Accept(c, f)
    PROVE  OwnedInv'
<1>1. peer[f] = None /\ pc[f] = "none"
  BY SessionsAssumption DEF Accept, OwnedInv, Typing
<1>2. Typing'
  BY SessionsAssumption DEF Accept, OwnedInv, Typing
<1>3. Owned'
  <2> SUFFICES ASSUME NEW d \in Clients \ dropped, connections[d] # 0
               PROVE  peer'[connections[d]] = d /\ pc'[connections[d]] # "close"
    BY DEF Owned, Accept
  <2>1. connections[d] \in Fds /\ peer[connections[d]] = d
    BY DEF OwnedInv, Typing, Owned
  <2>2. connections[d] # f
    BY <1>1, <2>1, SessionsAssumption
  <2> QED
    BY <2>1, <2>2 DEF Accept, OwnedInv, Typing, Owned
<1> QED
  BY <1>2, <1>3 DEF OwnedInv

\* One step of the thread of a connection.
LEMMA OwnedThread ==
    ASSUME OwnedInv, NEW f \in Fds, ThreadStep(f)
    PROVE  OwnedInv'
<1>1. CASE HandleInfo(f)
  <2>1. pc[f] = "read" /\ peer[f] \in Clients
    BY <1>1 DEF HandleInfo, Reads, OwnedInv, Typing
  <2>2. Typing'
    BY <1>1, <2>1 DEF HandleInfo, OwnedInv, Typing
  <2>3. Owned'
    BY <1>1, <2>1 DEF HandleInfo, OwnedInv, Typing, Owned
  <2> QED
    BY <2>2, <2>3 DEF OwnedInv
<1>2. CASE HandleOther(f)
  BY <1>2, OwnedQuiet DEF HandleOther
<1>3. CASE HandleDisconnect(f)
  <2>1. Typing'
    BY <1>3 DEF HandleDisconnect, Reads, OwnedInv, Typing
  <2>2. Owned'
    BY <1>3 DEF HandleDisconnect, OwnedInv, Typing, Owned
  <2> QED
    BY <2>1, <2>2 DEF OwnedInv
<1>4. ASSUME NEW ok \in BOOLEAN, StoreUser(f, ok)
      PROVE  OwnedInv'
  <2>1. pc[f] = "store" /\ peer[f] \in Clients
    BY <1>4 DEF StoreUser, OwnedInv, Typing
  <2>2. pc'[f] \in {"read", "store"} /\ \A g \in Fds \ {f} : pc'[g] = pc[g]
    BY <1>4, <2>1 DEF StoreUser, OwnedInv, Typing
  <2>3. pc' \in [Fds -> {"none", "read", "store", "offline", "remove", "close"}]
    BY <1>4, <2>1 DEF StoreUser, OwnedInv, Typing
  <2>4. Typing'
    BY <1>4, <2>1, <2>2, <2>3 DEF StoreUser, OwnedInv, Typing
  <2>5. Owned'
    BY <1>4, <2>1, <2>2 DEF StoreUser, OwnedInv, Typing, Owned
  <2> QED
    BY <2>4, <2>5 DEF OwnedInv
<1>5. ASSUME NEW ok \in BOOLEAN, SetOffline(f, ok)
      PROVE  OwnedInv'
  <2>1. Typing'
    BY <1>5 DEF SetOffline, OwnedInv, Typing
  <2>2. Owned'
    BY <1>5 DEF SetOffline, OwnedInv, Typing, Owned
  <2> QED
    BY <2>1, <2>2 DEF OwnedInv
<1>6. CASE RemoveConnection(f)
  <2>1. peer[f] \in Clients
    BY <1>6 DEF RemoveConnection, OwnedInv, Typing
  <2>2. Typing'
    BY <1>6, <2>1 DEF RemoveConnection, OwnedInv, Typing
  <2>3. Owned'
    BY <1>6, <2>1 DEF RemoveConnection, OwnedInv, Typing, Owned
  <2> QED
    BY <2>2, <2>3 DEF OwnedInv
<1>7. CASE EndOfFile(f)
  <2>1. peer[f] \in Clients
    BY <1>7 DEF EndOfFile, OwnedInv, Typing
  <2>2. Typing'
    BY <1>7, <2>1 DEF EndOfFile, OwnedInv, Typing
  <2>3. Owned'
    BY <1>7, <2>1 DEF EndOfFile, OwnedInv, Typing, Owned
  <2> QED
    BY <2>2, <2>3 DEF OwnedInv
<1>8. CASE Close(f)
  <2>1. Typing'
    BY <1>8, SessionsAssumption DEF Close, OwnedInv, Typing
  <2>2. Owned'
    BY <1>8 DEF Close, OwnedInv, Typing, Owned
  <2> QED
    BY <2>1, <2>2 DEF OwnedInv
<1> QED
  BY <1>1, <1>2, <1>3, <1>4, <1>5, <1>6, <1>7, <1>8 DEF ThreadStep

LEMMA OwnedStep == OwnedInv /\ [Next]_vars => OwnedInv'
<1> SUFFICES ASSUME OwnedInv, [Next]_vars PROVE OwnedInv'
  OBVIOUS
<1>1. ASSUME NEW f \in Fds, ClientStep(f) PROVE OwnedInv'
  <2>1. ASSUME NEW c \in Clients, Accept(c, f) PROVE OwnedInv'
    BY <2>1, OwnedAccept
  <2>2. CASE SendRequest(f) \/ SendDisconnect(f) \/ ClientDies(f)
    BY <2>2, OwnedQuiet DEF SendRequest, SendDisconnect, ClientDies
  <2> QED
    BY <1>1, <2>1, <2>2 DEF ClientStep
<1>2. ASSUME NEW f \in Fds, ThreadStep(f) PROVE OwnedInv'
  BY <1>2, OwnedThread
<1>3. ASSUME NEW s \in Senders, SenderStep(s) PROVE OwnedInv'
  BY <1>3, OwnedQuiet DEF SenderStep, GetConnection, Send, conn
<1>4. CASE UNCHANGED vars
  BY <1>4, OwnedQuiet DEF vars, conn
<1> QED
  BY <1>1, <1>2, <1>3, <1>4 DEF Next

\* The registry names no closed or foreign descriptor for a client that never vanished
\* (sender.cpp against server.cpp and authentication.cpp).
THEOREM RegistryNamesOwnerCorrect == Spec => []RegistryNamesOwner
<1>1. OwnedInv => RegistryNamesOwner
  BY DEF OwnedInv, Owned, RegistryNamesOwner
<1> QED
  BY <1>1, OwnedInit, OwnedStep, PTL DEF Spec

-----------------------------------------------------------------------------
(***************************************************************************)
(* While no statement fails, the database and the registry agree about the *)
(* clients that come back only after their last connection is closed.      *)
(***************************************************************************)
OneConnection ==
    \A f, g \in Fds : peer[f] = peer[g] /\ peer[f] \in Clients \ overlapped => f = g

\* A client is registered while it is stored, and offline while it is taken off.
Ordered ==
    \A f \in Fds :
        Orderly(peer[f]) => /\ pc[f] = "store" => connections[peer[f]] # 0
                            /\ pc[f] = "remove" => ~isOnline[peer[f]]

Agreement == OneConnection /\ Ordered /\ OnlineIsRegistered

OnlineInv == OwnedInv /\ Agreement

LEMMA OnlineQuiet ==
    ASSUME Agreement, UNCHANGED <<peer, pc, connections, isOnline, overlapped, faults>>
    PROVE  Agreement'
BY DEF Agreement, OneConnection, Ordered, OnlineIsRegistered, Orderly

LEMMA OnlineThread ==
    ASSUME OnlineInv, OwnedInv', faults \in Nat, NEW f \in Fds, ThreadStep(f)
    PROVE  Agreement'
<1> USE FdsPositive DEF Agreement, OnlineInv, OwnedInv, Typing
<1>1. ASSUME NEW ok \in BOOLEAN, Outcome(ok), faults' = 0 PROVE ok /\ faults = 0
  BY <1>1 DEF Outcome
<1>2. CASE HandleInfo(f)
  <2>1. peer[f] \in Clients
    BY <1>2 DEF HandleInfo, Reads
  <2>2. Ordered'
    BY <1>2, <2>1 DEF HandleInfo, Ordered, Orderly, counters
  <2>3. OnlineIsRegistered'
    BY <1>2, <2>1 DEF HandleInfo, OnlineIsRegistered, Orderly, counters
  <2> QED
    BY <1>2, <2>2, <2>3 DEF HandleInfo, OneConnection
<1>3. ASSUME NEW ok \in BOOLEAN, StoreUser(f, ok) PROVE Agreement'
  <2>1. pc[f] = "store" /\ peer[f] \in Clients /\ Outcome(ok)
    BY <1>3 DEF StoreUser
  <2>2. ASSUME faults' = 0
        PROVE  /\ faults = 0
               /\ isOnline' = [isOnline EXCEPT ![peer[f]] = TRUE]
               /\ pc' = [pc EXCEPT ![f] = "read"]
    BY <1>1, <1>3, <2>1, <2>2 DEF StoreUser
  <2>3. ASSUME NEW g \in Fds, Orderly(peer[g])', pc'[g] = "store"
        PROVE  connections'[peer'[g]] # 0
    BY <1>3, <2>2, <2>3 DEF StoreUser, Ordered, Orderly
  <2>4. ASSUME NEW g \in Fds, Orderly(peer[g])', pc'[g] = "remove"
        PROVE  ~isOnline'[peer'[g]]
    <3>1. g # f /\ pc[g] = "remove" /\ peer'[g] = peer[g] /\ peer[g] \in Clients
      BY <1>3, <2>1, <2>2, <2>4 DEF StoreUser, Orderly
    <3>2. peer[g] # peer[f]
      BY <1>3, <2>1, <2>4, <3>1 DEF StoreUser, OneConnection, Orderly
    <3> QED
      BY <1>3, <2>1, <2>2, <2>4, <3>1, <3>2 DEF StoreUser, Ordered, Orderly
  <2>5. OnlineIsRegistered'
    BY <1>3, <2>1, <2>2 DEF StoreUser, OnlineIsRegistered, Ordered, Orderly
  <2>6. OneConnection'
    BY <1>3 DEF StoreUser, OneConnection
  <2> QED
    BY <2>3, <2>4, <2>5, <2>6 DEF Ordered
<1>4. CASE HandleOther(f)
  BY <1>4, OnlineQuiet DEF HandleOther, counters
<1>5. CASE HandleDisconnect(f) \/ EndOfFile(f)
  <2>1. Ordered'
    BY <1>5 DEF HandleDisconnect, EndOfFile, Ordered, Orderly, counters
  <2> QED
    BY <1>5, <2>1 DEF HandleDisconnect, EndOfFile, OneConnection, OnlineIsRegistered,
                      Orderly, counters
<1>6. ASSUME NEW ok \in BOOLEAN, SetOffline(f, ok) PROVE Agreement'
  <2>1. Outcome(ok) /\ peer[f] \in Clients
    BY <1>6 DEF SetOffline
  <2>2. ASSUME faults' = 0
        PROVE  faults = 0 /\ isOnline' = [isOnline EXCEPT ![peer[f]] = FALSE]
    BY <1>1, <1>6, <2>1, <2>2 DEF SetOffline
  <2>3. Ordered'
    BY <1>6, <2>1, <2>2 DEF SetOffline, Ordered, Orderly
  <2>4. OnlineIsRegistered'
    BY <1>6, <2>1, <2>2 DEF SetOffline, OnlineIsRegistered, Orderly
  <2>5. OneConnection'
    BY <1>6 DEF SetOffline, OneConnection
  <2> QED
    BY <2>3, <2>4, <2>5
<1>7. CASE RemoveConnection(f)
  <2>1. pc[f] = "remove" /\ peer[f] \in Clients
    BY <1>7 DEF RemoveConnection
  <2>2. UNCHANGED <<peer, isOnline, overlapped, faults>>
    BY <1>7 DEF RemoveConnection, counters
  <2>3. ASSUME NEW g \in Fds, Orderly(peer[g])', pc'[g] = "store"
        PROVE  connections'[peer'[g]] # 0
    <3>1. pc[g] = "store" /\ g # f /\ peer[g] \in Clients
      BY <1>7, <2>1, <2>3 DEF RemoveConnection
    <3>2. peer[g] # peer[f]
      BY <2>2, <2>3, <3>1 DEF OneConnection, Orderly
    <3> QED
      BY <1>7, <2>2, <2>3, <3>1, <3>2 DEF RemoveConnection, Ordered, Orderly
  <2>4. ASSUME NEW g \in Fds, Orderly(peer[g])', pc'[g] = "remove"
        PROVE  ~isOnline'[peer'[g]]
    BY <1>7, <2>2, <2>4 DEF RemoveConnection, Ordered, Orderly
  <2>5. OnlineIsRegistered'
    BY <1>7, <2>1, <2>2 DEF RemoveConnection, OnlineIsRegistered, Ordered, Orderly
  <2>6. OneConnection'
    BY <2>2 DEF OneConnection
  <2> QED
    BY <2>3, <2>4, <2>5, <2>6 DEF Ordered
<1>8. CASE Close(f)
  <2>1. OneConnection'
    BY <1>8, SessionsAssumption DEF Close, OneConnection
  <2>2. Ordered'
    BY <1>8 DEF Close, Ordered, Orderly, counters
  <2> QED
    BY <1>8, <2>1, <2>2 DEF Close, OnlineIsRegistered, Orderly, counters
<1> QED
  BY <1>2, <1>3, <1>4, <1>5, <1>6, <1>7, <1>8 DEF ThreadStep

LEMMA OnlineAccept ==
    ASSUME OnlineInv, NEW f \in Fds, NEW c \in Clients, Accept(c, f)
    PROVE  Agreement'
<1> USE DEF Agreement, OnlineInv, OwnedInv, Typing
<1>1. peer' = [peer EXCEPT ![f] = c] /\ pc' = [pc EXCEPT ![f] = "read"]
  BY DEF Accept
<1>2. c \in overlapped' \/ \A g \in Fds : peer[g] # c
  BY DEF Accept
<1>3. overlapped \subseteq overlapped' /\ faults' = faults
  BY DEF Accept
<1>4. OneConnection'
  BY <1>1, <1>2, <1>3 DEF OneConnection
<1>5. Ordered'
  BY <1>1, <1>3 DEF Accept, Ordered, Orderly
<1>6. OnlineIsRegistered'
  BY <1>3 DEF Accept, OnlineIsRegistered, Orderly
<1> QED
  BY <1>4, <1>5, <1>6

FaultsInv == faults \in Nat

LEMMA FaultsStep == FaultsInv /\ [Next]_vars => FaultsInv'
BY DEF FaultsInv, Next, ClientStep, ThreadStep, SenderStep, Accept, SendRequest,
       SendDisconnect, ClientDies, HandleInfo, StoreUser, HandleOther, HandleDisconnect,
       SetOffline, RemoveConnection, EndOfFile, Close, GetConnection, Send, Outcome,
       vars, counters

LEMMA OnlineStep == FaultsInv /\ OnlineInv /\ [Next]_vars => OnlineInv'
<1> SUFFICES ASSUME FaultsInv, OnlineInv, [Next]_vars PROVE OnlineInv'
  OBVIOUS
<1>1. OwnedInv'
  BY OwnedStep DEF OnlineInv
<1>2. ASSUME NEW f \in Fds, ClientStep(f) PROVE Agreement'
  <2>1. ASSUME NEW c \in Clients, Accept(c, f) PROVE Agreement'
    BY <2>1, OnlineAccept
  <2>2. CASE SendRequest(f) \/ SendDisconnect(f) \/ ClientDies(f)
    BY <2>2, OnlineQuiet DEF SendRequest, SendDisconnect, ClientDies, counters, OnlineInv
  <2> QED
    BY <1>2, <2>1, <2>2 DEF ClientStep
<1>3. ASSUME NEW f \in Fds, ThreadStep(f) PROVE Agreement'
  BY <1>1, <1>3, OnlineThread DEF FaultsInv
<1>4. ASSUME NEW s \in Senders, SenderStep(s) PROVE Agreement'
  BY <1>4, OnlineQuiet DEF SenderStep, GetConnection, Send, conn, counters, OnlineInv
<1>5. ASSUME UNCHANGED vars PROVE Agreement'
  BY <1>5, OnlineQuiet DEF vars, conn, counters, OnlineInv
<1> QED
  BY <1>1, <1>2, <1>3, <1>4, <1>5 DEF Next, OnlineInv

LEMMA OnlineAlways == Spec => [](FaultsInv /\ OnlineInv)
<1>1. Init => FaultsInv /\ OnlineInv
  <2> SUFFICES ASSUME Init PROVE FaultsInv /\ OnlineInv
    OBVIOUS
  <2>1. OwnedInv
    BY OwnedInit
  <2> QED
    BY <2>1, SessionsAssumption
    DEF Init, FaultsInv, OnlineInv, Agreement, OneConnection, Ordered, OnlineIsRegistered
<1> QED
  BY <1>1, FaultsStep, OnlineStep, PTL DEF Spec

\* findWarehouseForItem (database.cpp) picks a warehouse by is_online and OrderManager
\* sends to it through the registry: the socket it looks up is there.
THEOREM OnlineIsRegisteredCorrect == Spec => []OnlineIsRegistered
<1>1. OnlineInv => OnlineIsRegistered
  BY DEF OnlineInv, Agreement
<1> QED
  BY <1>1, OnlineAlways, PTL

\* A connection whose info was handled is the registered one until it is taken off.
Reachable ==
    /\ \A f \in greeted : f \in Fds /\ pc[f] # "none"
    /\ RunningIsReachable

LEMMA ReachableStep ==
    OwnedInv /\ OwnedInv' /\ OneConnection /\ Reachable /\ [Next]_vars => Reachable'
<1> SUFFICES ASSUME OwnedInv, OwnedInv', OneConnection, Reachable, [Next]_vars
             PROVE  Reachable'
  OBVIOUS
<1> USE FdsPositive, SessionsAssumption DEF OwnedInv, Typing
<1>1. ASSUME UNCHANGED <<peer, pc, connections, greeted, overlapped>> PROVE Reachable'
  BY <1>1 DEF Reachable, RunningIsReachable
<1>2. ASSUME NEW f \in Fds, NEW c \in Clients, Accept(c, f) PROVE Reachable'
  <2>1. f \notin greeted /\ greeted' = greeted /\ connections' = connections
    BY <1>2 DEF Accept, Reachable
  <2>2. \A g \in greeted : peer'[g] = peer[g] /\ pc'[g] = pc[g]
    BY <1>2, <2>1 DEF Accept, Reachable
  <2>3. overlapped \subseteq overlapped'
    BY <1>2 DEF Accept
  <2> QED
    BY <2>1, <2>2, <2>3 DEF Reachable, RunningIsReachable
<1>3. ASSUME NEW f \in Fds, HandleInfo(f) PROVE Reachable'
  <2>1. peer[f] \in Clients
    BY <1>3 DEF HandleInfo, Reads
  <2>2. ASSUME NEW g \in greeted', peer[g] \notin overlapped, pc'[g] # "close"
        PROVE  connections'[peer[g]] = g /\ g \in Fds /\ pc'[g] # "none"
    BY <1>3, <2>1, <2>2 DEF HandleInfo, Reachable, RunningIsReachable, OneConnection
  <2>3. \A g \in greeted' : g \in Fds /\ pc'[g] # "none"
    BY <1>3 DEF HandleInfo, Reachable
  <2> QED
    BY <1>3, <2>2, <2>3 DEF HandleInfo, Reachable, RunningIsReachable
<1>4. ASSUME NEW f \in Fds, NEW ok \in BOOLEAN, StoreUser(f, ok) \/ SetOffline(f, ok)
      PROVE  Reachable'
  <2>1. pc[f] # "close" /\ pc'[f] # "none" /\ \A g \in Fds \ {f} : pc'[g] = pc[g]
    BY <1>4 DEF StoreUser, SetOffline
  <2> QED
    BY <1>4, <2>1 DEF StoreUser, SetOffline, Reachable, RunningIsReachable
<1>5. ASSUME NEW f \in Fds, HandleDisconnect(f) \/ EndOfFile(f) PROVE Reachable'
  BY <1>5 DEF HandleDisconnect, EndOfFile, Reads, Reachable, RunningIsReachable
<1>6. ASSUME NEW f \in Fds, RemoveConnection(f) PROVE Reachable'
  <2>1. peer[f] \in Clients /\ pc' = [pc EXCEPT ![f] = "close"]
    BY <1>6 DEF RemoveConnection
  <2>2. ASSUME NEW g \in greeted, pc'[g] # "close", peer[g] \notin overlapped
        PROVE  connections'[peer[g]] = g
    BY <1>6, <2>1, <2>2 DEF RemoveConnection, Reachable, RunningIsReachable, OneConnection
  <2> QED
    BY <1>6, <2>1, <2>2 DEF RemoveConnection, Reachable, RunningIsReachable
<1>7. ASSUME NEW f \in Fds, Close(f) PROVE Reachable'
  BY <1>7 DEF Close, Reachable, RunningIsReachable
<1>8. ASSUME NEW f \in Fds, \/ SendRequest(f) \/ SendDisconnect(f) \/ ClientDies(f)
                            \/ HandleOther(f)
      PROVE  Reachable'
  BY <1>1, <1>8 DEF SendRequest, SendDisconnect, ClientDies, HandleOther
<1>9. ASSUME NEW s \in Senders, SenderStep(s) PROVE Reachable'
  BY <1>1, <1>9 DEF SenderStep, GetConnection, Send, conn
<1>10. ASSUME UNCHANGED vars PROVE Reachable'
  BY <1>1, <1>10 DEF vars, conn
<1> QED
  BY <1>2, <1>3, <1>4, <1>5, <1>6, <1>7, <1>8, <1>9, <1>10
  DEF Next, ClientStep, ThreadStep

\* The socket registered for a client is that of its present connection, whatever it
\* left behind when it vanished before (server.cpp, authentication.cpp, sender.cpp).
THEOREM RunningIsReachableCorrect == Spec => []RunningIsReachable
<1>1. Init => Reachable
  BY DEF Init, Reachable, RunningIsReachable
<1>2. Reachable => RunningIsReachable
  BY DEF Reachable
<1>3. OnlineInv => OwnedInv /\ OneConnection
  BY DEF OnlineInv, Agreement
<1> QED
  BY <1>1, <1>2, <1>3, ReachableStep, OnlineAlways, PTL DEF Spec
-----------------------------------------------------------------------------
(***************************************************************************)
(* The type invariant.  A client is stored while an attempt is left.       *)
(***************************************************************************)
Attempts == \A f \in Fds : pc[f] = "store" => tries[f] < MaxRetries
TypeInv == TypeOK /\ Attempts

LEMMA TypeClient ==
    ASSUME TypeInv, NEW f \in Fds, ClientStep(f)
    PROVE  TypeInv'
<1> USE SessionsAssumption DEF TypeInv, TypeOK, Attempts
<1>1. ASSUME NEW c \in Clients, Accept(c, f) PROVE TypeInv'
  BY <1>1 DEF Accept
<1>2. CASE SendRequest(f)
  BY <1>2 DEF SendRequest
<1>3. CASE SendDisconnect(f)
  BY <1>3 DEF SendDisconnect, counters
<1>4. CASE ClientDies(f)
  BY <1>4 DEF ClientDies
<1> QED
  BY <1>1, <1>2, <1>3, <1>4 DEF ClientStep

LEMMA TypeReads ==
    ASSUME TypeInv, NEW f \in Fds, NEW n \in Nat \ {0}, Reads(f, n)
    PROVE  /\ bytes' \in [Fds -> Seq({"info", "request", "disconnect"})]
           /\ pc[f] = "read" /\ peer[f] \in Clients
<1>1. n + 1 \in Nat /\ n + 1 >= 1 /\ Len(bytes[f]) \in Nat
  BY DEF TypeInv, TypeOK
<1>2. SubSeq(bytes[f], n + 1, Len(bytes[f])) \in Seq({"info", "request", "disconnect"})
  BY <1>1 DEF TypeInv, TypeOK
<1> QED
  BY <1>2 DEF Reads, TypeInv, TypeOK

LEMMA TypeThread ==
    ASSUME TypeInv, NEW f \in Fds, ThreadStep(f)
    PROVE  TypeInv'
<1> USE SessionsAssumption DEF TypeInv, TypeOK, Attempts
<1>1. CASE HandleInfo(f)
  BY <1>1, TypeReads DEF HandleInfo, counters
<1>2. CASE HandleOther(f)
  <2>1. bytes' \in [Fds -> Seq({"info", "request", "disconnect"})]
    BY <1>2, TypeReads DEF HandleOther
  <2> QED
    BY <1>2, <2>1 DEF HandleOther, counters
<1>3. CASE HandleDisconnect(f)
  BY <1>3, TypeReads DEF HandleDisconnect, counters
<1>4. ASSUME NEW ok \in BOOLEAN, StoreUser(f, ok) PROVE TypeInv'
  <2>1. faults' \in 0..MaxFaults /\ peer[f] \in Clients
    BY <1>4 DEF StoreUser, Outcome
  <2>2. isOnline' \in [Clients -> BOOLEAN]
    BY <1>4, <2>1 DEF StoreUser
  <2>3. /\ tries' \in [Fds -> 0..MaxRetries]
        /\ pc' \in [Fds -> {"none", "read", "store", "offline", "remove", "close"}]
        /\ pc'[f] # "none" /\ (pc'[f] = "store" => tries'[f] < MaxRetries)
        /\ \A g \in Fds \ {f} : pc'[g] = pc[g] /\ tries'[g] = tries[g]
    BY <1>4 DEF StoreUser
  <2> QED
    BY <1>4, <2>1, <2>2, <2>3 DEF StoreUser
<1>5. ASSUME NEW ok \in BOOLEAN, SetOffline(f, ok) PROVE TypeInv'
  <2>1. faults' \in 0..MaxFaults /\ peer[f] \in Clients
    BY <1>5 DEF SetOffline, Outcome
  <2>2. isOnline' \in [Clients -> BOOLEAN]
    BY <1>5, <2>1 DEF SetOffline
  <2> QED
    BY <1>5, <2>1, <2>2 DEF SetOffline
<1>6. CASE RemoveConnection(f)
  BY <1>6 DEF RemoveConnection, counters
<1>7. CASE EndOfFile(f)
  BY <1>7 DEF EndOfFile, counters
<1>8. CASE Close(f)
  BY <1>8 DEF Close, counters
<1> QED
  BY <1>1, <1>2, <1>3, <1>4, <1>5, <1>6, <1>7, <1>8 DEF ThreadStep

LEMMA TypeStep == TypeInv /\ [Next]_vars => TypeInv'
<1> SUFFICES ASSUME TypeInv, [Next]_vars PROVE TypeInv'
  OBVIOUS
<1>1. ASSUME NEW f \in Fds, ClientStep(f) \/ ThreadStep(f) PROVE TypeInv'
  BY <1>1, TypeClient, TypeThread
<1>2. ASSUME NEW s \in Senders, SenderStep(s) PROVE TypeInv'
  <2>1. NoLookup \in [fd : Fds \cup {0}, to : Clients \cup {None}]
    BY DEF NoLookup
  <2>2. ASSUME NEW c \in Clients, GetConnection(s, c)
        PROVE  lookup' \in [Senders -> [fd : Fds \cup {0}, to : Clients \cup {None}]]
    <3>1. [fd |-> connections[c], to |-> c] \in [fd : Fds \cup {0}, to : Clients \cup {None}]
      BY DEF TypeInv, TypeOK
    <3> QED
      BY <2>2, <3>1 DEF GetConnection, TypeInv, TypeOK
  <2>3. lookup' \in [Senders -> [fd : Fds \cup {0}, to : Clients \cup {None}]]
    BY <1>2, <2>1, <2>2 DEF SenderStep, Send, TypeInv, TypeOK
  <2> QED
    BY <1>2, <2>3 DEF SenderStep, GetConnection, Send, conn, counters, TypeInv, TypeOK, Attempts
<1>3. CASE UNCHANGED vars
  BY <1>3 DEF vars, conn, counters, TypeInv, TypeOK, Attempts
<1> QED
  BY <1>1, <1>2, <1>3 DEF Next

\* The types: a descriptor with a thread belongs to a client, no connection stores its
\* client more often than MAX_RETRIES; of a lookup only that it is a descriptor or 0 and a
\* client or None, not that the two belong together.
THEOREM TypeCorrect == Spec => []TypeOK
<1>1. Init => TypeInv
  BY SessionsAssumption DEF Init, NoLookup, TypeInv, TypeOK, Attempts
<1>2. TypeInv => TypeOK
  BY DEF TypeInv
<1> QED
  BY <1>1, <1>2, TypeStep, PTL DEF Spec
=============================================================================
