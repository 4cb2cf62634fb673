--------------------------- MODULE SharedTransaction ---------------------------
(***************************************************************************)
(* Database (server/src/database.cpp) keeps one PostgreSQL connection for  *)
(* all threads of the server and takes no lock.  replaceConnections runs a *)
(* transaction on it, statement by statement; every other method runs one  *)
(* statement, inside that transaction if it happens to be open.            *)
(*                                                                         *)
(* The transaction is PostgreSQL's: BEGIN inside a transaction only warns, *)
(* a failed statement aborts the transaction, and COMMIT of an aborted one *)
(* rolls back and reports no error.  A step is one statement; what two     *)
(* threads do to the memory of libpq at the same time is left out.         *)
(***************************************************************************)
EXTENDS Naturals

CONSTANTS
    Nodes,        \* clients that declare their transport connections
    Writers,      \* threads that update some other row, one row each
    Readers,      \* threads that read the lists
    MaxEdges,     \* connections in a declared list
    MaxDeclares,  \* bound: lists declared by a node
    MaxWrites,    \* bound: updates by a writer
    MaxFaults,    \* bound: statements that fail
    MaxCrashes    \* bound: server crashes

ASSUME TransactionAssumption ==
    /\ MaxEdges \in Nat \ {0}
    /\ MaxDeclares \in Nat
    /\ MaxWrites \in Nat
    /\ MaxFaults \in Nat
    /\ MaxCrashes \in Nat

Edges == 1..MaxEdges

VARIABLES
    tx,         \* the state of the connection's transaction
    committed,  \* the tables as every other session and a restart see them
    working,    \* the tables as this connection sees them
    pc,         \* where replaceConnections is, for each node
    edge,       \* the connection it inserts next
    declared,   \* lists declared by each node so far
    result,     \* what its last call returned
    acked,      \* updates of each writer that were reported successful
    view,       \* the lists the last graph snapshot read
    writes, faults, crashes

vars == <<tx, committed, working, pc, edge, declared, result, acked, view,
          writes, faults, crashes>>

\* The list a node declared last; each of its rows carries the number of the call.
Whole(n) == [i \in Edges |-> declared[n]]
NoList == [i \in Edges |-> 0]

Lists == [Nodes -> [Edges -> 0..MaxDeclares]]
Tables == [lists : Lists, rows : [Writers -> 0..MaxWrites]]

TypeOK ==
    /\ tx \in {"none", "open", "failed"}
    /\ committed \in Tables
    /\ working \in Tables
    /\ pc \in [Nodes -> {"idle", "begin", "delete", "insert", "commit", "rollback"}]
    /\ edge \in [Nodes -> Edges]
    /\ declared \in [Nodes -> 0..MaxDeclares]
    /\ result \in [Nodes -> {"none", "true", "false"}]
    /\ acked \in [Writers -> 0..MaxWrites]
    /\ view \in Lists
    /\ writes \in [Writers -> 0..MaxWrites]
    /\ faults \in 0..MaxFaults
    /\ crashes \in 0..MaxCrashes

Empty == [lists |-> [n \in Nodes |-> NoList], rows |-> [w \in Writers |-> 0]]

Init ==
    /\ tx = "none"
    /\ committed = Empty
    /\ working = Empty
    /\ pc = [n \in Nodes |-> "idle"]
    /\ edge = [n \in Nodes |-> 1]
    /\ declared = [n \in Nodes |-> 0]
    /\ result = [n \in Nodes |-> "none"]
    /\ acked = [w \in Writers |-> 0]
    /\ view = Empty.lists
    /\ writes = [w \in Writers |-> 0]
    /\ faults = 0
    /\ crashes = 0

-----------------------------------------------------------------------------
(***************************************************************************)
(* PostgreSQL.                                                             *)
(***************************************************************************)

\* A statement that succeeds leaves the tables as given; outside a transaction it is
\* committed at once.
Applied(tables) ==
    /\ tx # "failed"
    /\ working' = tables
    /\ committed' = IF tx = "none" THEN tables ELSE committed
    /\ UNCHANGED <<tx, faults>>

\* A statement that fails aborts the transaction, and so does every later one.
Failed ==
    /\ \/ tx = "failed" /\ UNCHANGED faults
       \/ tx # "failed" /\ faults < MaxFaults /\ faults' = faults + 1
    /\ tx' = IF tx = "none" THEN "none" ELSE "failed"
    /\ working' = IF tx = "open" THEN committed ELSE working
    /\ UNCHANGED committed

\* Mutant: the transaction is not taken back.
NotRolledBack == UNCHANGED <<tx, working, committed, faults>>

RolledBack ==
    /\ tx' = "none"
    /\ working' = committed
    /\ UNCHANGED <<committed, faults>>

-----------------------------------------------------------------------------
(***************************************************************************)
(* replaceConnections, called by the thread of the node's connection.      *)
(***************************************************************************)
Goto(n, place) == pc' = [pc EXCEPT ![n] = place]

Returns(n, value) ==
    /\ Goto(n, "idle")
    /\ result' = [result EXCEPT ![n] = value]

Declare(n) ==
    /\ pc[n] = "idle"
    /\ declared[n] < MaxDeclares
    /\ declared' = [declared EXCEPT ![n] = @ + 1]
    /\ edge' = [edge EXCEPT ![n] = 1]
    /\ result' = [result EXCEPT ![n] = "none"]
    /\ Goto(n, "begin")
    /\ UNCHANGED <<tx, committed, working, acked, view, writes, faults, crashes>>

\* Mutant: autocommit.
NoTransaction(n) ==
    /\ pc[n] = "begin"
    /\ Goto(n, "delete")
    /\ UNCHANGED <<tx, working, committed, faults, result>>
    /\ UNCHANGED <<edge, declared, acked, view, writes, crashes>>

\* BEGIN; a failure is returned without a ROLLBACK.
Begin(n) ==
    /\ pc[n] = "begin"
    /\ \/ /\ tx # "failed"
          /\ tx' = "open"
          /\ Goto(n, "delete")
          /\ UNCHANGED <<working, committed, faults, result>>
       \/ Failed /\ Returns(n, "false")
    /\ UNCHANGED <<edge, declared, acked, view, writes, crashes>>

Delete(n) ==
    /\ pc[n] = "delete"
    /\ \/ Applied([working EXCEPT !.lists[n] = NoList]) /\ Goto(n, "insert")
       \/ Failed /\ Goto(n, "rollback")
    /\ UNCHANGED <<edge, declared, result, acked, view, writes, crashes>>

\* Mutant: the loop ends one connection early.
InsertStopsShort(n) ==
    /\ pc[n] = "insert"
    /\ Applied([working EXCEPT !.lists[n][edge[n]] = declared[n]])
    /\ edge' = [edge EXCEPT ![n] = @ + 1]
    /\ Goto(n, IF edge[n] >= MaxEdges - 1 THEN "commit" ELSE "insert")
    /\ UNCHANGED <<declared, result, acked, view, writes, crashes>>

\* INSERT of the next connection of the list.
Insert(n) ==
    /\ pc[n] = "insert"
    /\ \/ /\ Applied([working EXCEPT !.lists[n][edge[n]] = declared[n]])
          /\ edge' = [edge EXCEPT ![n] = IF @ = MaxEdges THEN @ ELSE @ + 1]
          /\ Goto(n, IF edge[n] = MaxEdges THEN "commit" ELSE "insert")
       \/ Failed /\ Goto(n, "rollback") /\ UNCHANGED edge
    /\ UNCHANGED <<declared, result, acked, view, writes, crashes>>

\* A connection without its fields: the exception is caught and rolled back.
InsertThrows(n) ==
    /\ pc[n] = "insert"
    /\ Goto(n, "rollback")
    /\ UNCHANGED <<tx, committed, working, edge, declared, result, acked, view,
                   writes, faults, crashes>>

\* Mutant: the call returns without its COMMIT.
ReturnsUncommitted(n) ==
    /\ pc[n] = "commit"
    /\ Returns(n, "true")
    /\ UNCHANGED <<tx, working, committed, faults>>
    /\ UNCHANGED <<edge, declared, acked, view, writes, crashes>>

\* COMMIT reports no error when the transaction had been aborted, or when none was open;
\* when it fails itself the transaction is over too.
Commit(n) ==
    /\ pc[n] = "commit"
    /\ \/ /\ tx' = "none"
          /\ committed' = IF tx = "open" THEN working ELSE committed
          /\ working' = IF tx = "failed" THEN committed ELSE working
          /\ Returns(n, "true")
          /\ UNCHANGED faults
       \/ /\ tx = "open"
          /\ faults < MaxFaults
          /\ faults' = faults + 1
          /\ tx' = "none"
          /\ working' = committed
          /\ Goto(n, "rollback")
          /\ UNCHANGED <<committed, result>>
    /\ UNCHANGED <<edge, declared, acked, view, writes, crashes>>

Rollback(n) ==
    /\ pc[n] = "rollback"
    /\ RolledBack
    /\ Returns(n, "false")
    /\ UNCHANGED <<edge, declared, acked, view, writes, crashes>>

-----------------------------------------------------------------------------
(***************************************************************************)
(* The other methods, the snapshot, and the server's end.                  *)
(***************************************************************************)

\* updateOrderStatus and its like: one statement, whose outcome is returned.
Update(w) ==
    /\ writes[w] < MaxWrites
    /\ writes' = [writes EXCEPT ![w] = @ + 1]
    /\ \/ /\ Applied([working EXCEPT !.rows[w] = writes[w] + 1])
          /\ acked' = [acked EXCEPT ![w] = writes[w] + 1]
       \/ Failed /\ UNCHANGED acked
    /\ UNCHANGED <<pc, edge, declared, result, view, crashes>>

\* buildGraphSnapshot: one SELECT.
Snapshot(r) ==
    /\ \/ Applied(working) /\ view' = working.lists
       \/ Failed /\ UNCHANGED view
    /\ UNCHANGED <<pc, edge, declared, result, acked, writes, crashes>>

\* The connection is lost with the server, and PostgreSQL rolls back.
Crash ==
    /\ crashes < MaxCrashes
    /\ crashes' = crashes + 1
    /\ tx' = "none"
    /\ working' = committed
    /\ pc' = [n \in Nodes |-> "idle"]
    /\ result' = [n \in Nodes |-> "none"]
    /\ UNCHANGED <<committed, edge, declared, acked, view, writes, faults>>

ReplaceStep(n) ==
    Declare(n) \/ Begin(n) \/ Delete(n) \/ Insert(n) \/ InsertThrows(n) \/ Commit(n) \/ Rollback(n)

Next ==
    \/ \E n \in Nodes : ReplaceStep(n)
    \/ \E w \in Writers : Update(w)
    \/ \E r \in Readers : Snapshot(r)
    \/ Crash

Spec == Init /\ [][Next]_vars

-----------------------------------------------------------------------------
InTransaction(n) == pc[n] \in {"delete", "insert", "commit", "rollback"}

\* No transaction is left behind: while one is open, or aborted, some call of
\* replaceConnections is still to end it.  (Statements outside would otherwise be
\* collected in it, and lost.)
NoTransactionLeft == tx # "none" => \E n \in Nodes : InTransaction(n)

\* "within a transaction to ensure atomicity" (database.cpp:396): the stored list of a
\* node changes only to the list it declared, whole.
ReplacedAtOnce ==
    [][\A n \in Nodes :
          committed'.lists[n] # committed.lists[n] => committed'.lists[n] = Whole(n)]_vars

\* The routing graph is built from whole lists: the snapshot, which reads on the
\* connection that runs the transaction, sees a part of a list only while the call that
\* replaces this list is on its way.
SnapshotIsWhole ==
    [][\A n \in Nodes :
          view'[n] # view[n] =>
              InTransaction(n) \/ \E k \in 0..MaxDeclares : view'[n] = [i \in Edges |-> k]]_vars

\* "true if all inserts succeeded, false on any failure" (database.hpp:168): the list
\* is stored when the call returns true, unless the statement of another thread has
\* failed in the transaction: COMMIT then rolls back and reports no error.
ReportedIsStored ==
    [][\A n \in Nodes :
          result[n] = "none" /\ result'[n] = "true"
              => committed'.lists[n] = Whole(n) \/ tx = "failed"]_vars

\* "true if the operation was successful" (database.hpp:102): an update of another thread
\* that was reported successful disappears again only while some call of
\* replaceConnections is between its BEGIN and its return.  The transaction of that call
\* collects the statements of every thread, and a ROLLBACK, a later failure or a crash
\* takes them all back; every path out of the call must therefore end the transaction, or
\* updates would go on to be reported and lost when nobody replaces a list.
AcknowledgedSurvives ==
    [][\A w \in Writers :
          acked[w] = working.rows[w] /\ acked'[w] # working'.rows[w]
              => \E n \in Nodes : InTransaction(n)]_vars
=============================================================================
