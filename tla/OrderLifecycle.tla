---------------------------- MODULE OrderLifecycle ----------------------------
(***************************************************************************)
(* The life of an order inside the server (server/src/orders.cpp) against  *)
(* the orders table (server/src/database.cpp).  Four kinds of threads write *)
(* the status of the same rows: the thread of each hub connection, the     *)
(* detached approval timer of each submission, the processApprovedOrders   *)
(* loop and the thread of each warehouse connection.  They share nothing   *)
(* but the table, so a step is one SQL statement or one message sent, and  *)
(* the steps of all threads interleave.                                    *)
(*                                                                         *)
(* Quantities are left out: a row is the status of one item of an order.   *)
(* A statement may fail (MaxFaults of them do), the server may crash and   *)
(* restart (MaxCrashes times), and a hub that restarts numbers its orders  *)
(* from 1 again, so that an order id is submitted up to MaxSubmits times.  *)
(*                                                                         *)
(* Hubs are assumed to cancel and update orders of their own only: the     *)
(* operator types the order id, and the server does not compare the hub    *)
(* with the order's.  The status of a delivery update is typed as well and *)
(* not checked by anyone but the table: any status it admits may be sent;  *)
(* those that are the server's to write succeed at most MaxReports times   *)
(* for an order.                                                           *)
(***************************************************************************)
EXTENDS Naturals, Sequences, FiniteSets, Functions

CONSTANTS
    Orders,       \* order ids
    Items,        \* item types
    Hubs,         \* hub ids
    Warehouses,   \* warehouse ids
    HubOf,        \* the hub each order id is built from ("<hub>_<n>")
    None,         \* no order, or no warehouse found
    MaxSubmits,   \* bound: submissions of one order id
    MaxReports,   \* bound: reports of a server's status for one order
    MaxFaults,    \* bound: SQL statements that fail
    MaxCrashes    \* bound: server crashes

ASSUME NamesAssumption ==
    /\ HubOf \in [Orders -> Hubs]
    /\ None \notin Orders \cup Warehouses \cup Hubs

ASSUME BoundsAssumption ==
    /\ MaxSubmits \in Nat \ {0}
    /\ MaxReports \in Nat
    /\ MaxFaults \in Nat
    /\ MaxCrashes \in Nat

VARIABLES
    rows,       \* the orders table: status of each (order_id, item_type) row
    session,    \* what the thread of each hub connection is doing
    timer,      \* the approval thread of each submission
    proc,       \* the processApprovedOrders thread
    inbox,      \* supply requests on their way to each warehouse
    dispatch,   \* what the thread of each warehouse connection is doing
    online,     \* clients registered in Sender
    reply,      \* last answer to a cancelation of each order
    submits,    \* submissions of each order id so far
    approvals,  \* history: successful writes of 'Approved' by an approval thread
    reports,    \* history: delivery updates by which a hub wrote a server's status
    rounds,     \* history: supply rounds begun by processApprovedOrders
    faults,     \* failed statements so far
    crashes     \* server crashes so far

vars == <<rows, session, timer, proc, inbox, dispatch, online, reply, submits,
          approvals, reports, rounds, faults, crashes>>

Absent == "Absent"

\* The values the CHECK of the orders table admits.
Status ==
    {"Logged", "Pending", "Approved", "Requested", "Shipped", "Delivered", "Canceled"}

\* Those that the server's own handlers and threads write as an order advances.
ServerStatus == {"Pending", "Approved", "Requested", "Shipped"}

\* An approval thread: not launched, in its 30 seconds, about to approve, over.
TimerState == {"none", "sleeping", "sawPending", "approved", "skipped", "lost"}

IdleSession == [op |-> "idle", order |-> None, todo |-> {}]
IdleDispatch == [pc |-> "idle", order |-> None]
IdleProc == [pc |-> "scan", batch |-> {}, order |-> None, todo |-> {}]

TypeOK ==
    /\ rows \in [Orders -> [Items -> Status \cup {Absent}]]
    /\ session \in [Hubs -> [op : {"idle", "insert", "cancel"},
                             order : Orders \cup {None},
                             todo : SUBSET Items]]
    /\ \A h \in Hubs : session[h].op # "idle" => session[h].order \in Orders
    /\ timer \in [Orders -> [1..MaxSubmits -> TimerState]]
    /\ proc \in [pc : {"scan", "next", "supply"}, batch : SUBSET Orders,
                 order : Orders \cup {None}, todo : SUBSET Items]
    /\ proc.pc = "supply" => proc.order \in Orders
    /\ inbox \in [Warehouses -> Seq(Orders)]
    /\ dispatch \in [Warehouses -> [pc : {"idle", "details", "notify", "write"},
                                    order : Orders \cup {None}]]
    /\ \A w \in Warehouses : dispatch[w].pc # "idle" => dispatch[w].order \in Orders
    /\ online \subseteq Hubs \cup Warehouses
    /\ reply \in [Orders -> {"none", "canceled", "refused"}]
    /\ submits \in [Orders -> 0..MaxSubmits]
    /\ approvals \in [Orders -> Nat]
    /\ reports \in [Orders -> [ServerStatus -> Nat]]
    /\ rounds \in [Orders -> Nat]
    /\ faults \in 0..MaxFaults
    /\ crashes \in 0..MaxCrashes

Init ==
    /\ rows = [o \in Orders |-> [i \in Items |-> Absent]]
    /\ session = [h \in Hubs |-> IdleSession]
    /\ timer = [o \in Orders |-> [k \in 1..MaxSubmits |-> "none"]]
    /\ proc = IdleProc
    /\ inbox = [w \in Warehouses |-> <<>>]
    /\ dispatch = [w \in Warehouses |-> IdleDispatch]
    /\ online = {}
    /\ reply = [o \in Orders |-> "none"]
    /\ submits = [o \in Orders |-> 0]
    /\ approvals = [o \in Orders |-> 0]
    /\ reports = [o \in Orders |-> [s \in ServerStatus |-> 0]]
    /\ rounds = [o \in Orders |-> 0]
    /\ faults = 0
    /\ crashes = 0

-----------------------------------------------------------------------------
(***************************************************************************)
(* The statements of database.cpp on the orders table.                     *)
(***************************************************************************)

\* PQexec either succeeds or, a bounded number of times, reports an error.
Statement(ok) ==
    /\ ok \/ faults < MaxFaults
    /\ faults' = IF ok THEN faults ELSE faults + 1

StatusesOf(o) == {rows[o][i] : i \in Items} \ {Absent}

\* Mutant: the update reaches one row of the order only.
WithStatusOneRow(o, s) ==
    IF StatusesOf(o) = {} THEN rows
    ELSE [rows EXCEPT ![o][CHOOSE i \in Items : rows[o][i] # Absent] = s]

\* UPDATE orders SET status = s WHERE order_id = o: every row the order has.
WithStatus(o, s) ==
    [rows EXCEPT ![o] = [i \in Items |-> IF rows[o][i] = Absent THEN Absent ELSE s]]

\* OrderManager::updateOrderStatus logs a failure and carries on.
UpdateOrderStatus(o, s, ok) ==
    /\ Statement(ok)
    /\ rows' = IF ok THEN WithStatus(o, s) ELSE rows

\* SELECT status ... : row 0 of an unordered result, "" without rows or on error.
GetOrderStatus(o, ok, s) ==
    /\ Statement(ok)
    /\ s \in IF ok /\ StatusesOf(o) # {} THEN StatusesOf(o) ELSE {""}

\* getOrderDetails groups the rows by status and answers group 0; its "status"
\* is "error" without rows or when the statement fails.
GetOrderDetails(o, ok, s, its) ==
    /\ Statement(ok)
    /\ s \in IF ok /\ StatusesOf(o) # {} THEN StatusesOf(o) ELSE {"error"}
    /\ its = {i \in Items : rows[o][i] = s}

-----------------------------------------------------------------------------
(***************************************************************************)
(* The thread of a hub's connection.                                       *)
(***************************************************************************)

Ready(h) == h \in online /\ session[h].op = "idle"

\* handleNewOrder: the message is parsed and validated.
NewOrder(o, its) ==
    /\ Ready(HubOf[o])
    /\ submits[o] < MaxSubmits
    /\ submits' = [submits EXCEPT ![o] = @ + 1]
    /\ session' = [session EXCEPT ![HubOf[o]] =
                      [op |-> "insert", order |-> o, todo |-> its]]
    /\ UNCHANGED <<rows, timer, proc, inbox, dispatch, online, reply, approvals,
                   reports, rounds, faults, crashes>>

\* One insertOrUpdateOrder; the first failure ends the handler and leaves the
\* rows already inserted, without an approval thread.
InsertItem(h, i, ok) ==
    /\ session[h].op = "insert"
    /\ i \in session[h].todo
    /\ Statement(ok)
    /\ rows' = IF ok THEN [rows EXCEPT ![session[h].order][i] = "Pending"] ELSE rows
    /\ session' = [session EXCEPT ![h] =
                      IF ok THEN [op |-> "insert", order |-> @.order, todo |-> @.todo \ {i}]
                            ELSE IdleSession]
    /\ UNCHANGED <<timer, proc, inbox, dispatch, online, reply, submits, approvals,
                   reports, rounds, crashes>>

\* After the last item the approval thread is launched and detached.
LaunchTimer(h) ==
    /\ session[h].op = "insert"
    /\ session[h].todo = {}
    /\ timer' = [timer EXCEPT ![session[h].order][submits[session[h].order]] = "sleeping"]
    /\ session' = [session EXCEPT ![h] = IdleSession]
    /\ UNCHANGED <<rows, proc, inbox, dispatch, online, reply, submits, approvals,
                   reports, rounds, faults, crashes>>

\* handleCancelation reads the status first ...
CancelRead(o, ok, s, its) ==
    /\ Ready(HubOf[o])
    /\ submits[o] > 0
    /\ GetOrderDetails(o, ok, s, its)
    /\ IF s = "Pending"
       THEN /\ session' = [session EXCEPT ![HubOf[o]] =
                              [op |-> "cancel", order |-> o, todo |-> {}]]
            /\ UNCHANGED reply
       ELSE /\ reply' = [reply EXCEPT ![o] = "refused"]
            /\ UNCHANGED session
    /\ UNCHANGED <<rows, timer, proc, inbox, dispatch, online, submits, approvals,
                   reports, rounds, crashes>>

\* ... then writes 'Canceled' and answers success, whether the write failed or not.
CancelWrite(h, ok) ==
    /\ session[h].op = "cancel"
    /\ UpdateOrderStatus(session[h].order, "Canceled", ok)
    /\ reply' = [reply EXCEPT ![session[h].order] = "canceled"]
    /\ session' = [session EXCEPT ![h] = IdleSession]
    /\ UNCHANGED <<timer, proc, inbox, dispatch, online, submits, approvals, reports,
                   rounds, crashes>>

\* deliveryUpdate writes the status the hub reports, from whatever state: the hub's menu
\* offers Delivered and Canceled and reads any word, and the message is checked for a
\* status that is null only.  (A word the CHECK refuses is a statement that fails.)
DeliveryUpdate(o, s, ok) ==
    /\ Ready(HubOf[o])
    /\ submits[o] > 0
    /\ s \in ServerStatus => SumFunction(reports[o]) < MaxReports
    /\ UpdateOrderStatus(o, s, ok)
    /\ reports' = IF ok /\ s \in ServerStatus
                  THEN [reports EXCEPT ![o][s] = @ + 1] ELSE reports
    /\ UNCHANGED <<session, timer, proc, inbox, dispatch, online, reply, submits,
                   approvals, rounds, crashes>>

-----------------------------------------------------------------------------
(***************************************************************************)
(* The approval thread of the k-th submission of an order.                 *)
(***************************************************************************)

\* Mutants: any order that exists is approved; the status is compared with the
\* wrong value.
ApprovesAny(s) == s # ""
ApprovesApproved(s) == s = "Approved"

\* The order is still in its cancelation window.
Approves(s) == s = "Pending"

\* The 30 seconds are over: the status is read.
TimerRead(o, k, ok, s) ==
    /\ timer[o][k] = "sleeping"
    /\ GetOrderStatus(o, ok, s)
    /\ timer' = [timer EXCEPT ![o][k] = IF Approves(s) THEN "sawPending" ELSE "skipped"]
    /\ UNCHANGED <<rows, session, proc, inbox, dispatch, online, reply, submits,
                   approvals, reports, rounds, crashes>>

\* The order that was Pending is approved.
TimerWrite(o, k, ok) ==
    /\ timer[o][k] = "sawPending"
    /\ UpdateOrderStatus(o, "Approved", ok)
    /\ timer' = [timer EXCEPT ![o][k] = IF ok THEN "approved" ELSE "skipped"]
    /\ approvals' = IF ok THEN [approvals EXCEPT ![o] = @ + 1] ELSE approvals
    /\ UNCHANGED <<session, proc, inbox, dispatch, online, reply, submits, reports,
                   rounds, crashes>>

-----------------------------------------------------------------------------
(***************************************************************************)
(* The processApprovedOrders thread.                                       *)
(***************************************************************************)

\* Mutants: the query also finds orders requested before, or not approved yet; the
\* loop waits for more orders in an empty batch.
ApprovedOrRequested == {o \in Orders : StatusesOf(o) \cap {"Approved", "Requested"} # {}}
ApprovedOrPending == {o \in Orders : StatusesOf(o) \cap {"Approved", "Pending"} # {}}
AlwaysNext(batch) == "next"

\* SELECT DISTINCT order_id FROM orders WHERE status = 'Approved'.
ApprovedOrders == {o \in Orders : "Approved" \in StatusesOf(o)}

AfterOrder(batch) == IF batch = {} THEN "scan" ELSE "next"

\* getApprovedOrders: the orders with some row Approved; none on an error.
ScanApproved(ok) ==
    /\ proc.pc = "scan"
    /\ Statement(ok)
    /\ LET found == IF ok THEN ApprovedOrders ELSE {}
       IN  proc' = [proc EXCEPT !.batch = found, !.pc = AfterOrder(found)]
    /\ UNCHANGED <<rows, session, timer, inbox, dispatch, online, reply, submits,
                   approvals, reports, rounds, crashes>>

\* The details of the next order of the batch, whose status may have changed
\* since the scan.  On an error the item list is empty and the round goes on.
FetchDetails(o, ok, s, its) ==
    /\ proc.pc = "next"
    /\ o \in proc.batch
    /\ GetOrderDetails(o, ok, s, its)
    /\ proc' = [pc |-> "supply", batch |-> proc.batch \ {o}, order |-> o, todo |-> its]
    /\ rounds' = [rounds EXCEPT ![o] = @ + 1]
    /\ UNCHANGED <<rows, session, timer, inbox, dispatch, online, reply, submits,
                   approvals, reports, crashes>>

\* supplyRequest, one item: the warehouse the query finds (None if there is none
\* or the query fails) is sent the request, unless it is not registered.
SupplyItem(i, w) ==
    /\ proc.pc = "supply"
    /\ i \in proc.todo
    /\ proc' = [proc EXCEPT !.todo = @ \ {i}]
    /\ inbox' = IF w \in online THEN [inbox EXCEPT ![w] = Append(@, proc.order)] ELSE inbox
    /\ UNCHANGED <<rows, session, timer, dispatch, online, reply, submits, approvals,
                   reports, rounds, faults, crashes>>

\* Whatever became of the supply requests, the order is marked Requested.
MarkRequested(ok) ==
    /\ proc.pc = "supply"
    /\ proc.todo = {}
    /\ UpdateOrderStatus(proc.order, "Requested", ok)
    /\ proc' = [proc EXCEPT !.pc = AfterOrder(proc.batch)]
    /\ UNCHANGED <<session, timer, inbox, dispatch, online, reply, submits, approvals,
                   reports, rounds, crashes>>

-----------------------------------------------------------------------------
(***************************************************************************)
(* A warehouse and the thread of its connection.                           *)
(***************************************************************************)

\* The warehouse takes a supply request from its stock and answers with an order
\* dispatch; the server reads it, unless it arrives in one read with the
\* inventory that follows it, when neither is parsed (arrives = FALSE).
ShipOrder(w, arrives) ==
    /\ dispatch[w].pc = "idle"
    /\ inbox[w] # <<>>
    /\ inbox' = [inbox EXCEPT ![w] = Tail(@)]
    /\ dispatch' = IF arrives
                   THEN [dispatch EXCEPT ![w] = [pc |-> "details", order |-> Head(inbox[w])]]
                   ELSE dispatch
    /\ UNCHANGED <<rows, session, timer, proc, online, reply, submits, approvals,
                   reports, rounds, faults, crashes>>

\* A supply request received in one recv behind another message (an answer of the
\* server, or another request) is lost: cJSON_Parse reads the first message only.
OvershadowedRequest(w) ==
    /\ inbox[w] # <<>>
    /\ inbox' = [inbox EXCEPT ![w] = Tail(@)]
    /\ UNCHANGED <<rows, session, timer, proc, dispatch, online, reply, submits,
                   approvals, reports, rounds, faults, crashes>>

\* handleOrderDispatch looks up the hub of the order; an error is an exception.
DispatchDetails(w, ok, s, its) ==
    /\ dispatch[w].pc = "details"
    /\ GetOrderDetails(dispatch[w].order, ok, s, its)
    /\ dispatch' = [dispatch EXCEPT ![w] =
                       IF s = "error" THEN IdleDispatch
                       ELSE [pc |-> "notify", order |-> @.order]]
    /\ UNCHANGED <<rows, session, timer, proc, inbox, online, reply, submits,
                   approvals, reports, rounds, crashes>>

\* The hub is notified; if it is not registered the handler returns early and
\* the status is never written.
DispatchNotify(w) ==
    /\ dispatch[w].pc = "notify"
    /\ dispatch' = [dispatch EXCEPT ![w] =
                       IF HubOf[dispatch[w].order] \in online
                       THEN [pc |-> "write", order |-> @.order] ELSE IdleDispatch]
    /\ UNCHANGED <<rows, session, timer, proc, inbox, online, reply, submits,
                   approvals, reports, rounds, faults, crashes>>

DispatchWrite(w, ok) ==
    /\ dispatch[w].pc = "write"
    /\ UpdateOrderStatus(dispatch[w].order, "Shipped", ok)
    /\ dispatch' = [dispatch EXCEPT ![w] = IdleDispatch]
    /\ UNCHANGED <<session, timer, proc, inbox, online, reply, submits, approvals,
                   reports, rounds, crashes>>

-----------------------------------------------------------------------------
(***************************************************************************)
(* Clients come and go; the server crashes.                                *)
(***************************************************************************)

Connect(c) ==
    /\ c \notin online
    /\ online' = online \cup {c}
    /\ UNCHANGED <<rows, session, timer, proc, inbox, dispatch, reply, submits,
                   approvals, reports, rounds, faults, crashes>>

\* The thread of the connection ends, once it is done with the message it was
\* handling; what the client had not read is lost.
DisconnectHub(h) ==
    /\ Ready(h)
    /\ online' = online \ {h}
    /\ UNCHANGED <<rows, session, timer, proc, inbox, dispatch, reply, submits,
                   approvals, reports, rounds, faults, crashes>>

DisconnectWarehouse(w) ==
    /\ w \in online
    /\ dispatch[w].pc = "idle"
    /\ online' = online \ {w}
    /\ inbox' = [inbox EXCEPT ![w] = <<>>]
    /\ UNCHANGED <<rows, session, timer, proc, dispatch, reply, submits, approvals,
                   reports, rounds, faults, crashes>>

\* Only the table survives: threads, approval timers, registry and sockets go.
Crash ==
    /\ crashes < MaxCrashes
    /\ crashes' = crashes + 1
    /\ session' = [h \in Hubs |-> IdleSession]
    /\ timer' = [o \in Orders |-> [k \in 1..MaxSubmits |->
                    IF timer[o][k] \in {"sleeping", "sawPending"} THEN "lost" ELSE timer[o][k]]]
    /\ proc' = IdleProc
    /\ inbox' = [w \in Warehouses |-> <<>>]
    /\ dispatch' = [w \in Warehouses |-> IdleDispatch]
    /\ online' = {}
    /\ UNCHANGED <<rows, reply, submits, approvals, reports, rounds, faults>>

-----------------------------------------------------------------------------
Answer == Status \cup {"", "error"}

SessionStep(h) ==
    \/ \E i \in Items, ok \in BOOLEAN : InsertItem(h, i, ok)
    \/ LaunchTimer(h)
    \/ \E ok \in BOOLEAN : CancelWrite(h, ok)

HubRequest ==
    \E o \in Orders :
        \/ \E its \in SUBSET Items : NewOrder(o, its)
        \/ \E ok \in BOOLEAN, s \in Answer, its \in SUBSET Items : CancelRead(o, ok, s, its)
        \/ \E s \in Status, ok \in BOOLEAN : DeliveryUpdate(o, s, ok)

TimerStep(o, k) ==
    \/ \E ok \in BOOLEAN, s \in Answer : TimerRead(o, k, ok, s)
    \/ \E ok \in BOOLEAN : TimerWrite(o, k, ok)

ProcStep ==
    \/ \E ok \in BOOLEAN : ScanApproved(ok)
    \/ \E o \in Orders, ok \in BOOLEAN, s \in Answer, its \in SUBSET Items :
           FetchDetails(o, ok, s, its)
    \/ \E i \in Items, w \in Warehouses \cup {None} : SupplyItem(i, w)
    \/ \E ok \in BOOLEAN : MarkRequested(ok)

WarehouseStep(w) ==
    \/ \E arrives \in BOOLEAN : ShipOrder(w, arrives)
    \/ OvershadowedRequest(w)

DispatchStep(w) ==
    \/ \E ok \in BOOLEAN, s \in Answer, its \in SUBSET Items : DispatchDetails(w, ok, s, its)
    \/ DispatchNotify(w)
    \/ \E ok \in BOOLEAN : DispatchWrite(w, ok)

ClientStep ==
    \/ \E c \in Hubs \cup Warehouses : Connect(c)
    \/ \E h \in Hubs : DisconnectHub(h)
    \/ \E w \in Warehouses : DisconnectWarehouse(w)

Next ==
    \/ \E h \in Hubs : SessionStep(h)
    \/ HubRequest
    \/ \E o \in Orders, k \in 1..MaxSubmits : TimerStep(o, k)
    \/ ProcStep
    \/ \E w \in Warehouses : WarehouseStep(w) \/ DispatchStep(w)
    \/ ClientStep
    \/ Crash

Spec == Init /\ [][Next]_vars

(***************************************************************************)
(* The threads of the server run: each goes on with what it has begun.     *)
(* Nothing is assumed of hubs, warehouses, connections or crashes.  A scan *)
(* that finds nothing changes nothing, unless it fails: fairness asks for  *)
(* no scan then, so that it does not ask for failures.                     *)
(***************************************************************************)
Fairness ==
    /\ \A h \in Hubs : WF_vars(SessionStep(h))
    /\ \A o \in Orders, k \in 1..MaxSubmits : WF_vars(TimerStep(o, k))
    /\ WF_vars((proc.pc # "scan" \/ ApprovedOrders # {}) /\ ProcStep)

FairSpec == Spec /\ Fairness

-----------------------------------------------------------------------------
(***************************************************************************)
(* What the server promises about an order.                                *)
(***************************************************************************)

Inserting(o) == session[HubOf[o]].op = "insert" /\ session[HubOf[o]].order = o

AtWarehouse(o) ==
    \E w \in Warehouses :
        \/ o \in {inbox[w][n] : n \in DOMAIN inbox[w]}
        \/ dispatch[w].pc # "idle" /\ dispatch[w].order = o

BeingProcessed(o) ==
    \/ o \in proc.batch
    \/ proc.pc = "supply" /\ proc.order = o

\* How often each order was made Approved: by an approval thread, or by its own hub.
granted == [o \in Orders |-> approvals[o] + reports[o]["Approved"]]

\* No order is taken to the warehouses more often than it was made Approved, but for
\* one extra round per failed statement or crash: the scan, the supply requests
\* and the marking are not atomic, and an unmarked order is scanned again.
SuppliesBacked ==
    \A o \in Orders : rounds[o] <= granted[o] + faults + crashes

\* The same as a behaviour: every step of the server is a step of the ledger.
Ledger == INSTANCE SupplyLedger
    WITH approved <- granted, supplied <- rounds, incidents <- faults + crashes

SuppliesFollowApprovals == Ledger!Spec

\* Nothing is requested from a warehouse or in its hands, and nothing is Approved, before
\* the cancelation window has ended in an approval, unless the order's own hub has
\* reported it Approved in a delivery update: deliveryUpdate does not look at the window,
\* so that this one message takes a new order to the warehouses at once.  Requested and
\* Shipped are recorded only after that too, or where the hub has reported just this.
NoSupplyUnapproved ==
    \A o \in Orders :
        granted[o] > 0
        \/ /\ rounds[o] = 0 /\ ~AtWarehouse(o) /\ ~BeingProcessed(o)
           /\ "Approved" \notin StatusesOf(o)
           /\ \A s \in {"Requested", "Shipped"} : s \in StatusesOf(o) => reports[o][s] > 0

\* The rows of an order that was submitted once always carry one status, at every
\* interleaving of its writers and after a failed insert: getOrderStatus and
\* getOrderDetails, which look at the first row or group only, depend on it.
RowsAgree ==
    \A o \in Orders : submits[o] <= 1 => Cardinality(StatusesOf(o)) <= 1

ApprovalInFlight(o) == \E k \in 1..MaxSubmits : timer[o][k] = "sawPending"

\* A canceled order is revived only by work already begun when it was canceled (an
\* approval thread that has read Pending, the scan's batch, or a warehouse), by a new
\* submission, or by its own hub in a delivery update that reports the very status.
CanceledIsFinal ==
    [][\A o \in Orders :
        (/\ StatusesOf(o) = {"Canceled"}
         /\ ~ApprovalInFlight(o) /\ ~BeingProcessed(o) /\ ~AtWarehouse(o))
        => /\ \A s \in {"Approved", "Requested", "Shipped"} :
                 s \in StatusesOf(o)' => reports'[o][s] > reports[o][s]
           /\ ~BeingProcessed(o)'
           /\ ~ApprovalInFlight(o)']_vars

\* Whatever fails or crashes in between, an Approved order is taken out of that
\* status in the end: it does not wait in the table for ever.
ApprovedIsProcessed ==
    \A o \in Orders : "Approved" \in StatusesOf(o) ~> "Approved" \notin StatusesOf(o)

\* Every Pending order is decided in the end, unless a statement fails or the server
\* crashes: the approval threads are in memory only, and give up at an error.  Nor does
\* anyone decide an order that its hub has reported Pending again.
PendingIsDecided ==
    \A o \in Orders :
        "Pending" \in StatusesOf(o)
            ~> \/ "Pending" \notin StatusesOf(o)
               \/ reports[o]["Pending"] > 0
               \/ faults + crashes > 0

-----------------------------------------------------------------------------
(***************************************************************************)
(* What a comment of the repository says and the code does not do.         *)
(***************************************************************************)

\* "Canceled: Order has been canceled by the hub (before approval)"
\* (init_postgres.sql:70): an order submitted once whose cancelation was answered
\* with success is not approved.
CanceledBeforeApproval ==
    \A o \in Orders :
        submits[o] <= 1 /\ reply[o] = "canceled" => "Approved" \notin StatusesOf(o)
=============================================================================
