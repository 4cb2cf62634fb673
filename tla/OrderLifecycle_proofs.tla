------------------------ MODULE OrderLifecycle_proofs ------------------------
(***************************************************************************)
(* Proofs about OrderLifecycle, for every set of orders, items, hubs and   *)
(* warehouses and every bound.                                             *)
(***************************************************************************)
EXTENDS OrderLifecycle, SequenceTheorems, FiniteSetTheorems, TLAPS

USE NamesAssumption, BoundsAssumption

-----------------------------------------------------------------------------
\* A successful or a failed statement keeps the failure count in its range.
LEMMA StatementType ==
    ASSUME faults \in 0..MaxFaults, NEW ok \in BOOLEAN, Statement(ok)
    PROVE  faults' \in 0..MaxFaults /\ faults' \in {faults, faults + 1}
  BY DEF Statement

\* updateOrderStatus writes one of the admitted values to rows that exist.
LEMMA UpdateType ==
    ASSUME rows \in [Orders -> [Items -> Status \cup {Absent}]],
           faults \in 0..MaxFaults,
           NEW o \in Orders, NEW s \in Status, NEW ok \in BOOLEAN,
           UpdateOrderStatus(o, s, ok)
    PROVE  /\ rows' \in [Orders -> [Items -> Status \cup {Absent}]]
           /\ faults' \in 0..MaxFaults
  BY DEF UpdateOrderStatus, Statement, WithStatus

\* Every handler and thread of the server keeps the fields it stores in their ranges.
LEMMA TypeStep == TypeOK /\ [Next]_vars => TypeOK'
<1> SUFFICES ASSUME TypeOK, [Next]_vars PROVE TypeOK'
  OBVIOUS
<1>1. ASSUME NEW h \in Hubs, SessionStep(h) PROVE TypeOK'
  <2>1. ASSUME NEW i \in Items, NEW ok \in BOOLEAN, InsertItem(h, i, ok) PROVE TypeOK'
    BY <2>1 DEF TypeOK, InsertItem, Statement, IdleSession, Status
  <2>2. CASE LaunchTimer(h)
    BY <2>2 DEF TypeOK, TimerState, LaunchTimer, IdleSession
  <2>3. ASSUME NEW ok \in BOOLEAN, CancelWrite(h, ok) PROVE TypeOK'
    <3>1. session[h].order \in Orders /\ "Canceled" \in Status
      BY <2>3 DEF TypeOK, CancelWrite, Status
    <3>2. rows' \in [Orders -> [Items -> Status \cup {Absent}]] /\ faults' \in 0..MaxFaults
      BY <2>3, <3>1, UpdateType DEF TypeOK, CancelWrite
    <3> QED
      BY <2>3, <3>1, <3>2 DEF TypeOK, CancelWrite, IdleSession
  <2> QED
    BY <1>1, <2>1, <2>2, <2>3 DEF SessionStep
<1>2. ASSUME HubRequest PROVE TypeOK'
  <2>1. ASSUME NEW o \in Orders, NEW its \in SUBSET Items, NewOrder(o, its) PROVE TypeOK'
    BY <2>1 DEF TypeOK, NewOrder, Ready
  <2>2. ASSUME NEW o \in Orders, NEW ok \in BOOLEAN, NEW s \in Answer,
               NEW its \in SUBSET Items, CancelRead(o, ok, s, its)
        PROVE  TypeOK'
    <3>1. faults' \in 0..MaxFaults
      BY <2>2, StatementType DEF TypeOK, CancelRead, GetOrderDetails
    <3>2. CASE s = "Pending"
      <4>1. HubOf[o] \in Hubs
        BY NamesAssumption
      <4>2. session' = [session EXCEPT ![HubOf[o]] =
                          [op |-> "cancel", order |-> o, todo |-> {}]]
        BY <2>2, <3>2 DEF CancelRead
      <4>3. session' \in [Hubs -> [op : {"idle", "insert", "cancel"},
                                   order : Orders \cup {None}, todo : SUBSET Items]]
        BY <4>1, <4>2 DEF TypeOK
      <4>4. \A h \in Hubs : session'[h].op # "idle" => session'[h].order \in Orders
        BY <4>1, <4>2 DEF TypeOK
      <4> QED
        BY <2>2, <3>1, <3>2, <4>3, <4>4 DEF TypeOK, CancelRead
    <3>3. CASE s # "Pending"
      BY <2>2, <3>1, <3>3 DEF TypeOK, CancelRead
    <3> QED
      BY <3>2, <3>3
  <2>3. ASSUME NEW o \in Orders, NEW s \in Status, NEW ok \in BOOLEAN,
               DeliveryUpdate(o, s, ok)
        PROVE  TypeOK'
    <3>1. rows' \in [Orders -> [Items -> Status \cup {Absent}]] /\ faults' \in 0..MaxFaults
      BY <2>3, UpdateType DEF TypeOK, DeliveryUpdate
    <3>2. reports' \in [Orders -> [ServerStatus -> Nat]]
      BY <2>3 DEF TypeOK, DeliveryUpdate
    <3> QED
      BY <2>3, <3>1, <3>2 DEF TypeOK, DeliveryUpdate
  <2> QED
    BY <1>2, <2>1, <2>2, <2>3 DEF HubRequest
<1>3. ASSUME NEW o \in Orders, NEW k \in 1..MaxSubmits, TimerStep(o, k) PROVE TypeOK'
  <2>1. ASSUME NEW ok \in BOOLEAN, NEW s \in Answer, TimerRead(o, k, ok, s) PROVE TypeOK'
    <3>1. faults' \in 0..MaxFaults
      BY <2>1, StatementType DEF TypeOK, TimerRead, GetOrderStatus
    <3>2. timer' \in [Orders -> [1..MaxSubmits -> TimerState]]
      BY <2>1 DEF TypeOK, TimerRead, TimerState, Approves
    <3> QED
      BY <2>1, <3>1, <3>2 DEF TypeOK, TimerRead
  <2>2. ASSUME NEW ok \in BOOLEAN, TimerWrite(o, k, ok) PROVE TypeOK'
    <3>1. rows' \in [Orders -> [Items -> Status \cup {Absent}]] /\ faults' \in 0..MaxFaults
      BY <2>2, UpdateType DEF TypeOK, TimerWrite, Status
    <3>2. timer' \in [Orders -> [1..MaxSubmits -> TimerState]]
      BY <2>2 DEF TypeOK, TimerWrite, TimerState
    <3>3. approvals' \in [Orders -> Nat]
      BY <2>2 DEF TypeOK, TimerWrite
    <3> QED
      BY <2>2, <3>1, <3>2, <3>3 DEF TypeOK, TimerWrite
  <2> QED
    BY <1>3, <2>1, <2>2 DEF TimerStep
<1>4. ASSUME ProcStep PROVE TypeOK'
  <2>1. ASSUME NEW ok \in BOOLEAN, ScanApproved(ok) PROVE TypeOK'
    <3>1. faults' \in 0..MaxFaults
      BY <2>1, StatementType DEF TypeOK, ScanApproved
    <3> DEFINE found == IF ok THEN ApprovedOrders ELSE {}
    <3>2. proc' = [proc EXCEPT !.batch = found, !.pc = AfterOrder(found)]
      BY <2>1 DEF ScanApproved
    <3>3. found \in SUBSET Orders /\ AfterOrder(found) \in {"scan", "next"}
      BY DEF AfterOrder, ApprovedOrders
    <3> HIDE DEF found
    <3>4. /\ proc' \in [pc : {"scan", "next", "supply"}, batch : SUBSET Orders,
                        order : Orders \cup {None}, todo : SUBSET Items]
          /\ proc'.pc # "supply"
      BY <3>2, <3>3 DEF TypeOK
    <3> QED
      BY <2>1, <3>1, <3>4 DEF TypeOK, ScanApproved
  <2>2. ASSUME NEW o \in Orders, NEW ok \in BOOLEAN, NEW s \in Answer,
               NEW its \in SUBSET Items, FetchDetails(o, ok, s, its)
        PROVE  TypeOK'
    BY <2>2 DEF TypeOK, FetchDetails, GetOrderDetails, Statement
  <2>3. ASSUME NEW i \in Items, NEW w \in Warehouses \cup {None}, SupplyItem(i, w)
        PROVE  TypeOK'
    <3>1. inbox' \in [Warehouses -> Seq(Orders)]
      <4>1. CASE w \in online
        <5>1. w \in Warehouses
          BY <4>1, NamesAssumption DEF TypeOK
        <5>2. Append(inbox[w], proc.order) \in Seq(Orders)
          BY <2>3, <5>1 DEF TypeOK, SupplyItem
        <5> QED
          BY <2>3, <4>1, <5>1, <5>2 DEF TypeOK, SupplyItem
      <4>2. CASE w \notin online
        BY <2>3, <4>2 DEF TypeOK, SupplyItem
      <4> QED
        BY <4>1, <4>2
    <3>2. /\ proc' \in [pc : {"scan", "next", "supply"}, batch : SUBSET Orders,
                        order : Orders \cup {None}, todo : SUBSET Items]
          /\ proc'.order \in Orders
      BY <2>3 DEF TypeOK, SupplyItem
    <3> QED
      BY <2>3, <3>1, <3>2 DEF TypeOK, SupplyItem
  <2>4. ASSUME NEW ok \in BOOLEAN, MarkRequested(ok) PROVE TypeOK'
    <3>1. rows' \in [Orders -> [Items -> Status \cup {Absent}]] /\ faults' \in 0..MaxFaults
      BY <2>4, UpdateType DEF TypeOK, MarkRequested, Status
    <3> QED
      BY <2>4, <3>1 DEF TypeOK, MarkRequested, AfterOrder
  <2> QED
    BY <1>4, <2>1, <2>2, <2>3, <2>4 DEF ProcStep
<1>5. ASSUME NEW w \in Warehouses, WarehouseStep(w) \/ DispatchStep(w) PROVE TypeOK'
  <2>1. ASSUME NEW arrives \in BOOLEAN, ShipOrder(w, arrives) PROVE TypeOK'
    <3>1. Head(inbox[w]) \in Orders /\ Tail(inbox[w]) \in Seq(Orders)
      BY <2>1, HeadTailProperties DEF TypeOK, ShipOrder
    <3>2. inbox' \in [Warehouses -> Seq(Orders)]
      BY <2>1, <3>1 DEF TypeOK, ShipOrder
    <3>3. /\ dispatch' \in [Warehouses -> [pc : {"idle", "details", "notify", "write"},
                                           order : Orders \cup {None}]]
          /\ \A v \in Warehouses : dispatch'[v].pc # "idle" => dispatch'[v].order \in Orders
      BY <2>1, <3>1 DEF TypeOK, ShipOrder
    <3> QED
      BY <2>1, <3>2, <3>3 DEF TypeOK, ShipOrder
  <2>2. CASE OvershadowedRequest(w)
    <3>1. inbox[w] \in Seq(Orders) /\ inbox[w] # <<>>
      BY <2>2 DEF TypeOK, OvershadowedRequest
    <3>2. Tail(inbox[w]) \in Seq(Orders)
      BY <3>1, HeadTailProperties
    <3> QED
      BY <2>2, <3>2 DEF TypeOK, OvershadowedRequest
  <2>3. ASSUME NEW ok \in BOOLEAN, NEW s \in Answer, NEW its \in SUBSET Items,
               DispatchDetails(w, ok, s, its)
        PROVE  TypeOK'
    BY <2>3 DEF TypeOK, DispatchDetails, GetOrderDetails, Statement, IdleDispatch
  <2>4. CASE DispatchNotify(w)
    BY <2>4 DEF TypeOK, DispatchNotify, IdleDispatch
  <2>5. ASSUME NEW ok \in BOOLEAN, DispatchWrite(w, ok) PROVE TypeOK'
    <3>1. dispatch[w].order \in Orders /\ "Shipped" \in Status
      BY <2>5 DEF TypeOK, DispatchWrite, Status
    <3>2. rows' \in [Orders -> [Items -> Status \cup {Absent}]] /\ faults' \in 0..MaxFaults
      BY <2>5, <3>1, UpdateType DEF TypeOK, DispatchWrite
    <3> QED
      BY <2>5, <3>2 DEF TypeOK, DispatchWrite, IdleDispatch
  <2> QED
    BY <1>5, <2>1, <2>2, <2>3, <2>4, <2>5 DEF WarehouseStep, DispatchStep
<1>6. ASSUME ClientStep PROVE TypeOK'
  <2>1. ASSUME NEW c \in Hubs \cup Warehouses, Connect(c) PROVE TypeOK'
    BY <2>1 DEF TypeOK, Connect
  <2>2. ASSUME NEW h \in Hubs, DisconnectHub(h) PROVE TypeOK'
    BY <2>2 DEF TypeOK, DisconnectHub
  <2>3. ASSUME NEW w \in Warehouses, DisconnectWarehouse(w) PROVE TypeOK'
    BY <2>3 DEF TypeOK, DisconnectWarehouse
  <2> QED
    BY <1>6, <2>1, <2>2, <2>3 DEF ClientStep
<1>7. CASE Crash
  BY <1>7 DEF TypeOK, TimerState, Crash, IdleSession, IdleDispatch, IdleProc
<1>8. CASE UNCHANGED vars
  BY <1>8 DEF TypeOK, vars
<1> QED
  BY <1>1, <1>2, <1>3, <1>4, <1>5, <1>6, <1>7, <1>8 DEF Next

\* The type invariant is inductive: every field the handlers and threads of the
\* server store stays in its range, the order of a handler that is not idle
\* included.
THEOREM TypeCorrect == Spec => []TypeOK
<1>1. Init => TypeOK
  BY DEF Init, TypeOK, TimerState, IdleSession, IdleDispatch, IdleProc
<1>2. TypeOK /\ [Next]_vars => TypeOK'
  BY TypeStep
<1> QED
  BY <1>1, <1>2, PTL DEF Spec

-----------------------------------------------------------------------------
(***************************************************************************)
(* The ledger.  SuppliesBacked is not inductive: nothing in it says that   *)
(* an order the loop is about to process still has a round to its credit.  *)
(* Owed(o) says when it must: o is in the batch, or it will be found by    *)
(* the next scan.  An order between its supply requests and its marking is *)
(* Approved and not owed, which is where a failed write or a crash costs a *)
(* round.                                                                  *)
(***************************************************************************)
Backing(o) == granted[o] + faults + crashes

Owed(o) ==
    \/ o \in proc.batch
    \/ "Approved" \in StatusesOf(o) /\ ~(proc.pc = "supply" /\ proc.order = o)

LedgerInv ==
    \A o \in Orders : /\ rounds[o] <= Backing(o)
                      /\ Owed(o) => rounds[o] < Backing(o)

\* An update to another status takes no order to Approved.
LEMMA UpdateNotApproved ==
    ASSUME TypeOK, NEW p \in Orders, NEW s \in Status, s # "Approved",
           NEW ok \in BOOLEAN, UpdateOrderStatus(p, s, ok), NEW o \in Orders,
           "Approved" \in StatusesOf(o)'
    PROVE  "Approved" \in StatusesOf(o)
<1>1. CASE ~ok
  BY <1>1 DEF UpdateOrderStatus, StatusesOf
<1>2. CASE ok
  <2>1. PICK i \in Items : rows'[o][i] = "Approved"
    BY DEF StatusesOf
  <2>2. rows'[o][i] = IF o = p THEN (IF rows[o][i] = Absent THEN Absent ELSE s)
                      ELSE rows[o][i]
    BY <1>2 DEF UpdateOrderStatus, WithStatus, TypeOK
  <2>3. rows[o][i] = "Approved"
    BY <2>1, <2>2 DEF Absent
  <2> QED
    BY <2>3 DEF StatusesOf, Absent
<1> QED
  BY <1>1, <1>2

\* The approvals of an order are those of its threads and those its hub reported.
LEMMA GrantedType ==
    ASSUME TypeOK
    PROVE  /\ granted \in [Orders -> Nat]
           /\ \A o \in Orders : /\ granted[o] = approvals[o] + reports[o]["Approved"]
                                /\ approvals[o] \in Nat
                                /\ reports[o] \in [ServerStatus -> Nat]
                                /\ reports[o]["Approved"] \in Nat
  BY DEF TypeOK, granted, ServerStatus

LEMMA GrantedUnchanged ==
    ASSUME UNCHANGED <<approvals, reports>>
    PROVE  granted' = granted
  BY DEF granted

\* Where rows and the loop are left alone an order is owed what it was before.
LEMMA OwedUnchanged ==
    ASSUME UNCHANGED <<rows, proc>>, NEW o \in Orders
    PROVE  Owed(o)' = Owed(o)
  BY DEF Owed, StatusesOf

\* A successful update of an order whose rows are all marked is owed no more.
LEMMA UpdatedStatus ==
    ASSUME TypeOK, NEW p \in Orders, NEW s \in Status, UpdateOrderStatus(p, s, TRUE),
           NEW i \in Items
    PROVE  rows'[p][i] \in {Absent, s}
  BY DEF UpdateOrderStatus, WithStatus, TypeOK

\* One step of the server, seen from the ledger: a round of an owed order, a
\* crash, an approval, or a step that changes no count but the failures and
\* makes no order owed without a failure.
LEMMA LedgerCases ==
    ASSUME TypeOK, [Next]_vars
    PROVE  \/ /\ faults' \in {faults, faults + 1}
              /\ UNCHANGED <<granted, rounds, crashes>>
              /\ \A o \in Orders : Owed(o)' => Owed(o) \/ faults' = faults + 1
           \/ \E p \in Orders :
                 /\ p \in proc.batch
                 /\ rounds' = [rounds EXCEPT ![p] = @ + 1]
                 /\ faults' \in {faults, faults + 1}
                 /\ UNCHANGED <<granted, crashes>>
                 /\ \A o \in Orders : Owed(o)' => Owed(o) /\ o # p
           \/ \E p \in Orders :
                 /\ granted' = [granted EXCEPT ![p] = @ + 1]
                 /\ UNCHANGED <<rounds, faults, crashes>>
                 /\ \A o \in Orders : o # p => Owed(o)' = Owed(o)
           \/ crashes' = crashes + 1 /\ UNCHANGED <<granted, rounds, faults>>
<1> DEFINE Quiet == /\ faults' \in {faults, faults + 1}
                    /\ UNCHANGED <<granted, rounds, crashes>>
                    /\ \A o \in Orders : Owed(o)' => Owed(o) \/ faults' = faults + 1
           Round == \E p \in Orders :
                       /\ p \in proc.batch
                       /\ rounds' = [rounds EXCEPT ![p] = @ + 1]
                       /\ faults' \in {faults, faults + 1}
                       /\ UNCHANGED <<granted, crashes>>
                       /\ \A o \in Orders : Owed(o)' => Owed(o) /\ o # p
           Approval == \E p \in Orders :
                          /\ granted' = [granted EXCEPT ![p] = @ + 1]
                          /\ UNCHANGED <<rounds, faults, crashes>>
                          /\ \A o \in Orders : o # p => Owed(o)' = Owed(o)
           Crashed == crashes' = crashes + 1 /\ UNCHANGED <<granted, rounds, faults>>
<1> HIDE DEF Quiet, Round, Approval, Crashed
\* A status other than Approved, written anywhere but by the loop.
<1>1. ASSUME NEW p \in Orders, NEW s \in Status, s # "Approved", NEW ok \in BOOLEAN,
             UpdateOrderStatus(p, s, ok), UNCHANGED <<proc, granted, rounds, crashes>>
      PROVE  Quiet
  BY <1>1, UpdateNotApproved DEF Quiet, Owed, UpdateOrderStatus, Statement
\* A statement that reads, or no statement at all, and the loop not concerned.
<1>2. ASSUME faults' \in {faults, faults + 1},
             UNCHANGED <<rows, proc, approvals, reports, rounds, crashes>>
      PROVE  Quiet
  BY <1>2, OwedUnchanged, GrantedUnchanged DEF Quiet
<1>3. ASSUME NEW h \in Hubs, SessionStep(h) PROVE Quiet
  <2>1. ASSUME NEW i \in Items, NEW ok \in BOOLEAN, InsertItem(h, i, ok) PROVE Quiet
    <3>1. /\ UNCHANGED <<proc, granted, rounds, crashes>>
          /\ faults' \in {faults, faults + 1}
      BY <2>1, GrantedUnchanged DEF InsertItem, Statement
    <3>2. ASSUME NEW o \in Orders, NEW j \in Items, rows'[o][j] = "Approved"
          PROVE  rows[o][j] = "Approved"
      BY <2>1, <3>2 DEF InsertItem, TypeOK
    <3> QED
      BY <3>1, <3>2 DEF Quiet, Owed, StatusesOf
  <2>2. CASE LaunchTimer(h)
    BY <2>2, <1>2 DEF LaunchTimer
  <2>3. ASSUME NEW ok \in BOOLEAN, CancelWrite(h, ok) PROVE Quiet
    <3>1. session[h].order \in Orders /\ "Canceled" \in Status
      BY <2>3 DEF CancelWrite, TypeOK, Status
    <3> QED
      BY <2>3, <3>1, <1>1, GrantedUnchanged DEF CancelWrite
  <2> QED
    BY <1>3, <2>1, <2>2, <2>3 DEF SessionStep
<1>4. ASSUME HubRequest PROVE Quiet \/ Approval
  <2>1. ASSUME NEW o \in Orders, NEW its \in SUBSET Items, NewOrder(o, its) PROVE Quiet
    BY <2>1, <1>2 DEF NewOrder
  <2>2. ASSUME NEW o \in Orders, NEW ok \in BOOLEAN, NEW s \in Answer,
               NEW its \in SUBSET Items, CancelRead(o, ok, s, its)
        PROVE  Quiet
    BY <2>2, <1>2 DEF CancelRead, GetOrderDetails, Statement
  <2>3. ASSUME NEW o \in Orders, NEW s \in Status, NEW ok \in BOOLEAN,
               DeliveryUpdate(o, s, ok)
        PROVE  Quiet \/ Approval
    <3>1. /\ UpdateOrderStatus(o, s, ok)
          /\ UNCHANGED <<proc, rounds, crashes, approvals>>
          /\ reports' = IF ok /\ s \in ServerStatus
                        THEN [reports EXCEPT ![o][s] = @ + 1] ELSE reports
      BY <2>3 DEF DeliveryUpdate
    <3>2. CASE s # "Approved"
      <4>1. \A p \in Orders : reports'[p]["Approved"] = reports[p]["Approved"]
        BY <3>1, <3>2 DEF TypeOK, ServerStatus
      <4>2. granted' = granted
        BY <3>1, <4>1 DEF granted
      <4> QED
        BY <1>1, <3>1, <3>2, <4>2
    <3>3. CASE s = "Approved" /\ ok
      <4>1. reports' = [reports EXCEPT ![o]["Approved"] = @ + 1]
        BY <3>1, <3>3 DEF ServerStatus
      <4>2. \A p \in Orders :
               reports'[p]["Approved"] = IF p = o THEN reports[p]["Approved"] + 1
                                         ELSE reports[p]["Approved"]
        BY <4>1 DEF TypeOK, ServerStatus
      <4>3. granted'[o] = granted[o] + 1 /\ \A p \in Orders : p # o => granted'[p] = granted[p]
        BY <3>1, <4>2, GrantedType DEF granted
      <4>4. granted' = [granted EXCEPT ![o] = @ + 1]
        BY <4>3 DEF granted
      <4>5. rows' = WithStatus(o, "Approved") /\ UNCHANGED <<rounds, faults, crashes, proc>>
        BY <3>1, <3>3 DEF UpdateOrderStatus, Statement
      <4>6. \A p \in Orders : p # o => rows'[p] = rows[p]
        BY <4>5 DEF WithStatus, TypeOK
      <4>7. \A p \in Orders : p # o => Owed(p)' = Owed(p)
        BY <4>5, <4>6 DEF Owed, StatusesOf
      <4> QED
        BY <4>4, <4>5, <4>7 DEF Approval
    <3>4. CASE ~ok
      BY <3>1, <3>4, <1>2 DEF UpdateOrderStatus, Statement
    <3> QED
      BY <3>2, <3>3, <3>4
  <2> QED
    BY <1>4, <2>1, <2>2, <2>3 DEF HubRequest
<1>5. ASSUME NEW p \in Orders, NEW k \in 1..MaxSubmits, TimerStep(p, k)
      PROVE  Quiet \/ Approval
  <2>1. ASSUME NEW ok \in BOOLEAN, NEW s \in Answer, TimerRead(p, k, ok, s) PROVE Quiet
    BY <2>1, <1>2 DEF TimerRead, GetOrderStatus, Statement
  <2>2. ASSUME NEW ok \in BOOLEAN, TimerWrite(p, k, ok) PROVE Quiet \/ Approval
    <3>1. CASE ok
      <4>0. approvals' = [approvals EXCEPT ![p] = @ + 1] /\ UNCHANGED reports
        BY <2>2, <3>1 DEF TimerWrite
      <4>1. /\ granted' = [granted EXCEPT ![p] = @ + 1]
            /\ UNCHANGED <<rounds, faults, crashes, proc>>
            /\ rows' = WithStatus(p, "Approved")
        <5>1. \A o \in Orders :
                 granted'[o] = IF o = p THEN granted[o] + 1 ELSE granted[o]
          BY <4>0, GrantedType DEF granted, TypeOK
        <5>2. granted' = [granted EXCEPT ![p] = @ + 1]
          BY <5>1 DEF granted
        <5> QED
          BY <2>2, <3>1, <5>2 DEF TimerWrite, UpdateOrderStatus, Statement
      <4>2. \A o \in Orders : o # p => rows'[o] = rows[o]
        BY <4>1 DEF WithStatus, TypeOK
      <4>3. \A o \in Orders : o # p => Owed(o)' = Owed(o)
        BY <4>1, <4>2 DEF Owed, StatusesOf
      <4> QED
        BY <4>1, <4>3 DEF Approval
    <3>2. CASE ~ok
      BY <2>2, <3>2, <1>2 DEF TimerWrite, UpdateOrderStatus, Statement
    <3> QED
      BY <3>1, <3>2
  <2> QED
    BY <1>5, <2>1, <2>2 DEF TimerStep
<1>6. ASSUME ProcStep PROVE Quiet \/ Round
  <2>1. ASSUME NEW ok \in BOOLEAN, ScanApproved(ok) PROVE Quiet
    <3>1. /\ faults' \in {faults, faults + 1}
          /\ UNCHANGED <<rows, granted, rounds, crashes>>
      BY <2>1, GrantedUnchanged DEF ScanApproved, Statement
    <3>2. proc.pc = "scan" /\ proc'.batch \subseteq ApprovedOrders
      BY <2>1 DEF ScanApproved, TypeOK
    <3>3. ASSUME NEW o \in Orders, Owed(o)' PROVE Owed(o)
      BY <3>1, <3>2, <3>3 DEF Owed, StatusesOf, ApprovedOrders
    <3> QED
      BY <3>1, <3>3 DEF Quiet
  <2>2. ASSUME NEW p \in Orders, NEW ok \in BOOLEAN, NEW s \in Answer,
               NEW its \in SUBSET Items, FetchDetails(p, ok, s, its)
        PROVE  Round
    <3>1. /\ p \in proc.batch
          /\ rounds' = [rounds EXCEPT ![p] = @ + 1]
          /\ faults' \in {faults, faults + 1}
          /\ UNCHANGED <<rows, granted, crashes>>
      BY <2>2, GrantedUnchanged DEF FetchDetails, GetOrderDetails, Statement
    <3>2. /\ proc.pc = "next" /\ proc'.pc = "supply" /\ proc'.order = p
          /\ proc'.batch = proc.batch \ {p}
      BY <2>2 DEF FetchDetails
    <3>3. ASSUME NEW o \in Orders, Owed(o)' PROVE Owed(o) /\ o # p
      BY <3>1, <3>2, <3>3 DEF Owed, StatusesOf
    <3> QED
      BY <3>1, <3>3 DEF Round
  <2>3. ASSUME NEW i \in Items, NEW w \in Warehouses \cup {None}, SupplyItem(i, w)
        PROVE  Quiet
    <3>1. /\ UNCHANGED <<rows, granted, rounds, faults, crashes>>
          /\ proc'.pc = proc.pc /\ proc'.order = proc.order /\ proc'.batch = proc.batch
      BY <2>3, GrantedUnchanged DEF SupplyItem, TypeOK
    <3> QED
      BY <3>1 DEF Quiet, Owed, StatusesOf
  <2>4. ASSUME NEW ok \in BOOLEAN, MarkRequested(ok) PROVE Quiet
    <3>1. /\ proc.order \in Orders /\ "Requested" \in Status
          /\ proc.pc = "supply"
          /\ UNCHANGED <<granted, rounds, crashes>>
          /\ UpdateOrderStatus(proc.order, "Requested", ok)
          /\ faults' \in {faults, faults + 1}
          /\ proc'.batch = proc.batch
      BY <2>4, GrantedUnchanged DEF MarkRequested, UpdateOrderStatus, Statement, TypeOK, Status
    <3>2. ASSUME NEW o \in Orders, Owed(o)', faults' = faults PROVE Owed(o)
      <4>1. ok
        BY <3>1, <3>2 DEF UpdateOrderStatus, Statement, TypeOK
      <4>2. CASE o \in proc.batch
        BY <4>2 DEF Owed
      <4>3. CASE o \notin proc.batch
        <5>1. "Approved" \in StatusesOf(o)'
          BY <3>1, <3>2, <4>3 DEF Owed
        <5>2. "Approved" \in StatusesOf(o)
          BY <3>1, <5>1, UpdateNotApproved
        <5>3. o # proc.order
          <6>1. \A i \in Items : rows'[proc.order][i] \in {Absent, "Requested"}
            BY <3>1, <4>1, UpdatedStatus
          <6> QED
            BY <5>1, <6>1 DEF StatusesOf, Absent
        <5> QED
          BY <5>2, <5>3 DEF Owed
      <4> QED
        BY <4>2, <4>3
    <3> QED
      BY <3>1, <3>2 DEF Quiet
  <2> QED
    BY <1>6, <2>1, <2>2, <2>3, <2>4 DEF ProcStep
<1>7. ASSUME NEW w \in Warehouses, WarehouseStep(w) \/ DispatchStep(w) PROVE Quiet
  <2>1. ASSUME NEW arrives \in BOOLEAN, ShipOrder(w, arrives) PROVE Quiet
    BY <2>1, <1>2 DEF ShipOrder
  <2>2. CASE OvershadowedRequest(w)
    BY <2>2, <1>2 DEF OvershadowedRequest
  <2>3. ASSUME NEW ok \in BOOLEAN, NEW s \in Answer, NEW its \in SUBSET Items,
               DispatchDetails(w, ok, s, its)
        PROVE  Quiet
    BY <2>3, <1>2 DEF DispatchDetails, GetOrderDetails, Statement
  <2>4. CASE DispatchNotify(w)
    BY <2>4, <1>2 DEF DispatchNotify
  <2>5. ASSUME NEW ok \in BOOLEAN, DispatchWrite(w, ok) PROVE Quiet
    <3>1. dispatch[w].order \in Orders /\ "Shipped" \in Status
      BY <2>5 DEF DispatchWrite, TypeOK, Status
    <3> QED
      BY <2>5, <3>1, <1>1, GrantedUnchanged DEF DispatchWrite
  <2> QED
    BY <1>7, <2>1, <2>2, <2>3, <2>4, <2>5 DEF WarehouseStep, DispatchStep
<1>8. ASSUME ClientStep PROVE Quiet
  BY <1>8, <1>2 DEF ClientStep, Connect, DisconnectHub, DisconnectWarehouse
<1>9. ASSUME Crash PROVE Crashed
  BY <1>9, GrantedUnchanged DEF Crash, Crashed
<1>10. ASSUME UNCHANGED vars PROVE Quiet
  <2>1. faults' = faults /\ UNCHANGED <<rows, proc, approvals, reports, rounds, crashes>>
    BY <1>10 DEF vars
  <2> QED
    BY <1>2, <2>1
<1>11. Quiet \/ Round \/ Approval \/ Crashed
  <2>1. CASE Next
    BY <2>1, <1>3, <1>4, <1>5, <1>6, <1>7, <1>8, <1>9, Zenon DEF Next
  <2> QED
    BY <2>1, <1>10
<1> QED
  BY <1>11 DEF Quiet, Round, Approval, Crashed

LEMMA LedgerInductive ==
    ASSUME TypeOK, LedgerInv, [Next]_vars
    PROVE  LedgerInv'
<1> SUFFICES ASSUME NEW o \in Orders
             PROVE  /\ rounds'[o] <= Backing(o)'
                    /\ Owed(o)' => rounds'[o] < Backing(o)'
  BY DEF LedgerInv
<1>1. /\ rounds[o] \in Nat /\ granted[o] \in Nat /\ faults \in Nat /\ crashes \in Nat
      /\ rounds[o] <= granted[o] + faults + crashes
      /\ Owed(o) => rounds[o] < granted[o] + faults + crashes
  BY BoundsAssumption, GrantedType DEF TypeOK, LedgerInv, Backing
<1>2. CASE /\ faults' \in {faults, faults + 1}
           /\ UNCHANGED <<granted, rounds, crashes>>
           /\ \A p \in Orders : Owed(p)' => Owed(p) \/ faults' = faults + 1
  BY <1>1, <1>2 DEF Backing
<1>3. ASSUME NEW p \in Orders,
             p \in proc.batch,
             rounds' = [rounds EXCEPT ![p] = @ + 1],
             faults' \in {faults, faults + 1},
             UNCHANGED <<granted, crashes>>,
             \A q \in Orders : Owed(q)' => Owed(q) /\ q # p
      PROVE  /\ rounds'[o] <= Backing(o)'
             /\ Owed(o)' => rounds'[o] < Backing(o)'
  <2>1. o = p => Owed(o)
    BY <1>3 DEF Owed
  <2>2. rounds'[o] = IF o = p THEN rounds[o] + 1 ELSE rounds[o]
    BY <1>3 DEF TypeOK
  <2> QED
    BY <1>1, <1>3, <2>1, <2>2 DEF Backing
<1>4. ASSUME NEW p \in Orders,
             granted' = [granted EXCEPT ![p] = @ + 1],
             UNCHANGED <<rounds, faults, crashes>>,
             \A q \in Orders : q # p => Owed(q)' = Owed(q)
      PROVE  /\ rounds'[o] <= Backing(o)'
             /\ Owed(o)' => rounds'[o] < Backing(o)'
  <2>1. granted'[o] = IF o = p THEN granted[o] + 1 ELSE granted[o]
    BY <1>4, GrantedType
  <2> QED
    BY <1>1, <1>4, <2>1 DEF Backing
<1>5. CASE crashes' = crashes + 1 /\ UNCHANGED <<granted, rounds, faults>>
  BY <1>1, <1>5 DEF Backing
<1> QED
  BY LedgerCases, <1>2, <1>3, <1>4, <1>5

LEMMA LedgerInvariant == Spec => []LedgerInv
<1>1. Init => LedgerInv
  BY BoundsAssumption
     DEF Init, LedgerInv, Backing, granted, ServerStatus, Owed, StatusesOf, IdleProc, Absent
<1>2. TypeOK /\ LedgerInv /\ [Next]_vars => LedgerInv'
  BY LedgerInductive
<1> QED
  BY <1>1, <1>2, TypeCorrect, PTL DEF Spec

\* No order is taken to the warehouses more often than it was approved, except
\* once per failed statement or crash, whatever the interleaving of the threads.
THEOREM SuppliesBackedCorrect == Spec => []SuppliesBacked
<1>1. LedgerInv => SuppliesBacked
  BY DEF LedgerInv, SuppliesBacked, Backing
<1> QED
  BY <1>1, LedgerInvariant, PTL

\* The server implements the ledger: every one of its steps is an approval, a
\* backed supply round, an incident or a stutter of the ledger.
THEOREM ImplementsLedger == Spec => SuppliesFollowApprovals
<1>1. Init => Ledger!Init
  BY BoundsAssumption DEF Init, Ledger!Init, granted, ServerStatus
<1>2. TypeOK /\ LedgerInv /\ [Next]_vars => [Ledger!Next]_(Ledger!ledger)
  <2> SUFFICES ASSUME TypeOK, LedgerInv, [Next]_vars
               PROVE  [Ledger!Next]_(Ledger!ledger)
    OBVIOUS
  <2>1. faults \in Nat /\ crashes \in Nat
    BY BoundsAssumption DEF TypeOK
  <2>2. CASE /\ faults' \in {faults, faults + 1}
             /\ UNCHANGED <<granted, rounds, crashes>>
    <3>1. CASE faults' = faults
      BY <2>2, <3>1 DEF Ledger!ledger
    <3>2. CASE faults' = faults + 1
      <4>1. (faults + crashes)' = (faults + crashes) + 1
        BY <2>1, <2>2, <3>2
      <4> QED
        BY <2>2, <4>1 DEF Ledger!Next, Ledger!Incident
    <3> QED
      BY <2>2, <3>1, <3>2
  <2>3. ASSUME NEW p \in Orders,
               p \in proc.batch,
               rounds' = [rounds EXCEPT ![p] = @ + 1],
               faults' \in {faults, faults + 1},
               UNCHANGED <<granted, crashes>>
        PROVE  Ledger!Supply(p)
    <3>1. rounds[p] < granted[p] + faults + crashes
      BY <2>3 DEF LedgerInv, Owed, Backing
    <3>2. granted[p] \in Nat
      BY GrantedType
    <3> QED
      <4>1. rounds[p] < granted[p] + (faults + crashes)
        BY <2>1, <3>1, <3>2
      <4>2. (faults + crashes)' \in {faults + crashes, (faults + crashes) + 1}
        <5>1. crashes' = crashes
          BY <2>3
        <5>2. CASE faults' = faults
          BY <5>1, <5>2
        <5>3. CASE faults' = faults + 1
          BY <2>1, <5>1, <5>3
        <5> QED
          BY <2>3, <5>2, <5>3
      <4> QED
        BY <2>3, <4>1, <4>2 DEF Ledger!Supply
  <2>4. ASSUME NEW p \in Orders,
               granted' = [granted EXCEPT ![p] = @ + 1],
               UNCHANGED <<rounds, faults, crashes>>
        PROVE  Ledger!Approve(p)
    BY <2>4 DEF Ledger!Approve
  <2>5. CASE crashes' = crashes + 1 /\ UNCHANGED <<granted, rounds, faults>>
    BY <2>1, <2>5 DEF Ledger!Next, Ledger!Incident
  <2> QED
    BY LedgerCases, <2>2, <2>3, <2>4, <2>5 DEF Ledger!Next
<1> QED
  BY <1>1, <1>2, TypeCorrect, LedgerInvariant, PTL
     DEF Spec, SuppliesFollowApprovals, Ledger!Spec

-----------------------------------------------------------------------------
(***************************************************************************)
(* What a step makes of the status of an order.                            *)
(***************************************************************************)

\* A status written to the rows of an order is all that they carry then.
LEMMA WrittenStatus ==
    ASSUME TypeOK, NEW p \in Orders, NEW s \in Status, NEW ok \in BOOLEAN,
           UpdateOrderStatus(p, s, ok), NEW o \in Orders, NEW i \in Items
    PROVE  rows'[o][i] = rows[o][i] \/ (o = p /\ rows'[o][i] = s)
  BY DEF UpdateOrderStatus, WithStatus, TypeOK

\* The step counts a report of s by the hub of o, if s is the server's to write.
Reported(o, s) == s \in ServerStatus => reports'[o][s] > reports[o][s]

\* Where a status comes from: a row inserted by the order's hub, or a row that carried a
\* status and was given another by one of the writers.
LEMMA StatusOrigin ==
    ASSUME TypeOK, [Next]_vars, NEW o \in Orders, rows'[o] # rows[o]
    PROVE  \/ \E i \in Items, h \in Hubs, ok \in BOOLEAN :
                 InsertItem(h, i, ok) /\ session[h].order = o
           \/ \E s \in Status, ok \in BOOLEAN :
                 /\ UpdateOrderStatus(o, s, ok)
                 /\ \/ \E h \in Hubs : CancelWrite(h, ok) /\ session[h].order = o /\ s = "Canceled"
                    \/ DeliveryUpdate(o, s, ok) /\ Reported(o, s)
                    \/ s = "Approved" /\ \E k \in 1..MaxSubmits : TimerWrite(o, k, ok)
                    \/ MarkRequested(ok) /\ proc.order = o /\ s = "Requested"
                    \/ \E w \in Warehouses :
                          DispatchWrite(w, ok) /\ dispatch[w].order = o /\ s = "Shipped"
<1> DEFINE Inserted == \E i \in Items, h \in Hubs, ok \in BOOLEAN :
                          InsertItem(h, i, ok) /\ session[h].order = o
           Written == \E s \in Status, ok \in BOOLEAN :
                 /\ UpdateOrderStatus(o, s, ok)
                 /\ \/ \E h \in Hubs : CancelWrite(h, ok) /\ session[h].order = o /\ s = "Canceled"
                    \/ DeliveryUpdate(o, s, ok) /\ Reported(o, s)
                    \/ s = "Approved" /\ \E k \in 1..MaxSubmits : TimerWrite(o, k, ok)
                    \/ MarkRequested(ok) /\ proc.order = o /\ s = "Requested"
                    \/ \E w \in Warehouses :
                          DispatchWrite(w, ok) /\ dispatch[w].order = o /\ s = "Shipped"
<1>1. \A p \in Orders, s \in Status, ok \in BOOLEAN : UpdateOrderStatus(p, s, ok) => p = o
  BY DEF UpdateOrderStatus, WithStatus, TypeOK
<1>2. {"Canceled", "Approved", "Requested", "Shipped"} \subseteq Status
  BY DEF Status
<1>3. rows' # rows
  OBVIOUS
<1>4. ASSUME NEW h \in Hubs, SessionStep(h) PROVE Inserted \/ Written
  <2>1. ASSUME NEW i \in Items, NEW ok \in BOOLEAN, InsertItem(h, i, ok) PROVE Inserted
    <3>1. session[h].order = o
      BY <2>1 DEF InsertItem, TypeOK
    <3> QED
      BY <2>1, <3>1
  <2>2. ~LaunchTimer(h)
    BY <1>3 DEF LaunchTimer
  <2>3. ASSUME NEW ok \in BOOLEAN, CancelWrite(h, ok) PROVE Written
    <3>1. session[h].order \in Orders /\ UpdateOrderStatus(session[h].order, "Canceled", ok)
      BY <2>3 DEF CancelWrite, TypeOK
    <3>2. session[h].order = o
      BY <1>1, <1>2, <3>1
    <3> QED
      BY <1>2, <2>3, <3>1, <3>2
  <2> QED
    BY <1>4, <2>1, <2>2, <2>3 DEF SessionStep
<1>5. ASSUME HubRequest PROVE Written
  <2>1. PICK p \in Orders, s \in Status, ok \in BOOLEAN : DeliveryUpdate(p, s, ok)
    BY <1>3, <1>5 DEF HubRequest, NewOrder, CancelRead
  <2>2. UpdateOrderStatus(p, s, ok)
    BY <2>1 DEF DeliveryUpdate
  <2>3. p = o
    BY <1>1, <2>2
  <2>4. ok
    BY <1>3, <2>2 DEF UpdateOrderStatus
  <2>5. Reported(o, s)
    BY <2>1, <2>3, <2>4 DEF DeliveryUpdate, Reported, TypeOK
  <2> QED
    BY <2>1, <2>2, <2>3, <2>5
<1>6. ASSUME NEW p \in Orders, NEW k \in 1..MaxSubmits, TimerStep(p, k) PROVE Written
  <2>1. PICK ok \in BOOLEAN : TimerWrite(p, k, ok)
    BY <1>3, <1>6 DEF TimerStep, TimerRead
  <2>2. UpdateOrderStatus(p, "Approved", ok)
    BY <2>1 DEF TimerWrite
  <2>3. p = o
    BY <1>1, <1>2, <2>2
  <2> QED
    BY <1>2, <2>1, <2>2, <2>3
<1>7. ASSUME ProcStep PROVE Written
  <2>1. PICK ok \in BOOLEAN : MarkRequested(ok)
    BY <1>3, <1>7 DEF ProcStep, ScanApproved, FetchDetails, SupplyItem
  <2>2. proc.order \in Orders /\ UpdateOrderStatus(proc.order, "Requested", ok)
    BY <2>1 DEF MarkRequested, TypeOK
  <2>3. proc.order = o
    BY <1>1, <1>2, <2>2
  <2> QED
    BY <1>2, <2>1, <2>2, <2>3
<1>8. ASSUME NEW w \in Warehouses, WarehouseStep(w) \/ DispatchStep(w) PROVE Written
  <2>1. PICK ok \in BOOLEAN : DispatchWrite(w, ok)
    BY <1>3, <1>8 DEF WarehouseStep, ShipOrder, OvershadowedRequest, DispatchStep,
                      DispatchDetails, DispatchNotify
  <2>2. dispatch[w].order \in Orders /\ UpdateOrderStatus(dispatch[w].order, "Shipped", ok)
    BY <2>1 DEF DispatchWrite, TypeOK
  <2>3. dispatch[w].order = o
    BY <1>1, <1>2, <2>2
  <2> QED
    BY <1>2, <2>1, <2>2, <2>3
<1>9. ~ClientStep /\ ~Crash /\ ~UNCHANGED vars
  BY <1>3 DEF ClientStep, Connect, DisconnectHub, DisconnectWarehouse, Crash, vars
<1> HIDE DEF Inserted, Written
<1>10. Inserted \/ Written
  BY <1>4, <1>5, <1>6, <1>7, <1>8, <1>9, Zenon DEF Next
<1> QED
  BY <1>10 DEF Inserted, Written

\* Where an order gets to a warehouse from.
LEMMA AtWarehouseOrigin ==
    ASSUME TypeOK, [Next]_vars, NEW o \in Orders, AtWarehouse(o)'
    PROVE  AtWarehouse(o) \/ (proc.pc = "supply" /\ proc.order = o)
<1> DEFINE Held(w) == \/ \E n \in DOMAIN inbox[w] : inbox[w][n] = o
                      \/ dispatch[w].pc # "idle" /\ dispatch[w].order = o
           HeldNext(w) == \/ \E n \in DOMAIN inbox'[w] : inbox'[w][n] = o
                          \/ dispatch'[w].pc # "idle" /\ dispatch'[w].order = o
<1>1. PICK v \in Warehouses : HeldNext(v)
  BY DEF AtWarehouse
<1>2. (\E w \in Warehouses : Held(w)) => AtWarehouse(o)
  BY DEF AtWarehouse
<1>3. ASSUME inbox' = inbox, dispatch' = dispatch PROVE AtWarehouse(o)
  BY <1>1, <1>2, <1>3
<1>4. ASSUME NEW w \in Warehouses, inbox[w] # <<>>, inbox' = [inbox EXCEPT ![w] = Tail(@)],
             \/ UNCHANGED dispatch
             \/ /\ dispatch[w].pc = "idle"
                /\ dispatch' = [dispatch EXCEPT ![w] = [pc |-> "details", order |-> Head(inbox[w])]]
      PROVE  AtWarehouse(o)
  <2>1. inbox[w] \in Seq(Orders) /\ inbox[w][1] = Head(inbox[w]) /\ 1 \in DOMAIN inbox[w]
    BY <1>4 DEF TypeOK
  <2>2. \A n \in DOMAIN Tail(inbox[w]) : n + 1 \in DOMAIN inbox[w] /\ Tail(inbox[w])[n] = inbox[w][n + 1]
    BY <1>4, <2>1
  <2>3. v # w => inbox'[v] = inbox[v] /\ dispatch'[v] = dispatch[v]
    BY <1>4 DEF TypeOK
  <2>4. inbox'[w] = Tail(inbox[w])
    BY <1>4 DEF TypeOK
  <2>5. dispatch'[w] = dispatch[w] \/ dispatch'[w].order = inbox[w][1]
    BY <1>4, <2>1 DEF TypeOK
  <2>6. CASE v # w
    BY <1>1, <1>2, <2>3, <2>6
  <2>7. CASE v = w /\ \E n \in DOMAIN inbox'[w] : inbox'[w][n] = o
    <3>1. PICK n \in DOMAIN Tail(inbox[w]) : Tail(inbox[w])[n] = o
      BY <2>4, <2>7
    <3>2. n + 1 \in DOMAIN inbox[w] /\ inbox[w][n + 1] = o
      BY <2>2, <3>1
    <3> QED
      BY <1>2, <3>2
  <2>8. CASE v = w /\ dispatch'[w].pc # "idle" /\ dispatch'[w].order = o
    <3>1. Held(w)
      BY <2>1, <2>5, <2>8
    <3> QED
      BY <1>2, <3>1
  <2> QED
    BY <1>1, <2>6, <2>7, <2>8
<1>5. ASSUME NEW w \in Warehouses, UNCHANGED inbox,
             \E d \in {IdleDispatch, [pc |-> "notify", order |-> dispatch[w].order],
                       [pc |-> "write", order |-> dispatch[w].order]} :
                dispatch' = [dispatch EXCEPT ![w] = d],
             dispatch[w].pc # "idle"
      PROVE  AtWarehouse(o)
  <2>1. Held(v)
    BY <1>1, <1>5 DEF TypeOK, IdleDispatch
  <2> QED
    BY <1>2, <2>1
<1>6. ASSUME NEW i \in Items, NEW w \in Warehouses \cup {None}, SupplyItem(i, w)
      PROVE  AtWarehouse(o) \/ (proc.pc = "supply" /\ proc.order = o)
  <2>1. CASE w \notin online
    BY <1>3, <1>6, <2>1 DEF SupplyItem
  <2>2. CASE w \in online
    <3>1. w \in Warehouses /\ inbox[w] \in Seq(Orders) /\ proc.order \in Orders /\ proc.pc = "supply"
      BY <1>6, <2>2 DEF TypeOK, SupplyItem
    <3>2. inbox' = [inbox EXCEPT ![w] = Append(@, proc.order)] /\ dispatch' = dispatch
      BY <1>6, <2>2 DEF SupplyItem
    <3>3. inbox'[w] = Append(inbox[w], proc.order) /\ \A u \in Warehouses : u # w => inbox'[u] = inbox[u]
      BY <3>1, <3>2 DEF TypeOK
    <3>4. \A n \in DOMAIN inbox'[w] :
             \/ n \in DOMAIN inbox[w] /\ inbox'[w][n] = inbox[w][n]
             \/ inbox'[w][n] = proc.order
      BY <3>1, <3>3
    <3>5. Held(v) \/ proc.order = o
      BY <1>1, <3>2, <3>3, <3>4
    <3> QED
      BY <1>2, <3>1, <3>5
  <2> QED
    BY <2>1, <2>2
<1>7. ASSUME NEW w \in Warehouses, WarehouseStep(w) \/ DispatchStep(w) PROVE AtWarehouse(o)
  BY <1>4, <1>5, <1>7 DEF WarehouseStep, ShipOrder, OvershadowedRequest, DispatchStep,
                          DispatchDetails, DispatchNotify, DispatchWrite
<1>8. ASSUME ProcStep PROVE AtWarehouse(o) \/ (proc.pc = "supply" /\ proc.order = o)
  BY <1>3, <1>6, <1>8 DEF ProcStep, ScanApproved, FetchDetails, MarkRequested
<1>9. ASSUME ClientStep \/ Crash PROVE AtWarehouse(o)
  <2>1. dispatch'[v] \in {dispatch[v], IdleDispatch} /\ inbox'[v] \in {inbox[v], <<>>}
    BY <1>9 DEF ClientStep, Connect, DisconnectHub, DisconnectWarehouse, Crash, TypeOK
  <2>2. DOMAIN <<>> = {}
    OBVIOUS
  <2>3. (\E n \in DOMAIN inbox'[v] : inbox'[v][n] = o)
           => (\E n \in DOMAIN inbox[v] : inbox[v][n] = o)
    BY <2>1, <2>2
  <2>4. dispatch'[v].pc # "idle" => dispatch'[v] = dispatch[v]
    BY <2>1 DEF IdleDispatch
  <2>5. Held(v)
    BY <1>1, <2>3, <2>4
  <2> QED
    BY <1>2, <2>5
<1>10. ASSUME \/ \E h \in Hubs : SessionStep(h)
              \/ HubRequest
              \/ \E p \in Orders, k \in 1..MaxSubmits : TimerStep(p, k)
              \/ UNCHANGED vars
       PROVE  AtWarehouse(o)
  <2>1. \A h \in Hubs : SessionStep(h) => inbox' = inbox /\ dispatch' = dispatch
    BY DEF SessionStep, InsertItem, LaunchTimer, CancelWrite
  <2>2. HubRequest => inbox' = inbox /\ dispatch' = dispatch
    BY DEF HubRequest, NewOrder, CancelRead, DeliveryUpdate
  <2>3. \A p \in Orders, k \in 1..MaxSubmits : TimerStep(p, k) => inbox' = inbox /\ dispatch' = dispatch
    BY DEF TimerStep, TimerRead, TimerWrite
  <2>4. UNCHANGED vars => inbox' = inbox /\ dispatch' = dispatch
    BY DEF vars
  <2>5. inbox' = inbox /\ dispatch' = dispatch
    BY <1>10, <2>1, <2>2, <2>3, <2>4, Zenon
  <2> QED
    BY <1>3, <2>5
<1> HIDE DEF Held, HeldNext
<1> QED
  BY <1>7, <1>8, <1>9, <1>10 DEF Next

\* Where an order gets to the loop from.
LEMMA ProcessedOrigin ==
    ASSUME TypeOK, [Next]_vars, NEW o \in Orders, BeingProcessed(o)'
    PROVE  BeingProcessed(o) \/ "Approved" \in StatusesOf(o)
<1>1. CASE UNCHANGED proc
  BY <1>1 DEF BeingProcessed
<1>2. CASE ProcStep
  <2>1. ASSUME NEW ok \in BOOLEAN, ScanApproved(ok) PROVE "Approved" \in StatusesOf(o)
    <3>1. proc'.batch \subseteq ApprovedOrders /\ proc'.pc # "supply"
      BY <2>1 DEF ScanApproved, TypeOK, AfterOrder
    <3> QED
      BY <3>1 DEF BeingProcessed, ApprovedOrders
  <2>2. ASSUME NEW p \in Orders, NEW ok \in BOOLEAN, NEW s \in Answer,
               NEW its \in SUBSET Items, FetchDetails(p, ok, s, its)
        PROVE  BeingProcessed(o)
    BY <2>2 DEF FetchDetails, BeingProcessed
  <2>3. ASSUME NEW i \in Items, NEW w \in Warehouses \cup {None}, SupplyItem(i, w)
        PROVE  BeingProcessed(o)
    BY <2>3 DEF SupplyItem, BeingProcessed, TypeOK
  <2>4. ASSUME NEW ok \in BOOLEAN, MarkRequested(ok) PROVE BeingProcessed(o)
    BY <2>4 DEF MarkRequested, BeingProcessed, TypeOK, AfterOrder
  <2> QED
    BY <1>2, <2>1, <2>2, <2>3, <2>4 DEF ProcStep
<1>3. CASE Crash
  BY <1>3 DEF Crash, BeingProcessed, IdleProc
<1>4. \A h \in Hubs : SessionStep(h) => UNCHANGED proc
  BY DEF SessionStep, InsertItem, LaunchTimer, CancelWrite
<1>5. HubRequest => UNCHANGED proc
  BY DEF HubRequest, NewOrder, CancelRead, DeliveryUpdate
<1>6. \A p \in Orders, k \in 1..MaxSubmits : TimerStep(p, k) => UNCHANGED proc
  BY DEF TimerStep, TimerRead, TimerWrite
<1>7. \A w \in Warehouses : WarehouseStep(w) \/ DispatchStep(w) => UNCHANGED proc
  BY DEF WarehouseStep, ShipOrder, OvershadowedRequest, DispatchStep, DispatchDetails,
         DispatchNotify, DispatchWrite
<1>8. ClientStep \/ UNCHANGED vars => UNCHANGED proc
  BY DEF ClientStep, Connect, DisconnectHub, DisconnectWarehouse, vars
<1> QED
  BY <1>1, <1>2, <1>3, <1>4, <1>5, <1>6, <1>7, <1>8, Zenon DEF Next

-----------------------------------------------------------------------------
(***************************************************************************)
(* The cancelation window.                                                 *)
(***************************************************************************)
Supplied == {"Approved", "Requested", "Shipped"}

\* An order takes on one of these by an approval thread that has read Pending, by its
\* hub's own report, or by the loop or a warehouse that had begun with it.
LEMMA StatusGained ==
    ASSUME TypeOK, [Next]_vars, NEW o \in Orders, NEW s \in Supplied,
           s \in StatusesOf(o)', s \notin StatusesOf(o)
    PROVE  \/ s = "Approved" /\ ApprovalInFlight(o) /\ approvals'[o] > approvals[o]
           \/ reports'[o][s] > reports[o][s]
           \/ BeingProcessed(o)
           \/ AtWarehouse(o)
<1>1. rows'[o] # rows[o]
  BY DEF StatusesOf
<1>2. ASSUME NEW i \in Items, NEW h \in Hubs, NEW ok \in BOOLEAN,
             InsertItem(h, i, ok), session[h].order = o
      PROVE  FALSE
  <2>1. \A j \in Items : rows'[o][j] \in {rows[o][j], "Pending"}
    BY <1>2 DEF InsertItem, TypeOK
  <2> QED
    BY <2>1 DEF StatusesOf, Supplied
<1>3. ASSUME NEW v \in Status, NEW ok \in BOOLEAN, UpdateOrderStatus(o, v, ok) PROVE v = s
  BY <1>3, WrittenStatus DEF StatusesOf
<1>4. ASSUME NEW k \in 1..MaxSubmits, NEW ok \in BOOLEAN, TimerWrite(o, k, ok)
      PROVE  ApprovalInFlight(o) /\ approvals'[o] > approvals[o]
  <2>1. ok /\ timer[o][k] = "sawPending"
    BY <1>1, <1>4 DEF TimerWrite, UpdateOrderStatus
  <2> QED
    BY <1>4, <2>1 DEF TimerWrite, ApprovalInFlight, TypeOK
<1>5. Reported(o, s) => reports'[o][s] > reports[o][s]
  BY DEF Reported, Supplied, ServerStatus
<1>6. \A ok \in BOOLEAN : MarkRequested(ok) /\ proc.order = o => BeingProcessed(o)
  BY DEF MarkRequested, BeingProcessed
<1>7. \A w \in Warehouses, ok \in BOOLEAN :
         DispatchWrite(w, ok) /\ dispatch[w].order = o => AtWarehouse(o)
  BY DEF DispatchWrite, AtWarehouse
<1>8. s # "Canceled"
  BY DEF Supplied
<1> QED
  BY <1>1, <1>2, <1>3, <1>4, <1>5, <1>6, <1>7, <1>8, StatusOrigin

\* A report is never taken back.
LEMMA ReportsGrow ==
    ASSUME TypeOK, [Next]_vars, NEW o \in Orders, NEW s \in ServerStatus
    PROVE  reports'[o][s] >= reports[o][s]
<1>1. CASE reports' = reports
  BY <1>1 DEF TypeOK
<1>2. ASSUME NEW p \in Orders, NEW v \in Status, NEW ok \in BOOLEAN, DeliveryUpdate(p, v, ok)
      PROVE  reports'[o][s] >= reports[o][s]
  BY <1>2 DEF DeliveryUpdate, TypeOK
<1>3. CASE HubRequest
  BY <1>1, <1>2, <1>3 DEF HubRequest, NewOrder, CancelRead
<1>4. \A h \in Hubs : SessionStep(h) => reports' = reports
  BY DEF SessionStep, InsertItem, LaunchTimer, CancelWrite
<1>5. \A p \in Orders, k \in 1..MaxSubmits : TimerStep(p, k) => reports' = reports
  BY DEF TimerStep, TimerRead, TimerWrite
<1>6. ProcStep \/ ClientStep \/ Crash \/ UNCHANGED vars => reports' = reports
  BY DEF ProcStep, ScanApproved, FetchDetails, SupplyItem, MarkRequested, ClientStep, Connect,
         DisconnectHub, DisconnectWarehouse, Crash, vars
<1>7. \A w \in Warehouses : WarehouseStep(w) \/ DispatchStep(w) => reports' = reports
  BY DEF WarehouseStep, ShipOrder, OvershadowedRequest, DispatchStep, DispatchDetails,
         DispatchNotify, DispatchWrite
<1> QED
  BY <1>1, <1>3, <1>4, <1>5, <1>6, <1>7, Zenon DEF Next

\* An order that left its window is at one of four places, and only an approval, or a
\* report of this very status, puts one there.
LEMMA WindowInductive ==
    ASSUME TypeOK, NoSupplyUnapproved, [Next]_vars
    PROVE  NoSupplyUnapproved'
<1> SUFFICES ASSUME NEW o \in Orders, ~(granted'[o] > 0)
             PROVE  /\ rounds'[o] = 0 /\ ~AtWarehouse(o)' /\ ~BeingProcessed(o)'
                    /\ "Approved" \notin StatusesOf(o)'
                    /\ \A s \in {"Requested", "Shipped"} :
                          s \in StatusesOf(o)' => reports'[o][s] > 0
  BY DEF NoSupplyUnapproved
<1>1. granted[o] \in Nat /\ granted'[o] \in {granted[o], granted[o] + 1}
  BY LedgerCases, GrantedType
<1>2. /\ rounds[o] = 0 /\ ~AtWarehouse(o) /\ ~BeingProcessed(o)
      /\ "Approved" \notin StatusesOf(o)
      /\ \A s \in {"Requested", "Shipped"} : s \in StatusesOf(o) => reports[o][s] > 0
  <2>1. ~(granted[o] > 0)
    BY <1>1
  <2> QED
    BY <2>1 DEF NoSupplyUnapproved
<1>3. rounds'[o] = 0
  <2>1. rounds'[o] = rounds[o] \/ o \in proc.batch
    BY LedgerCases DEF TypeOK
  <2> QED
    BY <1>2, <2>1 DEF BeingProcessed
<1>4. ~AtWarehouse(o)'
  BY <1>2, AtWarehouseOrigin DEF BeingProcessed
<1>5. ~BeingProcessed(o)'
  BY <1>2, ProcessedOrigin
<1>6. /\ approvals[o] \in Nat /\ approvals'[o] \in Nat
      /\ \A s \in ServerStatus : reports[o][s] \in Nat /\ reports'[o][s] \in Nat
      /\ granted'[o] = approvals'[o] + reports'[o]["Approved"]
  <2>1. TypeOK'
    BY TypeStep
  <2> QED
    BY <2>1 DEF TypeOK, granted
<1>7. "Approved" \notin StatusesOf(o)'
  <2>1. reports'[o]["Approved"] \in Nat /\ reports[o]["Approved"] \in Nat
    BY <1>6 DEF ServerStatus
  <2>2. ~(approvals'[o] > approvals[o]) /\ ~(reports'[o]["Approved"] > reports[o]["Approved"])
    BY <1>6, <2>1
  <2> QED
    BY <1>2, <2>2, StatusGained DEF Supplied
<1>8. ASSUME NEW s \in {"Requested", "Shipped"}, s \in StatusesOf(o)' PROVE reports'[o][s] > 0
  <2>1. s \in ServerStatus /\ s \in Supplied /\ s # "Approved"
    BY DEF ServerStatus, Supplied
  <2>2. reports'[o][s] >= reports[o][s] /\ reports[o][s] \in Nat /\ reports'[o][s] \in Nat
    BY <1>6, <2>1, ReportsGrow
  <2>3. CASE s \in StatusesOf(o)
    BY <1>2, <2>2, <2>3
  <2>4. CASE s \notin StatusesOf(o)
    <3>1. reports'[o][s] > reports[o][s]
      BY <1>2, <1>8, <2>1, <2>4, StatusGained
    <3> QED
      BY <2>2, <3>1
  <2> QED
    BY <2>3, <2>4
<1> QED
  BY <1>3, <1>4, <1>5, <1>7, <1>8

\* Nothing is requested, in a warehouse's hands or Approved before the cancelation window
\* of the order has ended in an approval, or its own hub has reported it Approved; and
\* Requested and Shipped are not recorded before that but where the hub reports just this.
THEOREM NoSupplyUnapprovedCorrect == Spec => []NoSupplyUnapproved
<1>1. Init => NoSupplyUnapproved
  BY DEF Init, NoSupplyUnapproved, AtWarehouse, BeingProcessed, StatusesOf, IdleProc,
         IdleDispatch, Absent
<1>2. TypeOK /\ NoSupplyUnapproved /\ [Next]_vars => NoSupplyUnapproved'
  BY WindowInductive
<1> QED
  BY <1>1, <1>2, TypeCorrect, PTL DEF Spec

\* A canceled order is revived only by work begun when it was canceled, or by its hub.
Final ==
    \A o \in Orders :
        (/\ StatusesOf(o) = {"Canceled"}
         /\ ~ApprovalInFlight(o) /\ ~BeingProcessed(o) /\ ~AtWarehouse(o))
        => /\ \A s \in {"Approved", "Requested", "Shipped"} :
                 s \in StatusesOf(o)' => reports'[o][s] > reports[o][s]
           /\ ~BeingProcessed(o)'
           /\ ~ApprovalInFlight(o)'

THEOREM CanceledIsFinalCorrect == Spec => CanceledIsFinal
<1>1. TypeOK /\ [Next]_vars => [Final]_vars
  <2> SUFFICES ASSUME TypeOK, [Next]_vars, NEW o \in Orders, StatusesOf(o) = {"Canceled"},
                      ~ApprovalInFlight(o), ~BeingProcessed(o), ~AtWarehouse(o)
               PROVE  /\ \A s \in Supplied :
                            s \in StatusesOf(o)' => reports'[o][s] > reports[o][s]
                      /\ ~BeingProcessed(o)'
                      /\ ~ApprovalInFlight(o)'
    BY DEF Final, Supplied
  <2>1. ~BeingProcessed(o)'
    BY ProcessedOrigin
  <2>2. ~ApprovalInFlight(o)'
    <3>1. CASE UNCHANGED timer
      BY <3>1 DEF ApprovalInFlight
    <3>2. ASSUME NEW h \in Hubs, LaunchTimer(h) PROVE ~ApprovalInFlight(o)'
      BY <3>2 DEF LaunchTimer, ApprovalInFlight, TypeOK
    <3>3. ASSUME NEW p \in Orders, NEW k \in 1..MaxSubmits, NEW ok \in BOOLEAN, NEW s \in Answer,
                 TimerRead(p, k, ok, s)
          PROVE  ~ApprovalInFlight(o)'
      <4>1. p = o => s # "Pending"
        BY <3>3 DEF TimerRead, GetOrderStatus
      <4> QED
        BY <3>3, <4>1 DEF TimerRead, ApprovalInFlight, TypeOK, Approves
    <3>4. ASSUME NEW p \in Orders, NEW k \in 1..MaxSubmits, NEW ok \in BOOLEAN, TimerWrite(p, k, ok)
          PROVE  ~ApprovalInFlight(o)'
      BY <3>4 DEF TimerWrite, ApprovalInFlight, TypeOK
    <3>5. CASE Crash
      BY <3>5 DEF Crash, ApprovalInFlight, TypeOK
    <3>6. CASE \/ \E h \in Hubs : SessionStep(h)
               \/ HubRequest
               \/ ProcStep
               \/ \E w \in Warehouses : WarehouseStep(w) \/ DispatchStep(w)
               \/ ClientStep
               \/ UNCHANGED vars
      BY <3>1, <3>2, <3>6 DEF SessionStep, InsertItem, CancelWrite, HubRequest, NewOrder,
           CancelRead, DeliveryUpdate, ProcStep, ScanApproved, FetchDetails, SupplyItem,
           MarkRequested, WarehouseStep, ShipOrder, OvershadowedRequest, DispatchStep,
           DispatchDetails, DispatchNotify, DispatchWrite, ClientStep, Connect, DisconnectHub,
           DisconnectWarehouse, vars
    <3> QED
      BY <3>3, <3>4, <3>5, <3>6 DEF Next, TimerStep
  <2>3. ASSUME NEW s \in Supplied, s \in StatusesOf(o)' PROVE reports'[o][s] > reports[o][s]
    <3>1. s \notin StatusesOf(o)
      BY DEF Supplied
    <3> QED
      BY <2>3, <3>1, StatusGained
  <2> QED
    BY <2>1, <2>2, <2>3
<1>2. Spec => [][Final]_vars
  BY <1>1, TypeCorrect, PTL DEF Spec
<1> QED
  BY <1>2 DEF CanceledIsFinal, Final

-----------------------------------------------------------------------------
(***************************************************************************)
(* One status per order.  The handlers of different clients write the rows *)
(* without a lock; what keeps an insert apart from every other writer is   *)
(* that nobody else has begun with an order that is still being inserted   *)
(* for the first time.                                                     *)
(***************************************************************************)
SessionsOwn ==
    \A h \in Hubs :
        session[h].op # "idle" => HubOf[session[h].order] = h /\ submits[session[h].order] > 0

Fresh(o) == submits[o] = 0 \/ (submits[o] = 1 /\ Inserting(o))

FreshUntouched ==
    \A o \in Orders :
        Fresh(o) => /\ \A i \in Items : rows[o][i] \in {Absent, "Pending"}
                    /\ \A k \in 1..MaxSubmits : timer[o][k] = "none"
                    /\ approvals[o] = 0 /\ reports[o]["Approved"] = 0

OneStatus ==
    \A o \in Orders :
        submits[o] <= 1 => \A i, j \in Items :
            rows[o][i] # Absent /\ rows[o][j] # Absent => rows[o][i] = rows[o][j]

RowsInv == SessionsOwn /\ FreshUntouched /\ OneStatus

\* What a step may do to the sessions and to the count of submissions.
LEMMA SessionOrigin ==
    ASSUME TypeOK, [Next]_vars
    PROVE  \/ session' = session /\ submits' = submits
           \/ \E o \in Orders, its \in SUBSET Items : NewOrder(o, its)
           \/ \E o \in Orders : /\ session' = [session EXCEPT ![HubOf[o]] =
                                        [op |-> "cancel", order |-> o, todo |-> {}]]
                                /\ submits[o] > 0 /\ submits' = submits
                                /\ session[HubOf[o]].op = "idle"
           \/ \E h \in Hubs, i \in Items, ok \in BOOLEAN : InsertItem(h, i, ok)
           \/ \E h \in Hubs : /\ session' = [session EXCEPT ![h] = IdleSession]
                              /\ submits' = submits
           \/ session' = [h \in Hubs |-> IdleSession] /\ submits' = submits
<1> DEFINE Same == session' = session /\ submits' = submits
<1>1. \A h \in Hubs : SessionStep(h) =>
         \/ \E i \in Items, ok \in BOOLEAN : InsertItem(h, i, ok)
         \/ session' = [session EXCEPT ![h] = IdleSession] /\ submits' = submits
  BY DEF SessionStep, LaunchTimer, CancelWrite
<1>2. HubRequest =>
         \/ Same
         \/ \E o \in Orders, its \in SUBSET Items : NewOrder(o, its)
         \/ \E o \in Orders : /\ session' = [session EXCEPT ![HubOf[o]] =
                                      [op |-> "cancel", order |-> o, todo |-> {}]]
                              /\ submits[o] > 0 /\ submits' = submits
                              /\ session[HubOf[o]].op = "idle"
  <2> SUFFICES ASSUME HubRequest,
                      ~\E o \in Orders, its \in SUBSET Items : NewOrder(o, its)
               PROVE  Same \/ \E o \in Orders :
                              /\ session' = [session EXCEPT ![HubOf[o]] =
                                      [op |-> "cancel", order |-> o, todo |-> {}]]
                              /\ submits[o] > 0 /\ submits' = submits
                              /\ session[HubOf[o]].op = "idle"
    OBVIOUS
  <2>1. \A o \in Orders, s \in Status, ok \in BOOLEAN : DeliveryUpdate(o, s, ok) => Same
    BY DEF DeliveryUpdate
  <2>2. CASE \E o \in Orders, ok \in BOOLEAN, s \in Answer, its \in SUBSET Items :
                 CancelRead(o, ok, s, its)
    BY <2>2 DEF CancelRead, Ready
  <2> QED
    BY <2>1, <2>2 DEF HubRequest
<1>3. \A o \in Orders, k \in 1..MaxSubmits : TimerStep(o, k) => Same
  BY DEF TimerStep, TimerRead, TimerWrite
<1>4. ProcStep => Same
  BY DEF ProcStep, ScanApproved, FetchDetails, SupplyItem, MarkRequested
<1>5. \A w \in Warehouses : WarehouseStep(w) \/ DispatchStep(w) => Same
  BY DEF WarehouseStep, ShipOrder, OvershadowedRequest, DispatchStep, DispatchDetails,
         DispatchNotify, DispatchWrite
<1>6. ClientStep \/ UNCHANGED vars => Same
  BY DEF ClientStep, Connect, DisconnectHub, DisconnectWarehouse, vars
<1>7. Crash => session' = [h \in Hubs |-> IdleSession] /\ submits' = submits
  BY DEF Crash
<1> HIDE DEF Same
<1>8. CASE Same
  BY <1>8 DEF Same
<1>9. CASE \E h \in Hubs : SessionStep(h)
  BY <1>1, <1>9
<1>10. CASE HubRequest
  BY <1>2, <1>8, <1>10
<1> QED
  BY <1>3, <1>4, <1>5, <1>6, <1>7, <1>8, <1>9, <1>10, Zenon DEF Next

LEMMA SessionsOwnInductive ==
    ASSUME TypeOK, SessionsOwn, [Next]_vars
    PROVE  /\ SessionsOwn'
           /\ \A o \in Orders : submits[o] <= submits'[o] /\ (Fresh(o)' => Fresh(o))
<1> DEFINE Goal == /\ SessionsOwn'
                   /\ \A o \in Orders : submits[o] <= submits'[o] /\ (Fresh(o)' => Fresh(o))
<1>1. \A o \in Orders : submits[o] \in Nat /\ HubOf[o] \in Hubs
  BY DEF TypeOK
<1>2. CASE session' = session /\ submits' = submits
  BY <1>1, <1>2 DEF SessionsOwn, Fresh, Inserting
<1>3. ASSUME NEW p \in Orders, NEW its \in SUBSET Items, NewOrder(p, its) PROVE Goal
  <2>1. submits' = [submits EXCEPT ![p] = @ + 1] /\ session[HubOf[p]].op = "idle"
        /\ session' = [session EXCEPT ![HubOf[p]] = [op |-> "insert", order |-> p, todo |-> its]]
    BY <1>3 DEF NewOrder, Ready
  <2>2. SessionsOwn'
    BY <1>1, <2>1 DEF SessionsOwn, TypeOK
  <2>3. ASSUME NEW o \in Orders PROVE submits[o] <= submits'[o] /\ (Fresh(o)' => Fresh(o))
    <3>1. CASE o = p
      BY <1>1, <2>1, <3>1 DEF Fresh, TypeOK
    <3>2. CASE o # p
      <4>1. submits'[o] = submits[o]
        BY <2>1, <3>2 DEF TypeOK
      <4>2. Inserting(o)' => Inserting(o)
        BY <1>1, <2>1, <3>2 DEF Inserting, TypeOK
      <4> QED
        BY <1>1, <4>1, <4>2 DEF Fresh
    <3> QED
      BY <3>1, <3>2
  <2> QED
    BY <2>2, <2>3
<1>4. ASSUME NEW p \in Orders, submits[p] > 0, submits' = submits,
             session' = [session EXCEPT ![HubOf[p]] = [op |-> "cancel", order |-> p, todo |-> {}]]
      PROVE  Goal
  <2>1. SessionsOwn'
    BY <1>1, <1>4 DEF SessionsOwn, TypeOK
  <2>2. \A o \in Orders : Inserting(o)' => Inserting(o)
    BY <1>1, <1>4 DEF Inserting, TypeOK
  <2> QED
    BY <1>1, <1>4, <2>1, <2>2 DEF Fresh
<1>5. ASSUME NEW h \in Hubs, NEW i \in Items, NEW ok \in BOOLEAN, InsertItem(h, i, ok)
      PROVE  Goal
  <2>1. submits' = submits /\ session[h].op = "insert"
    BY <1>5 DEF InsertItem
  <2>2. \A g \in Hubs : \/ session'[g] = session[g]
                        \/ session'[g].op = "idle"
                        \/ session'[g].op = session[g].op /\ session'[g].order = session[g].order
    BY <1>5 DEF InsertItem, TypeOK, IdleSession
  <2>3. SessionsOwn'
    BY <2>1, <2>2 DEF SessionsOwn
  <2>4. \A o \in Orders : Inserting(o)' => Inserting(o)
    BY <1>1, <2>2 DEF Inserting
  <2> QED
    BY <1>1, <2>1, <2>3, <2>4 DEF Fresh
<1>6. ASSUME submits' = submits,
             \A g \in Hubs : session'[g] = session[g] \/ session'[g].op = "idle"
      PROVE  Goal
  <2>1. SessionsOwn'
    BY <1>6 DEF SessionsOwn
  <2>2. \A o \in Orders : Inserting(o)' => Inserting(o)
    BY <1>1, <1>6 DEF Inserting
  <2> QED
    BY <1>1, <1>6, <2>1, <2>2 DEF Fresh
<1>7. ASSUME NEW h \in Hubs, session' = [session EXCEPT ![h] = IdleSession], submits' = submits
      PROVE  Goal
  BY <1>6, <1>7 DEF TypeOK, IdleSession
<1>8. ASSUME session' = [h \in Hubs |-> IdleSession], submits' = submits PROVE Goal
  BY <1>6, <1>8 DEF IdleSession
<1> HIDE DEF Goal
<1>9. Goal
  <2>1. session' = session /\ submits' = submits => Goal
    BY <1>2 DEF Goal
  <2> QED
    BY <2>1, <1>3, <1>4, <1>5, <1>7, <1>8, SessionOrigin
<1> QED
  BY <1>9 DEF Goal

\* Nobody but its hub's thread touches an order that is fresh and stays so.
LEMMA FreshInductive ==
    ASSUME TypeOK, RowsInv, NoSupplyUnapproved, [Next]_vars
    PROVE  FreshUntouched'
<1> SUFFICES ASSUME NEW o \in Orders, Fresh(o)'
             PROVE  /\ \A i \in Items : rows'[o][i] \in {Absent, "Pending"}
                    /\ \A k \in 1..MaxSubmits : timer'[o][k] = "none"
                    /\ approvals'[o] = 0 /\ reports'[o]["Approved"] = 0
  BY DEF FreshUntouched
<1>1. /\ Fresh(o)
      /\ \A i \in Items : rows[o][i] \in {Absent, "Pending"}
      /\ \A k \in 1..MaxSubmits : timer[o][k] = "none"
      /\ approvals[o] = 0 /\ reports[o]["Approved"] = 0
  BY SessionsOwnInductive DEF RowsInv, FreshUntouched
<1>0. ~AtWarehouse(o) /\ ~BeingProcessed(o)
  <2>1. granted[o] = 0
    BY <1>1, GrantedType
  <2> QED
    BY <2>1 DEF NoSupplyUnapproved
<1>2. \A i \in Items : rows'[o][i] \in {Absent, "Pending"}
  <2>1. CASE rows'[o] = rows[o]
    BY <1>1, <2>1
  <2>2. ASSUME NEW i \in Items, NEW h \in Hubs, NEW ok \in BOOLEAN,
               InsertItem(h, i, ok), session[h].order = o
        PROVE  \A j \in Items : rows'[o][j] \in {rows[o][j], "Pending"}
    BY <2>2 DEF InsertItem, TypeOK
  <2>3. ASSUME NEW h \in Hubs, NEW ok \in BOOLEAN, CancelWrite(h, ok), session[h].order = o
        PROVE  FALSE
    <3>1. HubOf[o] = h /\ submits[o] > 0 /\ ~Inserting(o)
      BY <2>3 DEF CancelWrite, RowsInv, SessionsOwn, Inserting
    <3> QED
      BY <1>1, <3>1 DEF Fresh
  <2>4. ASSUME NEW s \in Status, NEW ok \in BOOLEAN, DeliveryUpdate(o, s, ok) PROVE FALSE
    BY <1>1, <2>4 DEF DeliveryUpdate, Ready, Fresh, Inserting
  <2>5. ASSUME NEW k \in 1..MaxSubmits, NEW ok \in BOOLEAN, TimerWrite(o, k, ok) PROVE FALSE
    BY <1>1, <2>5 DEF TimerWrite
  <2>6. ASSUME NEW ok \in BOOLEAN, MarkRequested(ok), proc.order = o PROVE FALSE
    BY <1>0, <2>6 DEF MarkRequested, BeingProcessed
  <2>7. ASSUME NEW w \in Warehouses, NEW ok \in BOOLEAN, DispatchWrite(w, ok), dispatch[w].order = o
        PROVE  FALSE
    BY <1>0, <2>7 DEF DispatchWrite, AtWarehouse
  <2>8. CASE rows'[o] # rows[o]
    BY <1>1, <2>2, <2>3, <2>4, <2>5, <2>6, <2>7, <2>8, StatusOrigin
  <2> QED
    BY <2>1, <2>8
<1>3. \A k \in 1..MaxSubmits : timer'[o][k] = "none"
  <2>1. CASE timer' = timer
    BY <1>1, <2>1
  <2>2. ASSUME NEW h \in Hubs, LaunchTimer(h) PROVE session[h].order # o
    <3>1. session[h].order = o => h = HubOf[o] /\ submits[o] > 0
      BY <2>2 DEF LaunchTimer, RowsInv, SessionsOwn
    <3>2. session'[h].op = "idle" /\ submits' = submits
      BY <2>2 DEF LaunchTimer, IdleSession, TypeOK
    <3> QED
      BY <3>1, <3>2 DEF Fresh, Inserting
  <2>3. ASSUME NEW h \in Hubs, LaunchTimer(h) PROVE timer'[o] = timer[o]
    BY <2>2, <2>3 DEF LaunchTimer, TypeOK
  <2>4. ASSUME NEW p \in Orders, NEW k \in 1..MaxSubmits, TimerStep(p, k) PROVE timer'[o] = timer[o]
    <3>1. p # o
      BY <1>1, <2>4 DEF TimerStep, TimerRead, TimerWrite
    <3> QED
      BY <2>4, <3>1 DEF TimerStep, TimerRead, TimerWrite, TypeOK
  <2>5. CASE Crash
    BY <1>1, <2>5 DEF Crash
  <2>6. ASSUME NEW h \in Hubs, SessionStep(h) PROVE timer'[o] = timer[o]
    BY <2>3, <2>6 DEF SessionStep, InsertItem, CancelWrite
  <2>7. HubRequest \/ ProcStep \/ ClientStep \/ UNCHANGED vars => timer' = timer
    BY DEF HubRequest, NewOrder, CancelRead, DeliveryUpdate, ProcStep, ScanApproved,
           FetchDetails, SupplyItem, MarkRequested, ClientStep, Connect, DisconnectHub,
           DisconnectWarehouse, vars
  <2>8. \A w \in Warehouses : WarehouseStep(w) \/ DispatchStep(w) => timer' = timer
    BY DEF WarehouseStep, ShipOrder, OvershadowedRequest, DispatchStep, DispatchDetails,
           DispatchNotify, DispatchWrite
  <2>9. CASE timer'[o] = timer[o]
    BY <1>1, <2>9
  <2> QED
    BY <2>1, <2>4, <2>5, <2>6, <2>7, <2>8, <2>9, Zenon DEF Next
<1>4. approvals'[o] = 0
  <2>1. CASE approvals' = approvals
    BY <1>1, <2>1
  <2>2. ASSUME NEW p \in Orders, NEW k \in 1..MaxSubmits, NEW ok \in BOOLEAN, TimerWrite(p, k, ok)
        PROVE  approvals'[o] = 0
    <3>1. p # o
      BY <1>1, <2>2 DEF TimerWrite
    <3> QED
      BY <1>1, <2>2, <3>1 DEF TimerWrite, TypeOK
  <2>3. \A h \in Hubs : SessionStep(h) => approvals' = approvals
    BY DEF SessionStep, InsertItem, LaunchTimer, CancelWrite
  <2>4. HubRequest \/ ProcStep \/ ClientStep \/ Crash \/ UNCHANGED vars => approvals' = approvals
    BY DEF HubRequest, NewOrder, CancelRead, DeliveryUpdate, ProcStep, ScanApproved,
           FetchDetails, SupplyItem, MarkRequested, ClientStep, Connect, DisconnectHub,
           DisconnectWarehouse, Crash, vars
  <2>5. \A w \in Warehouses : WarehouseStep(w) \/ DispatchStep(w) => approvals' = approvals
    BY DEF WarehouseStep, ShipOrder, OvershadowedRequest, DispatchStep, DispatchDetails,
           DispatchNotify, DispatchWrite
  <2>6. \A p \in Orders, k \in 1..MaxSubmits : TimerStep(p, k) => approvals' = approvals \/ approvals'[o] = 0
    BY <2>2 DEF TimerStep, TimerRead
  <2> QED
    BY <2>1, <2>3, <2>4, <2>5, <2>6, Zenon DEF Next
<1>5. reports'[o]["Approved"] = 0
  <2>1. ASSUME NEW p \in Orders, NEW s \in Status, NEW ok \in BOOLEAN, DeliveryUpdate(p, s, ok)
        PROVE  reports'[o] = reports[o]
    <3>1. p # o
      BY <1>1, <2>1 DEF DeliveryUpdate, Ready, Fresh, Inserting
    <3> QED
      BY <2>1, <3>1 DEF DeliveryUpdate, TypeOK
  <2>2. HubRequest => reports'[o] = reports[o]
    BY <2>1 DEF HubRequest, NewOrder, CancelRead
  <2>3. \A h \in Hubs : SessionStep(h) => reports' = reports
    BY DEF SessionStep, InsertItem, LaunchTimer, CancelWrite
  <2>4. \A p \in Orders, k \in 1..MaxSubmits : TimerStep(p, k) => reports' = reports
    BY DEF TimerStep, TimerRead, TimerWrite
  <2>5. ProcStep \/ ClientStep \/ Crash \/ UNCHANGED vars => reports' = reports
    BY DEF ProcStep, ScanApproved, FetchDetails, SupplyItem, MarkRequested, ClientStep,
           Connect, DisconnectHub, DisconnectWarehouse, Crash, vars
  <2>6. \A w \in Warehouses : WarehouseStep(w) \/ DispatchStep(w) => reports' = reports
    BY DEF WarehouseStep, ShipOrder, OvershadowedRequest, DispatchStep, DispatchDetails,
           DispatchNotify, DispatchWrite
  <2>7. reports'[o] = reports[o]
    BY <2>2, <2>3, <2>4, <2>5, <2>6, Zenon DEF Next
  <2> QED
    BY <1>1, <2>7
<1> QED
  BY <1>2, <1>3, <1>4, <1>5

LEMMA RowsInductive ==
    ASSUME TypeOK, RowsInv, NoSupplyUnapproved, [Next]_vars
    PROVE  RowsInv'
<1>1. SessionsOwn' /\ FreshUntouched'
  BY SessionsOwnInductive, FreshInductive DEF RowsInv
<1>2. OneStatus'
  <2> SUFFICES ASSUME NEW o \in Orders, submits'[o] <= 1, NEW i \in Items, NEW j \in Items,
                      rows'[o][i] # Absent, rows'[o][j] # Absent
               PROVE  rows'[o][i] = rows'[o][j]
    BY DEF OneStatus
  <2>1. submits[o] <= 1 /\ submits[o] \in Nat
    <3>1. submits[o] <= submits'[o]
      BY SessionsOwnInductive DEF RowsInv
    <3>2. TypeOK'
      BY TypeStep
    <3>3. submits[o] \in Nat /\ submits'[o] \in Nat
      BY <3>2 DEF TypeOK
    <3> QED
      BY <3>1, <3>3
  <2>2. CASE rows'[o] = rows[o]
    BY <2>1, <2>2 DEF RowsInv, OneStatus
  <2>3. ASSUME NEW m \in Items, NEW h \in Hubs, NEW ok \in BOOLEAN,
               InsertItem(h, m, ok), session[h].order = o
        PROVE  rows'[o][i] = rows'[o][j]
    <3>1. h = HubOf[o] /\ submits[o] > 0 /\ session[h].op = "insert"
      BY <2>3 DEF InsertItem, RowsInv, SessionsOwn
    <3>2. Fresh(o)
      BY <2>1, <2>3, <3>1 DEF Fresh, Inserting
    <3>3. \A n \in Items : rows'[o][n] \in {rows[o][n], "Pending"}
      BY <2>3 DEF InsertItem, TypeOK
    <3> QED
      BY <3>2, <3>3 DEF RowsInv, FreshUntouched
  <2>4. ASSUME NEW s \in Status, NEW ok \in BOOLEAN, UpdateOrderStatus(o, s, ok), rows'[o] # rows[o]
        PROVE  rows'[o][i] = rows'[o][j]
    <3>1. ok = TRUE
      BY <2>4 DEF UpdateOrderStatus
    <3> QED
      BY <2>4, <3>1, UpdatedStatus
  <2>5. CASE rows'[o] # rows[o]
    BY <2>3, <2>4, <2>5, StatusOrigin
  <2> QED
    BY <2>2, <2>5
<1> QED
  BY <1>1, <1>2 DEF RowsInv

\* The rows of an order that was submitted once carry one status, at every interleaving
\* of their writers and after a failed insert or a crash.
THEOREM RowsAgreeCorrect == Spec => []RowsAgree
<1>1. Init => RowsInv
  <2>1. Init => SessionsOwn /\ OneStatus
    BY DEF Init, SessionsOwn, OneStatus, IdleSession
  <2>2. Init => FreshUntouched
    BY DEF Init, FreshUntouched, ServerStatus
  <2> QED
    BY <2>1, <2>2 DEF RowsInv
<1>2. TypeOK /\ NoSupplyUnapproved /\ RowsInv /\ [Next]_vars => RowsInv'
  BY RowsInductive
<1>3. TypeOK /\ RowsInv => RowsAgree
  <2> SUFFICES ASSUME TypeOK, RowsInv, NEW o \in Orders, submits[o] <= 1
               PROVE  Cardinality(StatusesOf(o)) <= 1
    BY DEF RowsAgree
  <2>1. CASE StatusesOf(o) = {}
    BY <2>1, FS_EmptySet
  <2>2. CASE StatusesOf(o) # {}
    <3>1. PICK s : s \in StatusesOf(o)
      BY <2>2
    <3>2. StatusesOf(o) = {s}
      BY <3>1 DEF StatusesOf, RowsInv, OneStatus
    <3>3. Cardinality({s}) = 1
      BY FS_Singleton
    <3>4. Cardinality(StatusesOf(o)) = 1
      BY <3>2, <3>3, Zenon
    <3> QED
      BY <3>4
  <2> QED
    BY <2>1, <2>2
<1> QED
  BY <1>1, <1>2, <1>3, TypeCorrect, NoSupplyUnapprovedCorrect, PTL DEF Spec
=============================================================================
