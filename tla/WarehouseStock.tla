---------------------------- MODULE WarehouseStock ----------------------------
(***************************************************************************)
(* The stock of one warehouse (warehouse/src/inventory.c, listener.c,      *)
(* main.c) and the server's copy of it, the rows of the inventory table    *)
(* (server/src/inventory.cpp, database.cpp).                               *)
(*                                                                         *)
(* Three threads of the warehouse work on the stock: the user's menu, the  *)
(* listener that serves supply requests, and the periodic update.  Every   *)
(* function of inventory.c is atomic (InventoryLock), the sequences of     *)
(* calls and the sends are not: a list of levels is copied under the lock  *)
(* and sent after it.  One thread of the server applies the messages in    *)
(* the order they arrive, a list row by row.  Messages read together are   *)
(* lost, and so is the rest of a list after a failed statement.            *)
(***************************************************************************)
EXTENDS Integers, Sequences

CONSTANTS
    MaxItem,       \* item types are 1..MaxItem
    MaxQuantity,   \* MAX_ITEM_QUANTITY, scaled down
    Threshold,     \* ITEM_THRESHOLD, scaled down
    Requests,      \* lists of items and quantities an order may ask for
    Additions,     \* quantities the user may add
    MaxRequests,   \* bound: supply requests sent
    MaxMenu,       \* bound: choices of the user
    MaxChannel,    \* bound: unread messages when the periodic update starts
    MaxLost,       \* bound: reads that return several messages
    MaxFaults      \* bound: SQL statements that fail

Items == 1..MaxItem
Threads == {"main", "listener", "updater"}

ASSUME StockAssumption ==
    /\ MaxItem \in Nat \ {0}
    /\ MaxQuantity \in Nat
    /\ Threshold \in 0..MaxQuantity
    /\ Requests \subseteq Seq([item : Items, quantity : Nat])
    /\ Additions \subseteq Int
    /\ MaxRequests \in Nat
    /\ MaxMenu \in Nat
    /\ MaxLost \in Nat
    /\ MaxFaults \in Nat

VARIABLES
    stock,      \* inventory.items[].stock_level
    pc,         \* what each thread is about to do
    todo,       \* the items and quantities it still has to take or add
    restocked,  \* the item it restocked last
    levels,     \* the levels it copied
    requests,   \* supply requests on their way
    toServer,   \* messages on their way to the server
    rows,       \* the items the inventory table has a row for
    view,       \* the stock_level of each row
    applying,   \* the list the server is storing, row by row
    sent, menu, lost, faults

thread == <<pc, todo, restocked, levels>>
server == <<rows, view, applying>>
counters == <<sent, menu, lost, faults>>
vars == <<stock, thread, requests, toServer, server, counters>>

Levels == [Items -> Int]
Message == [kind : {"inventory"}, levels : Levels]
             \cup [kind : {"restock"}, item : Items] \cup [kind : {"dispatch"}]
NoList == [row |-> 0, levels |-> [i \in Items |-> 0]]

TypeOK ==
    /\ stock \in Levels
    /\ pc \in [Threads -> {"idle", "update", "check", "notice", "dispatch", "copy", "send"}]
    /\ todo \in [Threads -> Seq([item : Items, quantity : Int])]
    /\ \A t \in Threads : pc[t] \in {"update", "check"} => todo[t] # <<>>
    /\ restocked \in [Threads -> Items \cup {0}]
    /\ \A t \in Threads : pc[t] = "notice" => restocked[t] \in Items
    /\ levels \in [Threads -> Levels]
    /\ requests \in Seq(Requests)
    /\ toServer \in Seq(Message)
    /\ rows \subseteq Items
    /\ view \in Levels
    /\ applying \in [row : 0..MaxItem, levels : Levels]
    /\ sent \in 0..MaxRequests
    /\ menu \in 0..MaxMenu
    /\ lost \in 0..MaxLost
    /\ faults \in 0..MaxFaults

\* initialize_inventory; the first list the warehouse sends is on its way.
Init ==
    /\ stock = [i \in Items |-> MaxQuantity]
    /\ pc = [t \in Threads |-> IF t = "main" THEN "copy" ELSE "idle"]
    /\ todo = [t \in Threads |-> <<>>]
    /\ restocked = [t \in Threads |-> 0]
    /\ levels = [t \in Threads |-> [i \in Items |-> 0]]
    /\ requests = <<>>
    /\ toServer = <<>>
    /\ rows = {}
    /\ view = [i \in Items |-> 0]
    /\ applying = NoList
    /\ sent = 0 /\ menu = 0 /\ lost = 0 /\ faults = 0

-----------------------------------------------------------------------------
(***************************************************************************)
(* What starts a thread of the warehouse.                                  *)
(***************************************************************************)
Starts(t, place, list) ==
    /\ pc[t] = "idle"
    /\ pc' = [pc EXCEPT ![t] = place]
    /\ todo' = [todo EXCEPT ![t] = list]

Choice == menu < MaxMenu /\ menu' = menu + 1 /\ UNCHANGED <<sent, lost, faults>>

ManualSync ==
    /\ Starts("main", "copy", <<>>)
    /\ Choice
    /\ UNCHANGED <<stock, restocked, levels, requests, toServer, server>>

AddStock(i, q) ==
    /\ Starts("main", "update", <<[item |-> i, quantity |-> q]>>)
    /\ Choice
    /\ UNCHANGED <<stock, restocked, levels, requests, toServer, server>>

\* set_inventory and a restock notice.
ForceRestock(i) ==
    /\ Starts("main", "notice", <<>>)
    /\ Choice
    /\ stock' = [stock EXCEPT ![i] = MaxQuantity]
    /\ restocked' = [restocked EXCEPT !["main"] = i]
    /\ UNCHANGED <<levels, requests, toServer, server>>

Negated(list) == [k \in DOMAIN list |-> [list[k] EXCEPT !.quantity = -@]]

ReceiveRequest ==
    /\ requests # <<>>
    /\ Starts("listener", IF Head(requests) = <<>> THEN "dispatch" ELSE "update",
              Negated(Head(requests)))
    /\ requests' = Tail(requests)
    /\ UNCHANGED <<stock, restocked, levels, toServer, server, counters>>

\* The periodic update, after its sleep.
WakeUp ==
    /\ Len(toServer) < MaxChannel
    /\ Starts("updater", "copy", <<>>)
    /\ UNCHANGED <<stock, restocked, levels, requests, toServer, server, counters>>

-----------------------------------------------------------------------------
(***************************************************************************)
(* The calls each of them makes.                                           *)
(***************************************************************************)

\* update_inventory takes what is asked for, whatever there is.
UpdateInventory(t) ==
    /\ pc[t] = "update"
    /\ stock' = [stock EXCEPT ![Head(todo[t]).item] = @ + Head(todo[t]).quantity]
    /\ pc' = [pc EXCEPT ![t] = "check"]
    /\ UNCHANGED <<todo, restocked, levels, requests, toServer, server, counters>>

AfterItem(t, rest) ==
    IF rest # <<>> THEN "update" ELSE IF t = "listener" THEN "dispatch" ELSE "copy"

\* Mutant: an item is low one below the threshold.
LowTooLate(i) == stock[i] < Threshold - 1

Low(i) == stock[i] < Threshold

\* check_restock_item fills the item up when it is below the threshold.
CheckRestock(t) ==
    /\ pc[t] = "check"
    /\ LET i == Head(todo[t]).item
       IN  \/ /\ Low(i)
              /\ stock' = [stock EXCEPT ![i] = MaxQuantity]
              /\ restocked' = [restocked EXCEPT ![t] = i]
              /\ pc' = [pc EXCEPT ![t] = "notice"]
           \/ /\ ~Low(i)
              /\ pc' = [pc EXCEPT ![t] = AfterItem(t, Tail(todo[t]))]
              /\ UNCHANGED <<stock, restocked>>
    /\ todo' = [todo EXCEPT ![t] = Tail(@)]
    /\ UNCHANGED <<levels, requests, toServer, server, counters>>

SendRestock(t) ==
    /\ pc[t] = "notice"
    /\ toServer' = Append(toServer, [kind |-> "restock", item |-> restocked[t]])
    /\ pc' = [pc EXCEPT ![t] = AfterItem(t, todo[t])]
    /\ UNCHANGED <<stock, todo, restocked, levels, requests, server, counters>>

SendDispatch(t) ==
    /\ pc[t] = "dispatch"
    /\ toServer' = Append(toServer, [kind |-> "dispatch"])
    /\ pc' = [pc EXCEPT ![t] = "copy"]
    /\ UNCHANGED <<stock, todo, restocked, levels, requests, server, counters>>

\* send_inventory_to_server, under the lock and after it.
CopyLevels(t) ==
    /\ pc[t] = "copy"
    /\ levels' = [levels EXCEPT ![t] = stock]
    /\ pc' = [pc EXCEPT ![t] = "send"]
    /\ UNCHANGED <<stock, todo, restocked, requests, toServer, server, counters>>

SendInventory(t) ==
    /\ pc[t] = "send"
    /\ toServer' = Append(toServer, [kind |-> "inventory", levels |-> levels[t]])
    /\ pc' = [pc EXCEPT ![t] = "idle"]
    /\ UNCHANGED <<stock, todo, restocked, levels, requests, server, counters>>

-----------------------------------------------------------------------------
(***************************************************************************)
(* The server.  supplyRequest looks for a warehouse that has enough of one *)
(* item of the order, and sends it the whole list.                         *)
(***************************************************************************)
Supply(list) ==
    /\ sent < MaxRequests
    /\ sent' = sent + 1
    /\ \E k \in DOMAIN list : list[k].item \in rows /\ view[list[k].item] >= list[k].quantity
    /\ requests' = Append(requests, list)
    /\ UNCHANGED <<stock, thread, toServer, server, menu, lost, faults>>

Ready == applying.row = 0 /\ toServer # <<>>

\* handleInventoryUpdate starts on the first item of its list.
ReadInventory ==
    /\ Ready
    /\ Head(toServer).kind = "inventory"
    /\ toServer' = Tail(toServer)
    /\ applying' = [row |-> 1, levels |-> Head(toServer).levels]
    /\ UNCHANGED <<stock, thread, requests, rows, view, counters>>

Outcome(ok) ==
    /\ ok \/ faults < MaxFaults
    /\ faults' = IF ok THEN faults ELSE faults + 1
    /\ UNCHANGED <<sent, menu, lost>>

AfterRow == IF applying.row = MaxItem THEN NoList ELSE [applying EXCEPT !.row = @ + 1]

\* Mutant: a row that exists is left as it is.
StoreNewRow(ok) ==
    /\ applying.row # 0
    /\ Outcome(ok)
    /\ rows' = IF ok THEN rows \cup {applying.row} ELSE rows
    /\ view' = IF ok /\ applying.row \notin rows
               THEN [view EXCEPT ![applying.row] = applying.levels[applying.row]] ELSE view
    /\ applying' = IF ok THEN AfterRow ELSE NoList
    /\ UNCHANGED <<stock, thread, requests, toServer>>

\* insertOrUpdateInventory of the next item; after a failure the rest is given up.
StoreRow(ok) ==
    /\ applying.row # 0
    /\ Outcome(ok)
    /\ rows' = IF ok THEN rows \cup {applying.row} ELSE rows
    /\ view' = IF ok THEN [view EXCEPT ![applying.row] = applying.levels[applying.row]] ELSE view
    /\ applying' = IF ok THEN AfterRow ELSE NoList
    /\ UNCHANGED <<stock, thread, requests, toServer>>

\* handleRestockNotice updates the row, if there is one.
ReadRestock(ok) ==
    /\ Ready
    /\ Head(toServer).kind = "restock"
    /\ toServer' = Tail(toServer)
    /\ Outcome(ok)
    /\ view' = IF ok /\ Head(toServer).item \in rows
               THEN [view EXCEPT ![Head(toServer).item] = MaxQuantity] ELSE view
    /\ UNCHANGED <<stock, thread, requests, rows, applying>>

\* A dispatch is the business of the orders.
ReadDispatch ==
    /\ Ready
    /\ Head(toServer).kind = "dispatch"
    /\ toServer' = Tail(toServer)
    /\ UNCHANGED <<stock, thread, requests, server, counters>>

\* Several messages in one read do not parse.
ReadSeveral(n) ==
    /\ Ready
    /\ n <= Len(toServer)
    /\ lost < MaxLost
    /\ lost' = lost + 1
    /\ toServer' = SubSeq(toServer, n + 1, Len(toServer))
    /\ UNCHANGED <<stock, thread, requests, server, sent, menu, faults>>

-----------------------------------------------------------------------------
MenuStep == ManualSync \/ (\E i \in Items : ForceRestock(i) \/ \E q \in Additions : AddStock(i, q))

CallStep(t) ==
    \/ UpdateInventory(t) \/ CheckRestock(t) \/ SendRestock(t) \/ SendDispatch(t)
    \/ CopyLevels(t) \/ SendInventory(t)

ServerStep ==
    \/ ReadInventory \/ ReadDispatch
    \/ \E ok \in BOOLEAN : StoreRow(ok) \/ ReadRestock(ok)
    \/ \E n \in 2..Len(toServer) : ReadSeveral(n)

Next ==
    \/ MenuStep \/ ReceiveRequest \/ WakeUp \/ ServerStep
    \/ \E t \in Threads : CallStep(t)
    \/ \E list \in Requests : Supply(list)

Spec == Init /\ [][Next]_vars

\* The threads run on, and the periodic update wakes up again and again.
FairSpec ==
    /\ Spec
    /\ \A t \in Threads : WF_vars(CallStep(t))
    /\ WF_vars(WakeUp)
    /\ WF_vars(ServerStep)

-----------------------------------------------------------------------------
\* An item is below its threshold only while some thread is about to check it: no
\* interleaving of the menu and the listener leaves it there.
LowIsBeingChecked ==
    \A i \in Items :
        stock[i] < Threshold => \E t \in Threads : pc[t] = "check" /\ Head(todo[t]).item = i

\* Whatever is sent late, lost or half stored, the database has the true levels in the
\* end, once the supplies and the user stop: the periodic update repairs them.
ViewCatchesUp == <>[](rows = Items /\ view = stock)
=============================================================================
