------------------------ MODULE WarehouseStock_proofs ------------------------
(***************************************************************************)
(* Theorems about WarehouseStock, for any items, quantities and threshold. *)
(***************************************************************************)
EXTENDS WarehouseStock, TLAPS

\* Some thread is about to check item i.
Checked(i) == \E t \in Threads : pc[t] = "check" /\ Head(todo[t]).item = i

Typing ==
    /\ stock = [i \in Items |-> stock[i]]
    /\ pc \in [Threads -> {"idle", "update", "check", "notice", "dispatch", "copy", "send"}]
    /\ todo = [t \in Threads |-> todo[t]]

LowInv == Typing /\ LowIsBeingChecked

\* A step that leaves the stock alone, and every thread that is about to check.
LEMMA LowQuiet ==
    ASSUME LowInv, Typing', stock' = stock,
           \A t \in Threads : pc[t] = "check" => pc'[t] = "check" /\ todo'[t] = todo[t]
    PROVE  LowInv'
BY DEF LowInv, LowIsBeingChecked

\* A step that fills up item i, and leaves every thread alone that checks another one.
LEMMA LowFilled ==
    ASSUME LowInv, Typing', NEW i \in Items, stock' = [stock EXCEPT ![i] = MaxQuantity],
           \A t \in Threads : pc[t] = "check" /\ Head(todo[t]).item # i
                                => pc'[t] = "check" /\ todo'[t] = todo[t]
    PROVE  LowInv'
<1>1. ~(MaxQuantity < Threshold)
  BY StockAssumption
<1> QED
  BY <1>1 DEF LowInv, Typing, LowIsBeingChecked

\* A thread that starts was idle.
LEMMA LowStarts ==
    ASSUME LowInv, NEW t \in Threads, NEW place, NEW list, Starts(t, place, list),
           place \in {"copy", "update", "notice", "dispatch"}, stock' = [i \in Items |-> stock'[i]]
    PROVE  /\ Typing'
           /\ \A u \in Threads : pc[u] = "check" => pc'[u] = "check" /\ todo'[u] = todo[u]
BY DEF LowInv, Typing, Starts

LEMMA LowInit == Init => LowInv
<1> SUFFICES ASSUME Init PROVE LowInv
  OBVIOUS
<1>1. MaxQuantity \in Int /\ ~(MaxQuantity < Threshold)
  BY StockAssumption
<1> QED
  BY <1>1 DEF Init, LowInv, Typing, LowIsBeingChecked

\* update_inventory: the thread that may take an item below its threshold is the one
\* that checks it next.
LEMMA LowUpdate ==
    ASSUME LowInv, NEW t \in Threads, UpdateInventory(t)
    PROVE  LowInv'
<1> DEFINE i == Head(todo[t]).item
           level == stock[i] + Head(todo[t]).quantity
<1>1. /\ stock' = [stock EXCEPT ![i] = level] /\ todo' = todo
      /\ pc' = [pc EXCEPT ![t] = "check"] /\ pc[t] = "update"
  BY DEF UpdateInventory
<1> HIDE DEF level
<1>2. Typing'
  BY <1>1 DEF LowInv, Typing
<1>3. ASSUME NEW j \in Items, stock'[j] < Threshold PROVE Checked(j)'
  <2>1. CASE j = i
    BY <1>1, <2>1 DEF Checked, LowInv, Typing
  <2>2. CASE j # i
    <3>1. stock[j] < Threshold
      BY <1>1, <1>3, <2>2 DEF LowInv, Typing
    <3>2. PICK u \in Threads : pc[u] = "check" /\ Head(todo[u]).item = j
      BY <3>1 DEF LowInv, LowIsBeingChecked
    <3> QED
      BY <1>1, <3>2 DEF Checked, LowInv, Typing
  <2> QED
    BY <2>1, <2>2
<1> QED
  BY <1>2, <1>3 DEF LowInv, LowIsBeingChecked, Checked

\* check_restock_item: the thread stops checking, and the item is not low any more.
LEMMA LowCheck ==
    ASSUME LowInv, NEW t \in Threads, CheckRestock(t)
    PROVE  LowInv'
<1> DEFINE i == Head(todo[t]).item
<1>1. /\ pc' \in {[pc EXCEPT ![t] = "notice"], [pc EXCEPT ![t] = AfterItem(t, Tail(todo[t]))]}
      /\ todo' = [todo EXCEPT ![t] = Tail(@)]
      /\ \/ stock[i] < Threshold /\ stock' = [stock EXCEPT ![i] = MaxQuantity]
         \/ ~(stock[i] < Threshold) /\ stock' = stock
  BY DEF CheckRestock, Low
<1>2. AfterItem(t, Tail(todo[t])) \in {"update", "dispatch", "copy"}
  BY DEF AfterItem
<1>3. Typing'
  BY <1>1, <1>2 DEF LowInv, Typing
<1>4. ~(MaxQuantity < Threshold)
  BY StockAssumption
<1>5. ASSUME NEW j \in Items, stock'[j] < Threshold PROVE Checked(j)'
  <2>1. j # i /\ stock[j] < Threshold
    BY <1>1, <1>4, <1>5 DEF LowInv, Typing
  <2>2. PICK u \in Threads : pc[u] = "check" /\ Head(todo[u]).item = j
    BY <2>1 DEF LowInv, LowIsBeingChecked
  <2>3. u # t
    BY <2>1, <2>2
  <2> QED
    BY <1>1, <2>2, <2>3 DEF Checked, LowInv, Typing
<1> QED
  BY <1>3, <1>5 DEF LowInv, LowIsBeingChecked, Checked

LEMMA LowCall ==
    ASSUME LowInv, NEW t \in Threads, CallStep(t)
    PROVE  LowInv'
<1>1. CASE UpdateInventory(t)
  BY <1>1, LowUpdate
<1>2. CASE CheckRestock(t)
  BY <1>2, LowCheck
<1>3. CASE SendRestock(t) \/ SendDispatch(t) \/ CopyLevels(t) \/ SendInventory(t)
  <2>1. /\ \E place \in {"update", "dispatch", "copy", "send", "idle"} :
              pc' = [pc EXCEPT ![t] = place]
        /\ pc[t] # "check" /\ UNCHANGED <<stock, todo>>
    BY <1>3 DEF SendRestock, SendDispatch, CopyLevels, SendInventory, AfterItem
  <2>2. Typing'
    BY <2>1 DEF LowInv, Typing
  <2>3. \A u \in Threads : pc[u] = "check" => pc'[u] = "check" /\ todo'[u] = todo[u]
    BY <2>1 DEF LowInv, Typing
  <2> QED
    BY <2>1, <2>2, <2>3, LowQuiet
<1> QED
  BY <1>1, <1>2, <1>3 DEF CallStep

LEMMA LowStep == LowInv /\ [Next]_vars => LowInv'
<1> SUFFICES ASSUME LowInv, [Next]_vars PROVE LowInv'
  OBVIOUS
<1>0. stock = [i \in Items |-> stock[i]]
  BY DEF LowInv, Typing
<1>1. ASSUME NEW t \in Threads, NEW place \in {"copy", "update", "notice", "dispatch"}, NEW list,
             Starts(t, place, list), stock' = stock
      PROVE  LowInv'
  BY <1>0, <1>1, LowStarts, LowQuiet
<1>2. CASE ManualSync
  BY <1>1, <1>2 DEF ManualSync, Threads
<1>3. ASSUME NEW i \in Items, ForceRestock(i) PROVE LowInv'
  <2>1. stock' = [stock EXCEPT ![i] = MaxQuantity] /\ Starts("main", "notice", <<>>)
    BY <1>3 DEF ForceRestock
  <2>2. "main" \in Threads /\ stock' = [j \in Items |-> stock'[j]]
    BY <1>0, <2>1 DEF Threads
  <2> QED
    BY <2>1, <2>2, LowStarts, LowFilled
<1>4. ASSUME NEW i \in Items, NEW q \in Additions, AddStock(i, q) PROVE LowInv'
  BY <1>1, <1>4 DEF AddStock, Threads
<1>5. CASE ReceiveRequest
  BY <1>1, <1>5 DEF ReceiveRequest, Threads
<1>6. CASE WakeUp
  BY <1>1, <1>6 DEF WakeUp, Threads
<1>7. ASSUME NEW t \in Threads, CallStep(t) PROVE LowInv'
  BY <1>7, LowCall
<1>8. ASSUME UNCHANGED <<stock, pc, todo>> PROVE LowInv'
  BY <1>8 DEF LowInv, Typing, LowIsBeingChecked
<1>9. CASE ServerStep
  BY <1>8, <1>9 DEF ServerStep, ReadInventory, ReadDispatch, StoreRow, ReadRestock, ReadSeveral, thread
<1>10. ASSUME NEW list \in Requests, Supply(list) PROVE LowInv'
  BY <1>8, <1>10 DEF Supply, thread
<1>11. CASE UNCHANGED vars
  BY <1>8, <1>11 DEF vars, thread
<1> QED
  BY <1>2, <1>3, <1>4, <1>5, <1>6, <1>7, <1>9, <1>10, <1>11 DEF Next, MenuStep

\* No interleaving of the menu and the listener (inventory.c, listener.c, main.c) leaves
\* an item below its threshold.
THEOREM LowIsBeingCheckedCorrect == Spec => []LowIsBeingChecked
<1>1. LowInv => LowIsBeingChecked
  BY DEF LowInv
<1> QED
  BY <1>1, LowInit, LowStep, PTL DEF Spec
-----------------------------------------------------------------------------
(***************************************************************************)
(* The type invariant.                                                     *)
(***************************************************************************)
Places == {"idle", "update", "check", "notice", "dispatch", "copy", "send"}
Lists == Seq([item : Items, quantity : Int])

LEMMA Element ==
    ASSUME NEW S, NEW s \in Seq(S), NEW k \in 1..Len(s)
    PROVE  s[k] \in S
OBVIOUS

LEMMA HeadAndTail ==
    ASSUME NEW S, NEW s \in Seq(S), s # <<>>
    PROVE  Head(s) \in S /\ Tail(s) \in Seq(S)
OBVIOUS

LEMMA AsSequence ==
    ASSUME NEW S, NEW n \in Nat, NEW f \in [1..n -> S]
    PROVE  f \in Seq(S)
OBVIOUS

ThreadTypes ==
    /\ pc \in [Threads -> Places] /\ todo \in [Threads -> Lists]
    /\ \A u \in Threads : pc[u] \in {"update", "check"} => todo[u] # <<>>
    /\ restocked \in [Threads -> Items \cup {0}]
    /\ \A u \in Threads : pc[u] = "notice" => restocked[u] \in Items

OtherTypes ==
    /\ stock \in Levels
    /\ levels \in [Threads -> Levels]
    /\ requests \in Seq(Requests)
    /\ toServer \in Seq(Message)
    /\ rows \subseteq Items
    /\ view \in Levels
    /\ applying \in [row : 0..MaxItem, levels : Levels]
    /\ sent \in 0..MaxRequests
    /\ menu \in 0..MaxMenu
    /\ lost \in 0..MaxLost
    /\ faults \in 0..MaxFaults

LEMMA Parts ==
    /\ TypeOK <=> ThreadTypes /\ OtherTypes
    /\ TypeOK' <=> ThreadTypes' /\ OtherTypes'
BY DEF TypeOK, ThreadTypes, OtherTypes, Places, Lists

\* A thread that starts on a list; only one that is to update needs an item on it.
LEMMA TypeStarts ==
    ASSUME TypeOK, NEW t \in Threads, NEW place \in Places \ {"check"}, NEW list \in Lists,
           Starts(t, place, list), place = "update" => list # <<>>,
           restocked' \in [Threads -> Items \cup {0}], place = "notice" => restocked'[t] \in Items,
           \A u \in Threads \ {t} : restocked'[u] = restocked[u]
    PROVE  ThreadTypes'
<1>1. todo \in [Threads -> Lists] /\ pc \in [Threads -> Places]
  BY Parts DEF ThreadTypes
<1>2. /\ pc' = [pc EXCEPT ![t] = place] /\ todo' = [todo EXCEPT ![t] = list]
  BY DEF Starts
<1>3. \A u \in Threads \ {t} : pc'[u] = pc[u] /\ todo'[u] = todo[u]
  BY <1>1, <1>2
<1> QED
  BY <1>1, <1>2, <1>3, Parts DEF ThreadTypes

LEMMA TypeQuiet == TypeOK /\ UNCHANGED vars => TypeOK'
BY DEF vars, thread, server, counters, TypeOK

LEMMA TypeMenu ==
    ASSUME TypeOK, MenuStep
    PROVE  TypeOK'
<1>0. "main" \in Threads /\ <<>> \in Lists
  BY DEF Threads, Lists
<1>1. CASE ManualSync
  <2>1. Starts("main", "copy", <<>>) /\ UNCHANGED restocked
    BY <1>1 DEF ManualSync
  <2>2. restocked \in [Threads -> Items \cup {0}]
    BY DEF TypeOK
  <2>3. ThreadTypes'
    BY <1>0, <2>1, <2>2, TypeStarts, Parts DEF Places, ThreadTypes
  <2>4. OtherTypes'
    BY <1>1, Parts, StockAssumption DEF ManualSync, Choice, server, OtherTypes
  <2> QED
    BY <2>3, <2>4, Parts
<1>2. ASSUME NEW i \in Items, ForceRestock(i) PROVE TypeOK'
  <2>1. Starts("main", "notice", <<>>) /\ restocked' = [restocked EXCEPT !["main"] = i]
    BY <1>2 DEF ForceRestock
  <2>2. restocked' \in [Threads -> Items \cup {0}] /\ restocked'["main"] = i
        /\ \A u \in Threads \ {"main"} : restocked'[u] = restocked[u]
    BY <1>0, <2>1 DEF TypeOK
  <2>3. stock' \in Levels
    BY <1>2, StockAssumption DEF ForceRestock, TypeOK, Levels
  <2>4. ThreadTypes'
    BY <1>0, <2>1, <2>2, TypeStarts DEF Places
  <2>5. OtherTypes'
    BY <1>2, <2>3, Parts, StockAssumption DEF ForceRestock, Choice, server, OtherTypes
  <2> QED
    BY <2>4, <2>5, Parts
<1>3. ASSUME NEW i \in Items, NEW q \in Additions, AddStock(i, q) PROVE TypeOK'
  <2> DEFINE list == <<[item |-> i, quantity |-> q]>>
  <2>1. q \in Int
    BY StockAssumption
  <2>2. list \in Lists /\ list # <<>>
    BY <2>1 DEF Lists
  <2>3. Starts("main", "update", list) /\ UNCHANGED restocked
    BY <1>3 DEF AddStock
  <2> HIDE DEF list
  <2>4. restocked \in [Threads -> Items \cup {0}]
    BY DEF TypeOK
  <2>5. ThreadTypes'
    BY <1>0, <2>2, <2>3, <2>4, TypeStarts, Parts DEF Places, ThreadTypes
  <2>6. OtherTypes'
    BY <1>3, Parts, StockAssumption DEF AddStock, Choice, server, OtherTypes
  <2> QED
    BY <2>5, <2>6, Parts
<1> QED
  BY <1>1, <1>2, <1>3 DEF MenuStep

LEMMA TypeReceive ==
    ASSUME TypeOK, ReceiveRequest
    PROVE  TypeOK'
<1> DEFINE list == Head(requests)
<1>1. list \in Requests /\ Tail(requests) \in Seq(Requests)
  BY DEF ReceiveRequest, TypeOK
<1>2. list \in Seq([item : Items, quantity : Nat])
  BY <1>1, StockAssumption
<1>3. Negated(list) \in Lists
  <2>1. Len(list) \in Nat /\ DOMAIN list = 1..Len(list)
    BY <1>2
  <2>2. ASSUME NEW k \in 1..Len(list)
        PROVE  [list[k] EXCEPT !.quantity = -@] \in [item : Items, quantity : Int]
    <3>1. list[k] \in [item : Items, quantity : Nat]
      BY <1>2, Element
    <3> QED
      BY <3>1
  <2>3. Negated(list) \in [1..Len(list) -> [item : Items, quantity : Int]]
    BY <2>1, <2>2 DEF Negated
  <2> QED
    BY <2>1, <2>3, AsSequence DEF Lists
<1>4. list # <<>> => Negated(list) # <<>>
  <2> SUFFICES ASSUME list # <<>> PROVE Negated(list) # <<>>
    OBVIOUS
  <2>1. 1 \in DOMAIN list
    BY <1>2
  <2>2. DOMAIN Negated(list) = DOMAIN list
    BY DEF Negated
  <2> QED
    BY <2>1, <2>2
<1> HIDE DEF list
<1>5. /\ pc' = [pc EXCEPT !["listener"] = IF list = <<>> THEN "dispatch" ELSE "update"]
      /\ todo' = [todo EXCEPT !["listener"] = Negated(list)]
      /\ requests' = Tail(requests)
      /\ UNCHANGED <<stock, restocked, levels, toServer, server, counters>>
  BY DEF ReceiveRequest, Starts, list
<1>6. "listener" \in Threads
  BY DEF Threads
<1> QED
  BY <1>1, <1>3, <1>4, <1>5, <1>6 DEF server, counters, TypeOK, Lists

LEMMA TypeCall ==
    ASSUME TypeOK, NEW t \in Threads, CallStep(t)
    PROVE  TypeOK'
<1>0. ASSUME NEW m \in Message, toServer' = Append(toServer, m) PROVE toServer' \in Seq(Message)
  BY <1>0 DEF TypeOK
<1>1. CASE UpdateInventory(t)
  <2>1. todo[t] \in Lists /\ todo[t] # <<>>
    BY <1>1 DEF UpdateInventory, TypeOK, Lists
  <2>2. Head(todo[t]) \in [item : Items, quantity : Int]
    BY <2>1, HeadAndTail DEF Lists
  <2>3. stock' \in Levels
    BY <1>1, <2>2 DEF UpdateInventory, TypeOK, Levels
  <2> QED
    BY <1>1, <2>1, <2>3 DEF UpdateInventory, server, counters, TypeOK
<1>2. CASE CheckRestock(t)
  <2>1. todo[t] \in Lists /\ todo[t] # <<>>
    BY <1>2 DEF CheckRestock, TypeOK, Lists
  <2>2. Head(todo[t]) \in [item : Items, quantity : Int] /\ Tail(todo[t]) \in Lists
    BY <2>1, HeadAndTail DEF Lists
  <2>3. MaxQuantity \in Int
    BY StockAssumption
  <2>4. CASE Low(Head(todo[t]).item)
    <3> DEFINE i == Head(todo[t]).item
    <3>1. i \in Items
      BY <2>2
    <3>2. /\ stock' = [stock EXCEPT ![i] = MaxQuantity]
          /\ restocked' = [restocked EXCEPT ![t] = i]
          /\ pc' = [pc EXCEPT ![t] = "notice"]
          /\ todo' = [todo EXCEPT ![t] = Tail(todo[t])]
          /\ UNCHANGED <<levels, requests, toServer, server, counters>>
      BY <1>2, <2>4 DEF CheckRestock
    <3> HIDE DEF i
    <3>3. stock' \in Levels
      BY <2>3, <3>2 DEF TypeOK, Levels
    <3> QED
      BY <2>2, <3>1, <3>2, <3>3 DEF server, counters, TypeOK, Lists
  <2>5. CASE ~Low(Head(todo[t]).item)
    <3>1. /\ pc' = [pc EXCEPT ![t] = AfterItem(t, Tail(todo[t]))]
          /\ todo' = [todo EXCEPT ![t] = Tail(todo[t])]
          /\ UNCHANGED <<stock, restocked, levels, requests, toServer, server, counters>>
      BY <1>2, <2>5 DEF CheckRestock
    <3>2. /\ AfterItem(t, Tail(todo[t])) \in {"update", "dispatch", "copy"}
          /\ AfterItem(t, Tail(todo[t])) = "update" => Tail(todo[t]) # <<>>
      BY DEF AfterItem
    <3> QED
      BY <2>2, <3>1, <3>2 DEF server, counters, TypeOK, Lists
  <2> QED
    BY <2>4, <2>5
<1>3. CASE SendRestock(t)
  <2>1. [kind |-> "restock", item |-> restocked[t]] \in Message
    BY <1>3 DEF SendRestock, TypeOK, Message
  <2>2. toServer' \in Seq(Message)
    BY <1>0, <1>3, <2>1 DEF SendRestock
  <2>3. /\ AfterItem(t, todo[t]) \in {"update", "dispatch", "copy"}
        /\ AfterItem(t, todo[t]) = "update" => todo[t] # <<>>
    BY DEF AfterItem
  <2> QED
    BY <1>3, <2>2, <2>3 DEF SendRestock, server, counters, TypeOK
<1>4. CASE SendDispatch(t)
  <2>1. [kind |-> "dispatch"] \in Message
    BY DEF Message
  <2>2. toServer' \in Seq(Message)
    BY <1>0, <1>4, <2>1 DEF SendDispatch
  <2> QED
    BY <1>4, <2>2 DEF SendDispatch, server, counters, TypeOK
<1>5. CASE CopyLevels(t)
  BY <1>5 DEF CopyLevels, server, counters, TypeOK
<1>6. CASE SendInventory(t)
  <2>1. [kind |-> "inventory", levels |-> levels[t]] \in Message
    BY DEF TypeOK, Message
  <2>2. toServer' \in Seq(Message)
    BY <1>0, <1>6, <2>1 DEF SendInventory
  <2> QED
    BY <1>6, <2>2 DEF SendInventory, server, counters, TypeOK
<1> QED
  BY <1>1, <1>2, <1>3, <1>4, <1>5, <1>6 DEF CallStep

LEMMA TypeServer ==
    ASSUME TypeOK, ServerStep
    PROVE  TypeOK'
<1>0. ThreadTypes'
  BY Parts DEF ServerStep, ReadInventory, ReadDispatch, StoreRow, ReadRestock, ReadSeveral,
               thread, ThreadTypes
<1>1. NoList \in [row : 0..MaxItem, levels : Levels]
  BY StockAssumption DEF NoList, Levels
<1>2. ASSUME Ready PROVE Head(toServer) \in Message /\ Tail(toServer) \in Seq(Message)
  BY <1>2, HeadAndTail DEF Ready, TypeOK
<1>3. CASE ReadInventory
  <2>1. Ready /\ Head(toServer).kind = "inventory" /\ toServer' = Tail(toServer)
        /\ applying' = [row |-> 1, levels |-> Head(toServer).levels]
        /\ UNCHANGED <<stock, levels, requests, rows, view, sent, menu, lost, faults>>
    BY <1>3 DEF ReadInventory, thread, counters
  <2>2. Head(toServer).levels \in Levels
    BY <1>2, <2>1 DEF Message
  <2>3. 1 \in 0..MaxItem
    BY StockAssumption
  <2> QED
    BY <1>0, <1>2, <2>1, <2>2, <2>3, Parts DEF OtherTypes
<1>4. CASE ReadDispatch
  <2>1. OtherTypes'
    BY <1>2, <1>4, Parts DEF ReadDispatch, thread, server, counters, OtherTypes
  <2> QED
    BY <1>0, <2>1, Parts
<1>5. ASSUME NEW ok \in BOOLEAN, StoreRow(ok) PROVE TypeOK'
  <2>1. faults' \in 0..MaxFaults
    BY <1>5, StockAssumption DEF StoreRow, Outcome, TypeOK
  <2>2. applying.row \in 0..MaxItem /\ applying.row \in Items /\ applying.levels \in Levels
        /\ applying = [row |-> applying.row, levels |-> applying.levels]
    BY <1>5, StockAssumption DEF StoreRow, TypeOK, Items
  <2>3. AfterRow \in [row : 0..MaxItem, levels : Levels]
    <3>1. CASE applying.row = MaxItem
      BY <1>1, <3>1 DEF AfterRow
    <3>2. CASE applying.row # MaxItem
      <4>1. AfterRow = [row |-> applying.row + 1, levels |-> applying.levels]
        BY <2>2, <3>2 DEF AfterRow
      <4>2. applying.row + 1 \in 0..MaxItem
        BY <2>2, <3>2, StockAssumption
      <4> QED
        BY <2>2, <4>1, <4>2
    <3> QED
      BY <3>1, <3>2
  <2>4. view' \in Levels /\ rows' \subseteq Items
    BY <1>5, <2>2 DEF StoreRow, TypeOK, Levels
  <2>5. OtherTypes'
    BY <1>1, <1>5, <2>1, <2>3, <2>4, Parts DEF StoreRow, Outcome, thread, OtherTypes
  <2> QED
    BY <1>0, <2>5, Parts
<1>6. ASSUME NEW ok \in BOOLEAN, ReadRestock(ok) PROVE TypeOK'
  <2>1. faults' \in 0..MaxFaults
    BY <1>6, StockAssumption DEF ReadRestock, Outcome, TypeOK
  <2>2. view' \in Levels
    BY <1>6, StockAssumption DEF ReadRestock, TypeOK, Levels
  <2>3. OtherTypes'
    BY <1>2, <1>6, <2>1, <2>2, Parts DEF ReadRestock, Outcome, thread, OtherTypes
  <2> QED
    BY <1>0, <2>3, Parts
<1>7. ASSUME NEW n \in 2..Len(toServer), ReadSeveral(n) PROVE TypeOK'
  <2>1. Len(toServer) \in Nat /\ n + 1 \in Nat /\ n + 1 >= 1
    BY DEF TypeOK
  <2>2. SubSeq(toServer, n + 1, Len(toServer)) \in Seq(Message)
    BY <2>1 DEF TypeOK
  <2>3. lost' \in 0..MaxLost
    BY <1>7, StockAssumption DEF ReadSeveral, TypeOK
  <2>4. toServer' \in Seq(Message)
    BY <1>7, <2>2 DEF ReadSeveral
  <2>5. OtherTypes'
    BY <1>7, <2>3, <2>4, Parts DEF ReadSeveral, thread, server, OtherTypes
  <2> QED
    BY <1>0, <2>5, Parts
<1> QED
  BY <1>3, <1>4, <1>5, <1>6, <1>7 DEF ServerStep

LEMMA TypeStep == TypeOK /\ [Next]_vars => TypeOK'
<1> SUFFICES ASSUME TypeOK, [Next]_vars PROVE TypeOK'
  OBVIOUS
<1>1. CASE WakeUp
  <2>1. "updater" \in Threads /\ <<>> \in Lists
    BY DEF Threads, Lists
  <2>2. ThreadTypes'
    BY <1>1, <2>1, TypeStarts, Parts DEF WakeUp, Places, ThreadTypes
  <2>3. OtherTypes'
    BY <1>1, Parts DEF WakeUp, server, counters, OtherTypes
  <2> QED
    BY <2>2, <2>3, Parts
<1>2. ASSUME NEW list \in Requests, Supply(list) PROVE TypeOK'
  <2>1. requests' \in Seq(Requests) /\ sent' \in 0..MaxRequests
    BY <1>2, StockAssumption DEF Supply, TypeOK
  <2>2. ThreadTypes' /\ OtherTypes'
    BY <1>2, <2>1, Parts DEF Supply, thread, server, ThreadTypes, OtherTypes
  <2> QED
    BY <2>2, Parts
<1> QED
  BY <1>1, <1>2, TypeMenu, TypeReceive, TypeCall, TypeServer, TypeQuiet DEF Next

\* The types: a thread that takes or checks an item has one to take or check, a notice
\* names the item that was filled up, and the server stores rows of the list only.
THEOREM TypeCorrect == Spec => []TypeOK
<1>1. Init => TypeOK
  BY StockAssumption DEF Init, NoList, TypeOK, Levels, Items
<1> QED
  BY <1>1, TypeStep, PTL DEF Spec
=============================================================================
