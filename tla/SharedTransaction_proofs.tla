----------------------- MODULE SharedTransaction_proofs -----------------------
(***************************************************************************)
(* Theorems about SharedTransaction, for any threads, lists and bounds.    *)
(***************************************************************************)
EXTENDS SharedTransaction, TLAPS

Places == {"idle", "begin", "delete", "insert", "commit", "rollback"}

\* What the first theorem needs of the types.
Typing ==
    /\ tx \in {"none", "open", "failed"}
    /\ pc \in [Nodes -> Places]

EndInv == Typing /\ NoTransactionLeft

\* The steps of threads that run a single statement.
LEMMA EndOther ==
    ASSUME EndInv, UNCHANGED pc, tx' \in {"none", "failed", tx}, tx = "none" => tx' = "none"
    PROVE  EndInv'
BY DEF EndInv, Typing, NoTransactionLeft, InTransaction

LEMMA EndReplace ==
    ASSUME EndInv, NEW n \in Nodes, ReplaceStep(n)
    PROVE  EndInv'
<1>1. CASE Declare(n)
  BY <1>1 DEF Declare, Goto, EndInv, Typing, Places, NoTransactionLeft, InTransaction
<1>2. CASE Begin(n)
  <2>1. Typing'
    BY <1>2 DEF Begin, Goto, Failed, Returns, EndInv, Typing, Places
  <2>2. ASSUME Failed, Returns(n, "false") PROVE NoTransactionLeft'
    BY <1>2, <2>2 DEF Begin, Goto, Failed, Returns, EndInv, Typing, Places,
                      NoTransactionLeft, InTransaction
  <2>3. ASSUME Goto(n, "delete") PROVE NoTransactionLeft'
    <3>1. pc'[n] = "delete"
      BY <2>3 DEF Goto, EndInv, Typing
    <3> QED
      BY <3>1 DEF NoTransactionLeft, InTransaction
  <2> QED
    BY <1>2, <2>1, <2>2, <2>3 DEF Begin, EndInv
<1>3. CASE Delete(n)
  <2>1. \E place \in {"insert", "rollback"} : Goto(n, place)
    BY <1>3 DEF Delete
  <2>2. tx' \in {"none", "open", "failed"}
    BY <1>3 DEF Delete, Applied, Failed, EndInv, Typing
  <2> QED
    BY <2>1, <2>2 DEF Goto, EndInv, Typing, Places, NoTransactionLeft, InTransaction
<1>4. CASE Insert(n)
  <2>1. \E place \in {"insert", "commit", "rollback"} : Goto(n, place)
    BY <1>4 DEF Insert
  <2>2. tx' \in {"none", "open", "failed"}
    BY <1>4 DEF Insert, Applied, Failed, EndInv, Typing
  <2> QED
    BY <2>1, <2>2 DEF Goto, EndInv, Typing, Places, NoTransactionLeft, InTransaction
<1>5. CASE InsertThrows(n)
  BY <1>5 DEF InsertThrows, Goto, EndInv, Typing, Places, NoTransactionLeft, InTransaction
<1>6. CASE Commit(n)
  <2>1. tx' = "none"
    BY <1>6 DEF Commit
  <2>2. \E place \in {"idle", "rollback"} : Goto(n, place)
    BY <1>6 DEF Commit, Returns
  <2> QED
    BY <2>1, <2>2 DEF Goto, EndInv, Typing, Places, NoTransactionLeft
<1>7. CASE Rollback(n)
  BY <1>7 DEF Rollback, RolledBack, Returns, Goto, EndInv, Typing, Places, NoTransactionLeft
<1> QED
  BY <1>1, <1>2, <1>3, <1>4, <1>5, <1>6, <1>7 DEF ReplaceStep

LEMMA EndInit == Init => EndInv
BY DEF Init, EndInv, Typing, Places, NoTransactionLeft

LEMMA EndStep == EndInv /\ [Next]_vars => EndInv'
<1> SUFFICES ASSUME EndInv, [Next]_vars PROVE EndInv'
  OBVIOUS
<1>1. ASSUME NEW n \in Nodes, ReplaceStep(n) PROVE EndInv'
  BY <1>1, EndReplace
<1>2. ASSUME NEW w \in Writers, Update(w) PROVE EndInv'
  BY <1>2, EndOther DEF Update, Applied, Failed
<1>3. ASSUME NEW r \in Readers, Snapshot(r) PROVE EndInv'
  BY <1>3, EndOther DEF Snapshot, Applied, Failed
<1>4. CASE Crash
  BY <1>4 DEF Crash, EndInv, Typing, Places, NoTransactionLeft
<1>5. CASE UNCHANGED vars
  BY <1>5, EndOther DEF vars, EndInv, Typing
<1> QED
  BY <1>1, <1>2, <1>3, <1>4, <1>5 DEF Next

\* The shared connection is never left inside a transaction by replaceConnections
\* (database.cpp): every way out of it after BEGIN commits or rolls back.
THEOREM NoTransactionLeftCorrect == Spec => []NoTransactionLeft
<1>1. EndInv => NoTransactionLeft
  BY DEF EndInv
<1> QED
  BY <1>1, EndInit, EndStep, PTL DEF Spec

-----------------------------------------------------------------------------
(***************************************************************************)
(* With one node that declares its connections the transaction does what   *)
(* it is for, whatever single statements other threads run inside it.      *)
(***************************************************************************)
AnyTables == [lists : [Nodes -> [Edges -> Nat]], rows : [Writers -> Nat]]

TablesInv ==
    /\ working \in AnyTables
    /\ committed \in AnyTables
    /\ declared \in [Nodes -> Nat]
    /\ edge \in [Nodes -> Edges]
    /\ writes \in [Writers -> Nat]

\* What the transaction has done when it is at place.
Progress(n) ==
    /\ pc[n] \in {"delete", "insert", "commit"} => tx \in {"open", "failed"}
    /\ pc[n] \in {"begin", "delete"} => edge[n] = 1
    /\ pc[n] = "insert" /\ tx = "open" =>
          \A i \in Edges : i < edge[n] => working.lists[n][i] = declared[n]
    /\ pc[n] = "commit" /\ tx = "open" => working.lists[n] = Whole(n)

OnceInv ==
    /\ EndInv
    /\ TablesInv
    /\ tx = "none" => working = committed
    /\ \A n \in Nodes : Progress(n)

Step == \A n \in Nodes : committed'.lists[n] # committed.lists[n] => committed'.lists[n] = Whole(n)

LEMMA OnceInit == Init => OnceInv
<1> SUFFICES ASSUME Init PROVE OnceInv
  OBVIOUS
<1>1. EndInv
  BY EndInit
<1>2. 1 \in Edges /\ 0 \in Nat
  BY TransactionAssumption DEF Edges
<1>3. TablesInv
  BY <1>2 DEF Init, TablesInv, AnyTables, Empty, NoList
<1> QED
  BY <1>1, <1>3 DEF Init, OnceInv, Progress

\* A single statement of another thread: it changes no list, and inside a transaction it
\* is part of it.
LEMMA OnceOther ==
    ASSUME OnceInv, NEW rows \in [Writers -> Nat],
           UNCHANGED <<pc, edge, declared>>, writes' \in [Writers -> Nat],
           Applied([working EXCEPT !.rows = rows]) \/ Failed
    PROVE  OnceInv' /\ Step
<1>1. EndInv'
  BY EndOther DEF OnceInv, Applied, Failed
<1>2. CASE Applied([working EXCEPT !.rows = rows])
  <2>1. working' = [lists |-> working.lists, rows |-> rows] /\ tx' = tx
    BY <1>2 DEF Applied, OnceInv, TablesInv, AnyTables
  <2>2. committed' = IF tx = "none" THEN working' ELSE committed
    BY <1>2 DEF Applied
  <2>3. TablesInv'
    BY <2>1, <2>2 DEF OnceInv, TablesInv, AnyTables
  <2>4. \A n \in Nodes : Progress(n)'
    BY <2>1 DEF OnceInv, Progress, Whole
  <2>5. Step
    BY <2>1, <2>2 DEF OnceInv, Step
  <2> QED
    BY <1>1, <2>1, <2>2, <2>3, <2>4, <2>5 DEF OnceInv
<1>3. CASE Failed
  <2>1. working' \in {working, committed} /\ committed' = committed
    BY <1>3 DEF Failed
  <2>2. tx' # "open" /\ (tx # "none" => tx' = "failed")
    BY <1>3 DEF Failed, OnceInv, EndInv, Typing
  <2>3. tx' = "none" => working' = committed'
    BY <1>3, <2>2 DEF Failed, OnceInv
  <2>4. TablesInv'
    BY <2>1 DEF OnceInv, TablesInv
  <2>5. \A n \in Nodes : Progress(n)'
    BY <2>2 DEF OnceInv, Progress
  <2>6. Step
    BY <2>1 DEF Step
  <2> QED
    BY <1>1, <2>3, <2>4, <2>5, <2>6 DEF OnceInv
<1> QED
  BY <1>2, <1>3

\* A step of the only node: inside its transaction nothing it does is committed before
\* its COMMIT.
LEMMA OnceReplace ==
    ASSUME NEW n \in Nodes, Nodes = {n}, OnceInv, ReplaceStep(n)
    PROVE  OnceInv' /\ Step
<1>1. EndInv' /\ Progress(n)
  BY EndReplace DEF OnceInv
<1>2. (tx = "open" \/ tx = "failed") => InTransaction(n)
  BY DEF OnceInv, EndInv, NoTransactionLeft
<1> SUFFICES TablesInv' /\ (tx' = "none" => working' = committed') /\ Progress(n)' /\ Step
  BY <1>1 DEF OnceInv
<1>3. CASE Declare(n)
  <2>1. TablesInv'
    BY <1>3, TransactionAssumption DEF Declare, OnceInv, TablesInv, Edges
  <2>2. pc'[n] = "begin" /\ edge'[n] = 1
    BY <1>3 DEF Declare, Goto, OnceInv, EndInv, Typing, TablesInv
  <2> QED
    BY <1>3, <2>1, <2>2 DEF Declare, OnceInv, Progress, Step
<1>4. CASE Begin(n)
  <2>1. tx = "none"
    BY <1>2, <1>4 DEF Begin, InTransaction, OnceInv, EndInv, Typing
  <2>2. UNCHANGED <<working, committed, edge, declared, writes>> /\ edge[n] = 1
    BY <1>1, <1>4, <2>1 DEF Begin, Failed, Progress
  <2>3. (pc'[n] = "delete" /\ tx' = "open") \/ (pc'[n] = "idle" /\ tx' = "none")
    BY <1>4, <2>1 DEF Begin, Failed, Returns, Goto, OnceInv, EndInv, Typing
  <2> QED
    BY <2>1, <2>2, <2>3 DEF OnceInv, TablesInv, Progress, Step
<1>5. CASE Delete(n)
  <2>1. tx \in {"open", "failed"} /\ edge[n] = 1 /\ UNCHANGED <<edge, declared, writes>>
    BY <1>1, <1>5 DEF Delete, Progress
  <2>2. CASE Applied([working EXCEPT !.lists[n] = NoList]) /\ Goto(n, "insert")
    <3>1. working' = [lists |-> [working.lists EXCEPT ![n] = NoList], rows |-> working.rows]
      BY <2>2 DEF Applied, OnceInv, TablesInv, AnyTables
    <3>2. TablesInv' /\ committed' = committed /\ tx' = "open"
      BY <2>1, <2>2, <3>1 DEF Applied, OnceInv, TablesInv, AnyTables, NoList
    <3>3. pc'[n] = "insert"
      BY <2>2 DEF Goto, OnceInv, EndInv, Typing
    <3>4. Progress(n)'
      BY <2>1, <3>2, <3>3 DEF Progress, Edges
    <3> QED
      BY <3>2, <3>4 DEF Step
  <2>3. CASE Failed /\ Goto(n, "rollback")
    <3>1. pc'[n] = "rollback" /\ tx' = "failed" /\ working' \in {working, committed} /\ committed' = committed
      BY <2>1, <2>3 DEF Goto, Failed, OnceInv, EndInv, Typing
    <3> QED
      BY <2>1, <3>1 DEF OnceInv, TablesInv, Progress, Step
  <2> QED
    BY <1>5, <2>2, <2>3 DEF Delete
<1>6. CASE Insert(n)
  <2>1. tx \in {"open", "failed"} /\ pc[n] = "insert" /\ UNCHANGED <<declared, writes>>
    BY <1>1, <1>6 DEF Insert, Progress
  <2>2. CASE Applied([working EXCEPT !.lists[n][edge[n]] = declared[n]])
    <3>1. working' = [lists |-> [working.lists EXCEPT
                                   ![n] = [working.lists[n] EXCEPT ![edge[n]] = declared[n]]],
                      rows |-> working.rows]
      BY <2>2 DEF Applied, OnceInv, TablesInv, AnyTables
    <3>2. committed' = committed /\ tx' = "open" /\ tx = "open"
      BY <2>1, <2>2 DEF Applied
    <3>a. /\ edge' = [edge EXCEPT ![n] = IF @ = MaxEdges THEN @ ELSE @ + 1]
          /\ Goto(n, IF edge[n] = MaxEdges THEN "commit" ELSE "insert")
      BY <1>6, <2>1, <2>2, <3>2 DEF Insert, Applied, Failed
    <3>b. edge \in [Nodes -> Edges] /\ pc \in [Nodes -> Places]
      BY DEF OnceInv, EndInv, Typing, TablesInv
    <3>3. \/ edge[n] # MaxEdges /\ edge'[n] = edge[n] + 1 /\ pc'[n] = "insert"
          \/ edge[n] = MaxEdges /\ edge'[n] = edge[n] /\ pc'[n] = "commit"
      BY <3>a, <3>b DEF Goto
    <3>4. edge' \in [Nodes -> Edges]
      <4>1. edge[n] \in Edges /\ (edge[n] # MaxEdges => edge[n] + 1 \in Edges)
        BY <3>b, TransactionAssumption DEF Edges
      <4> QED
        BY <3>a, <3>b, <4>1
    <3>5. TablesInv'
      BY <2>1, <3>1, <3>2, <3>4 DEF OnceInv, TablesInv, AnyTables
    <3>6. working'.lists[n] = [working.lists[n] EXCEPT ![edge[n]] = declared[n]]
      BY <3>1 DEF OnceInv, TablesInv, AnyTables
    <3>7. \A i \in Edges : i <= edge[n] => working'.lists[n][i] = declared[n]
      <4> SUFFICES ASSUME NEW i \in Edges, i <= edge[n]
                   PROVE  working'.lists[n][i] = declared[n]
        OBVIOUS
      <4>1. working.lists[n] \in [Edges -> Nat]
        BY DEF OnceInv, TablesInv, AnyTables
      <4>2. i # edge[n] => working.lists[n][i] = declared[n]
        BY <1>1, <2>1, <3>b, <3>2 DEF Progress, Edges
      <4> QED
        BY <3>6, <4>1, <4>2
    <3>8. edge[n] = MaxEdges => working'.lists[n] = Whole(n)
      <4>1. working'.lists[n] \in [Edges -> Nat]
        BY <3>5 DEF TablesInv, AnyTables
      <4>2. edge[n] = MaxEdges => \A i \in Edges : working'.lists[n][i] = declared[n]
        BY <3>7, TransactionAssumption DEF Edges
      <4> QED
        BY <4>1, <4>2 DEF Whole
    <3>9. Progress(n)'
      BY <2>1, <3>2, <3>3, <3>7, <3>8 DEF Progress, Whole, Edges, OnceInv, TablesInv
    <3> QED
      BY <3>2, <3>5, <3>9 DEF Step
  <2>3. CASE Failed /\ Goto(n, "rollback") /\ UNCHANGED edge
    <3>1. pc'[n] = "rollback" /\ tx' = "failed" /\ working' \in {working, committed} /\ committed' = committed
      BY <2>1, <2>3 DEF Goto, Failed, OnceInv, EndInv, Typing
    <3> QED
      BY <2>1, <2>3, <3>1 DEF OnceInv, TablesInv, Progress, Step
  <2> QED
    BY <1>6, <2>2, <2>3 DEF Insert
<1>7. CASE InsertThrows(n)
  <2>1. pc'[n] = "rollback"
    BY <1>7 DEF InsertThrows, Goto, OnceInv, EndInv, Typing
  <2> QED
    BY <1>7, <2>1 DEF InsertThrows, OnceInv, TablesInv, Progress, Step
<1>8. CASE Commit(n)
  <2>1. /\ tx \in {"open", "failed"} /\ tx' = "none" /\ UNCHANGED <<declared, edge, writes>>
        /\ pc[n] = "commit" /\ pc'[n] \in {"idle", "rollback"}
    BY <1>1, <1>8 DEF Commit, Progress, Returns, Goto, OnceInv, EndInv, Typing
  <2>2. working' = committed' /\ committed' \in {working, committed}
    BY <1>8, <2>1 DEF Commit
  <2>3. tx = "failed" => committed' = committed
    BY <1>8 DEF Commit
  <2>4. Step
    BY <1>1, <2>1, <2>2, <2>3 DEF Step, Progress
  <2>5. TablesInv'
    BY <2>1, <2>2 DEF OnceInv, TablesInv
  <2> QED
    BY <2>1, <2>2, <2>4, <2>5 DEF Progress
<1>9. CASE Rollback(n)
  <2>1. pc'[n] = "idle"
    BY <1>9 DEF Rollback, Returns, Goto, OnceInv, EndInv, Typing
  <2> QED
    BY <1>9, <2>1 DEF Rollback, RolledBack, OnceInv, TablesInv, Progress, Step
<1> QED
  BY <1>3, <1>4, <1>5, <1>6, <1>7, <1>8, <1>9 DEF ReplaceStep

LEMMA OnceStep ==
    ASSUME NEW n \in Nodes, Nodes = {n}, OnceInv, [Next]_vars
    PROVE  OnceInv' /\ Step
<1>1. CASE ReplaceStep(n)
  BY <1>1, OnceReplace
<1>2. ASSUME NEW w \in Writers, Update(w) PROVE OnceInv' /\ Step
  <2> DEFINE rows == [working.rows EXCEPT ![w] = writes[w] + 1]
  <2>1. rows \in [Writers -> Nat] /\ writes' \in [Writers -> Nat]
    BY <1>2 DEF Update, OnceInv, TablesInv, AnyTables
  <2>2. [working EXCEPT !.rows[w] = writes[w] + 1] = [working EXCEPT !.rows = rows]
    BY DEF OnceInv, TablesInv, AnyTables
  <2>3. Applied([working EXCEPT !.rows = rows]) \/ Failed
    BY <1>2, <2>2 DEF Update
  <2>4. UNCHANGED <<pc, edge, declared>>
    BY <1>2 DEF Update
  <2> HIDE DEF rows
  <2> QED
    BY <2>1, <2>3, <2>4, OnceOther
<1>3. ASSUME NEW r \in Readers, Snapshot(r) PROVE OnceInv' /\ Step
  <2> DEFINE rows == working.rows
  <2>1. rows \in [Writers -> Nat] /\ writes' \in [Writers -> Nat]
    BY <1>3 DEF Snapshot, OnceInv, TablesInv, AnyTables
  <2>2. working = [working EXCEPT !.rows = rows]
    BY DEF OnceInv, TablesInv, AnyTables
  <2>3. Applied([working EXCEPT !.rows = rows]) \/ Failed
    BY <1>3, <2>2 DEF Snapshot
  <2>4. UNCHANGED <<pc, edge, declared>>
    BY <1>3 DEF Snapshot
  <2> HIDE DEF rows
  <2> QED
    BY <2>1, <2>3, <2>4, OnceOther
<1>4. CASE Crash
  <2>1. EndInv'
    BY <1>4, EndStep DEF OnceInv, Next
  <2> QED
    BY <1>4, <2>1 DEF Crash, OnceInv, TablesInv, Progress, Step
<1>5. CASE UNCHANGED vars
  <2>1. EndInv'
    BY <1>5, EndStep DEF OnceInv
  <2> QED
    BY <1>5, <2>1 DEF vars, OnceInv, TablesInv, Progress, Whole, Step
<1> QED
  BY <1>1, <1>2, <1>3, <1>4, <1>5 DEF Next

\* "Within a transaction to ensure atomicity" (database.cpp): true when only one node
\* declares its connections; the run TxTwo shows that it takes no more than two.
THEOREM ReplacedAtOnceCorrect ==
    ASSUME NEW n \in Nodes, Nodes = {n}
    PROVE  Spec => ReplacedAtOnce
<1>1. OnceInv /\ [Next]_vars => OnceInv'
  BY OnceStep
<1>2. OnceInv /\ [Next]_vars => [Step]_vars
  BY OnceStep
<1>3. Spec => [][Step]_vars
  BY <1>1, <1>2, OnceInit, PTL DEF Spec
<1> QED
  BY <1>3 DEF ReplacedAtOnce, Step

\* A call's outcome is written by the call alone.
Outcomes == result = [m \in Nodes |-> result[m]]

LEMMA OutcomesInit == Init => Outcomes
BY DEF Init, Outcomes

LEMMA OutcomesStep == Outcomes /\ [Next]_vars => Outcomes'
<1> SUFFICES ASSUME Outcomes, [Next]_vars PROVE Outcomes'
  OBVIOUS
<1>1. ASSUME NEW n \in Nodes, ReplaceStep(n) PROVE Outcomes'
  BY <1>1 DEF Outcomes, ReplaceStep, Declare, Begin, Delete, Insert, InsertThrows, Commit,
              Rollback, Returns
<1>2. ASSUME NEW w \in Writers, Update(w) PROVE Outcomes'
  BY <1>2 DEF Outcomes, Update
<1>3. ASSUME NEW r \in Readers, Snapshot(r) PROVE Outcomes'
  BY <1>3 DEF Outcomes, Snapshot
<1>4. CASE Crash \/ UNCHANGED vars
  BY <1>4 DEF Outcomes, Crash, vars
<1> QED
  BY <1>1, <1>2, <1>3, <1>4 DEF Next

Reported ==
    \A n \in Nodes :
        result[n] = "none" /\ result'[n] = "true"
            => committed'.lists[n] = Whole(n) \/ tx = "failed"

\* "true if all inserts succeeded, false on any failure" (database.hpp:168), for one node
\* that declares its connections: what is reported is stored, unless the statement of
\* another thread has failed inside the transaction.
THEOREM ReportedIsStoredCorrect ==
    ASSUME NEW n \in Nodes, Nodes = {n}
    PROVE  Spec => ReportedIsStored
<1>1. OnceInv /\ [Next]_vars => OnceInv'
  BY OnceStep
<1>2. OnceInv /\ Outcomes /\ [Next]_vars => Reported
  <2> SUFFICES ASSUME OnceInv, Outcomes, [Next]_vars,
                      result[n] = "none", result'[n] = "true", tx # "failed"
               PROVE  committed'.lists[n] = Whole(n)
    BY DEF Reported
  <2>1. Commit(n)
    <3>1. (\A r \in Readers : ~Snapshot(r)) /\ (\A w \in Writers : ~Update(w))
      BY DEF Snapshot, Update
    <3>2. ~Crash /\ ~UNCHANGED vars
      BY DEF Crash, vars
    <3>3. ReplaceStep(n)
      <4>1. \E m \in Nodes : ReplaceStep(m)
        BY <3>1, <3>2 DEF Next
      <4> QED
        BY <4>1
    <3>4. ~Declare(n) /\ ~Delete(n) /\ ~Insert(n) /\ ~InsertThrows(n)
      BY DEF Outcomes, Declare, Delete, Insert, InsertThrows
    <3>5. ~Begin(n) /\ ~Rollback(n)
      BY DEF Outcomes, Begin, Rollback, Returns
    <3> QED
      BY <3>3, <3>4, <3>5 DEF ReplaceStep
  <2>2. tx = "open" /\ working.lists[n] = Whole(n)
    BY <2>1 DEF Commit, OnceInv, Progress, EndInv, Typing
  <2>3. pc[n] = "commit" /\ (committed' = working \/ result'[n] = "false" \/ UNCHANGED result)
    BY <2>1, <2>2 DEF Commit, Outcomes, Returns
  <2> QED
    BY <2>2, <2>3
<1>3. Spec => [][Reported]_vars
  BY <1>1, <1>2, OnceInit, OutcomesInit, OutcomesStep, PTL DEF Spec
<1> QED
  BY <1>3 DEF ReportedIsStored, Reported
-----------------------------------------------------------------------------
(***************************************************************************)
(* The type invariant.                                                     *)
(***************************************************************************)
LEMMA TypeFailed ==
    ASSUME TypeOK, Failed
    PROVE  tx' \in {"none", "open", "failed"} /\ committed' \in Tables /\ working' \in Tables
           /\ faults' \in 0..MaxFaults
BY TransactionAssumption DEF Failed, TypeOK

LEMMA TypeApplied ==
    ASSUME TypeOK, NEW tables \in Tables, Applied(tables)
    PROVE  tx' \in {"none", "open", "failed"} /\ committed' \in Tables /\ working' \in Tables
           /\ faults' \in 0..MaxFaults
BY DEF Applied, TypeOK

\* What a statement makes of one list or one row.
LEMMA ListStored ==
    ASSUME NEW tables \in Tables, NEW n \in Nodes, NEW list \in [Edges -> 0..MaxDeclares]
    PROVE  [tables EXCEPT !.lists[n] = list] \in Tables
<1>1. tables.lists \in [Nodes -> [Edges -> 0..MaxDeclares]]
      /\ tables.rows \in [Writers -> 0..MaxWrites]
  BY DEF Tables, Lists
<1>2. [tables.lists EXCEPT ![n] = list] \in [Nodes -> [Edges -> 0..MaxDeclares]]
  BY <1>1
<1>3. [tables EXCEPT !.lists[n] = list]
        = [lists |-> [tables.lists EXCEPT ![n] = list], rows |-> tables.rows]
  BY DEF Tables
<1> QED
  BY <1>1, <1>2, <1>3 DEF Tables, Lists

LEMMA EdgeStored ==
    ASSUME NEW tables \in Tables, NEW n \in Nodes, NEW e \in Edges, NEW k \in 0..MaxDeclares
    PROVE  [tables EXCEPT !.lists[n][e] = k] \in Tables
<1>1. tables.lists[n] \in [Edges -> 0..MaxDeclares]
  BY DEF Tables, Lists
<1>2. [tables EXCEPT !.lists[n][e] = k] = [tables EXCEPT !.lists[n] = [tables.lists[n] EXCEPT ![e] = k]]
  BY DEF Tables, Lists
<1> QED
  BY <1>1, <1>2, ListStored

LEMMA RowStored ==
    ASSUME NEW tables \in Tables, NEW w \in Writers, NEW k \in 0..MaxWrites
    PROVE  [tables EXCEPT !.rows[w] = k] \in Tables
<1>1. tables.lists \in Lists /\ [tables.rows EXCEPT ![w] = k] \in [Writers -> 0..MaxWrites]
  BY DEF Tables
<1>2. [tables EXCEPT !.rows[w] = k]
        = [lists |-> tables.lists, rows |-> [tables.rows EXCEPT ![w] = k]]
  BY DEF Tables
<1> QED
  BY <1>1, <1>2 DEF Tables

LEMMA TypeReplace ==
    ASSUME TypeOK, NEW n \in Nodes, ReplaceStep(n)
    PROVE  TypeOK'
<1> USE TransactionAssumption
<1>1. CASE Declare(n)
  BY <1>1 DEF Declare, Goto, TypeOK, Edges
<1>2. CASE Begin(n)
  BY <1>2, TypeFailed DEF Begin, Goto, Returns, TypeOK
<1>3. CASE Delete(n)
  <2>1. NoList \in [Edges -> 0..MaxDeclares]
    BY DEF NoList
  <2>2. [working EXCEPT !.lists[n] = NoList] \in Tables
    BY <2>1, ListStored DEF TypeOK
  <2> QED
    BY <1>3, <2>2, TypeFailed, TypeApplied DEF Delete, Goto, TypeOK
<1>4. CASE Insert(n)
  <2>1. [working EXCEPT !.lists[n][edge[n]] = declared[n]] \in Tables
    BY EdgeStored DEF TypeOK
  <2>2. edge' \in [Nodes -> Edges]
    BY <1>4 DEF Insert, TypeOK, Edges
  <2>3. tx' \in {"none", "open", "failed"} /\ committed' \in Tables /\ working' \in Tables
        /\ faults' \in 0..MaxFaults
    BY <1>4, <2>1, TypeFailed, TypeApplied DEF Insert
  <2> QED
    BY <1>4, <2>2, <2>3 DEF Insert, Goto, TypeOK
<1>5. CASE InsertThrows(n)
  BY <1>5 DEF InsertThrows, Goto, TypeOK
<1>6. CASE Commit(n)
  BY <1>6 DEF Commit, Goto, Returns, TypeOK
<1>7. CASE Rollback(n)
  BY <1>7 DEF Rollback, RolledBack, Goto, Returns, TypeOK
<1> QED
  BY <1>1, <1>2, <1>3, <1>4, <1>5, <1>6, <1>7 DEF ReplaceStep

LEMMA TypeStep == TypeOK /\ [Next]_vars => TypeOK'
<1> SUFFICES ASSUME TypeOK, [Next]_vars PROVE TypeOK'
  OBVIOUS
<1> USE TransactionAssumption
<1>1. ASSUME NEW n \in Nodes, ReplaceStep(n) PROVE TypeOK'
  BY <1>1, TypeReplace
<1>2. ASSUME NEW w \in Writers, Update(w) PROVE TypeOK'
  <2>1. writes[w] + 1 \in 0..MaxWrites
    BY <1>2 DEF Update, TypeOK
  <2>2. [working EXCEPT !.rows[w] = writes[w] + 1] \in Tables
    BY <2>1, RowStored DEF TypeOK
  <2> QED
    BY <1>2, <2>1, <2>2, TypeFailed, TypeApplied DEF Update, TypeOK
<1>3. ASSUME NEW r \in Readers, Snapshot(r) PROVE TypeOK'
  <2>1. working \in Tables /\ working.lists \in Lists
    BY DEF TypeOK, Tables
  <2> QED
    BY <1>3, <2>1, TypeFailed, TypeApplied DEF Snapshot, TypeOK
<1>4. CASE Crash
  BY <1>4 DEF Crash, TypeOK
<1>5. CASE UNCHANGED vars
  BY <1>5 DEF vars, TypeOK
<1> QED
  BY <1>1, <1>2, <1>3, <1>4, <1>5 DEF Next

LEMMA TypeInit == Init => TypeOK
<1>1. Empty \in Tables
  BY TransactionAssumption DEF Empty, Tables, Lists, NoList
<1>2. Empty.lists \in Lists
  BY <1>1 DEF Tables
<1> QED
  BY <1>1, <1>2, TransactionAssumption DEF Init, TypeOK, Edges

\* The types: the tables hold what was declared and written, and the loop over a list
\* stays inside it.
THEOREM TypeCorrect == Spec => []TypeOK
BY TypeInit, TypeStep, PTL DEF Spec

-----------------------------------------------------------------------------
(***************************************************************************)
(* What a snapshot reads, and what becomes of a successful statement.      *)
(***************************************************************************)
Uniform(list) == \E k \in 0..MaxDeclares : list = [i \in Edges |-> k]

Reads ==
    \A n \in Nodes :
        view'[n] # view[n] =>
            InTransaction(n) \/ \E k \in 0..MaxDeclares : view'[n] = [i \in Edges |-> k]

\* The routing graph is built from whole lists (database.cpp:534), for one node that
\* declares its connections: outside its call the snapshot reads what is committed.
THEOREM SnapshotIsWholeCorrect ==
    ASSUME NEW n \in Nodes, Nodes = {n}
    PROVE  Spec => SnapshotIsWhole
<1> DEFINE Stored == Uniform(committed.lists[n])
           Inv == TypeOK /\ OnceInv /\ Stored
<1>1. Init => Inv
  <2> SUFFICES ASSUME Init PROVE Inv
    OBVIOUS
  <2>1. TypeOK /\ OnceInv
    BY TypeInit, OnceInit
  <2>2. committed.lists[n] = [i \in Edges |-> 0]
    BY DEF Init, Empty, NoList
  <2> QED
    BY <2>1, <2>2, TransactionAssumption DEF Uniform
<1>2. Inv /\ [Next]_vars => Inv'
  <2> SUFFICES ASSUME Inv, [Next]_vars PROVE Inv'
    OBVIOUS
  <2>1. TypeOK' /\ OnceInv' /\ Step
    BY TypeStep, OnceStep
  <2>2. Whole(n) = [i \in Edges |-> declared[n]] /\ declared[n] \in 0..MaxDeclares
    BY DEF Whole, TypeOK
  <2>3. committed'.lists[n] = committed.lists[n] \/ committed'.lists[n] = Whole(n)
    BY <2>1 DEF Step
  <2> QED
    BY <2>1, <2>2, <2>3 DEF Uniform
<1>3. Inv /\ [Next]_vars => [Reads]_vars
  <2> SUFFICES ASSUME Inv, [Next]_vars, view'[n] # view[n], ~InTransaction(n)
               PROVE  Uniform(view'[n])
    BY DEF Uniform, Reads
  <2>1. view' # view
    OBVIOUS
  <2>2. \A m \in Nodes : ~ReplaceStep(m)
    BY <2>1 DEF ReplaceStep, Declare, Begin, Delete, Insert, InsertThrows, Commit, Rollback
  <2>3. ~Crash /\ ~UNCHANGED vars /\ \A w \in Writers : ~Update(w)
    BY <2>1 DEF Crash, vars, Update
  <2>4. PICK r \in Readers : Snapshot(r)
    BY <2>2, <2>3 DEF Next
  <2>5. view' = working.lists
    BY <2>1, <2>4 DEF Snapshot
  <2>6. tx = "none"
    BY DEF OnceInv, EndInv, NoTransactionLeft
  <2> QED
    BY <2>5, <2>6 DEF OnceInv
<1> HIDE DEF Inv
<1>4. Spec => [][Reads]_vars
  BY <1>1, <1>2, <1>3, PTL DEF Spec
<1> QED
  BY <1>4 DEF SnapshotIsWhole, Reads

\* Outside an open transaction this connection sees what everybody sees.
SeesCommitted == tx # "open" => working = committed

\* Only a transaction can take an update back.
Survives ==
    \A w \in Writers :
        acked[w] = working.rows[w] /\ tx # "open" => acked'[w] = working'.rows[w]

\* What a step makes of the tables: they are given, taken back, or committed.
LEMMA Unfinished ==
    ASSUME TypeOK, SeesCommitted, Failed \/ RolledBack
    PROVE  SeesCommitted' /\ (tx # "open" => working' = working)
BY DEF Failed, RolledBack, SeesCommitted, TypeOK

LEMMA SurvivesReplace ==
    ASSUME TypeOK, SeesCommitted, NEW n \in Nodes, ReplaceStep(n)
    PROVE  SeesCommitted' /\ (tx # "open" => working'.rows = working.rows) /\ acked' = acked
<1>0. acked' = acked
  BY DEF ReplaceStep, Declare, Begin, Delete, Insert, InsertThrows, Commit, Rollback
<1>1. ASSUME NEW list, Applied([working EXCEPT !.lists[n] = list])
      PROVE  SeesCommitted' /\ working'.rows = working.rows
  BY <1>1 DEF Applied, SeesCommitted, TypeOK, Tables
<1>2. ASSUME NEW i, NEW k, Applied([working EXCEPT !.lists[n][i] = k])
      PROVE  SeesCommitted' /\ working'.rows = working.rows
  BY <1>2 DEF Applied, SeesCommitted, TypeOK, Tables
<1>3. CASE Declare(n) \/ InsertThrows(n)
  BY <1>0, <1>3 DEF Declare, InsertThrows, SeesCommitted
<1>4. CASE Begin(n)
  BY <1>0, <1>4, Unfinished DEF Begin, SeesCommitted
<1>5. CASE Delete(n)
  BY <1>0, <1>1, <1>5, Unfinished DEF Delete
<1>6. CASE Insert(n)
  BY <1>0, <1>2, <1>6, Unfinished DEF Insert
<1>7. CASE Commit(n)
  BY <1>0, <1>7 DEF Commit, SeesCommitted, TypeOK
<1>8. CASE Rollback(n)
  BY <1>0, <1>8, Unfinished DEF Rollback
<1> QED
  BY <1>3, <1>4, <1>5, <1>6, <1>7, <1>8 DEF ReplaceStep

LEMMA SurvivesUpdate ==
    ASSUME TypeOK, SeesCommitted, NEW w \in Writers, Update(w)
    PROVE  SeesCommitted' /\ Survives
<1>1. CASE Failed /\ UNCHANGED acked
  BY <1>1, Unfinished DEF Survives
<1>2. CASE Applied([working EXCEPT !.rows[w] = writes[w] + 1])
           /\ acked' = [acked EXCEPT ![w] = writes[w] + 1]
  <2>1. working'.rows = [working.rows EXCEPT ![w] = writes[w] + 1]
    BY <1>2 DEF Applied, TypeOK, Tables
  <2>2. tx' = tx /\ committed' = IF tx = "none" THEN working' ELSE committed
    BY <1>2 DEF Applied
  <2>3. tx \in {"none", "open"}
    BY <1>2 DEF Applied, TypeOK
  <2>4. SeesCommitted'
    BY <2>2, <2>3 DEF SeesCommitted
  <2>5. working.rows \in [Writers -> 0..MaxWrites] /\ acked \in [Writers -> 0..MaxWrites]
    BY DEF TypeOK, Tables
  <2> QED
    BY <1>2, <2>1, <2>4, <2>5 DEF Survives
<1> QED
  BY <1>1, <1>2 DEF Update

\* "True if the operation was successful" (database.hpp:102): an update that was reported
\* successful is lost only while a call of replaceConnections is on its way, since every
\* path out of the call ends its transaction, for any threads, faults and crashes.
THEOREM AcknowledgedSurvivesCorrect == Spec => AcknowledgedSurvives
<1>1. Init => TypeOK /\ SeesCommitted
  BY TypeInit DEF Init, SeesCommitted
<1>2. TypeOK /\ SeesCommitted /\ [Next]_vars => SeesCommitted' /\ Survives
  <2> SUFFICES ASSUME TypeOK, SeesCommitted, [Next]_vars PROVE SeesCommitted' /\ Survives
    OBVIOUS
  <2>1. ASSUME NEW n \in Nodes, ReplaceStep(n) PROVE SeesCommitted' /\ Survives
    BY <2>1, SurvivesReplace DEF Survives
  <2>2. ASSUME NEW w \in Writers, Update(w) PROVE SeesCommitted' /\ Survives
    BY <2>2, SurvivesUpdate
  <2>3. ASSUME NEW r \in Readers, Snapshot(r) PROVE SeesCommitted' /\ Survives
    <3>1. acked' = acked
      BY <2>3 DEF Snapshot
    <3>2. CASE Applied(working)
      BY <3>1, <3>2 DEF Applied, SeesCommitted, Survives
    <3>3. CASE Failed
      BY <3>1, <3>3, Unfinished DEF Survives
    <3> QED
      BY <2>3, <3>2, <3>3 DEF Snapshot
  <2>4. CASE Crash
    BY <2>4 DEF Crash, SeesCommitted, Survives
  <2>5. CASE UNCHANGED vars
    BY <2>5 DEF vars, SeesCommitted, Survives
  <2> QED
    BY <2>1, <2>2, <2>3, <2>4, <2>5 DEF Next
<1>3. TypeOK /\ SeesCommitted /\ [Next]_vars => (TypeOK /\ SeesCommitted)'
  BY <1>2, TypeStep
<1>4. TypeOK /\ SeesCommitted /\ [Next]_vars => [Survives]_vars
  BY <1>2
<1> DEFINE LostInCall ==
      \A w \in Writers :
          acked[w] = working.rows[w] /\ acked'[w] # working'.rows[w]
              => \E n \in Nodes : InTransaction(n)
<1>5. NoTransactionLeft /\ [Survives]_vars => [LostInCall]_vars
  <2> SUFFICES ASSUME NoTransactionLeft, [Survives]_vars, NEW w \in Writers,
                      acked[w] = working.rows[w], acked'[w] # working'.rows[w]
               PROVE  \E n \in Nodes : InTransaction(n)
    OBVIOUS
  <2>1. Survives
    BY DEF vars
  <2>2. tx = "open"
    BY <2>1 DEF Survives
  <2> QED
    BY <2>2 DEF NoTransactionLeft
<1> HIDE DEF LostInCall
<1>6. Spec => [][LostInCall]_vars
  BY <1>1, <1>3, <1>4, <1>5, NoTransactionLeftCorrect, PTL DEF Spec
<1> QED
  BY <1>6 DEF AcknowledgedSurvives, LostInCall
=============================================================================
