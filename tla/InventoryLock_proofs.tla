------------------------- MODULE InventoryLock_proofs -------------------------
(***************************************************************************)
(* Proofs about the lock of the warehouse inventory: for any number of     *)
(* programs, sets and deaths, the critical section is exclusive and the    *)
(* lock is lost only with a thread that died or was canceled inside.       *)
(***************************************************************************)
EXTENDS InventoryLock, TLAPS

\* A program that works with a set has the identifier of one that was created; it
\* only enters the critical section once its semaphore is initialized.
KnownSets ==
    /\ key \in 0..sets
    /\ \A p \in Programs : semid[p] \in 0..sets
    /\ \A p \in Programs : prog[p] \notin {"down", "attach"} => semid[p] # 0

\* Which threads may be near the critical section at each stage of the main function.
Phases ==
    \A p \in Programs :
        /\ prog[p] \notin {"first", "run"} => pc[p]["main"] \in {"gone", "out"}
        /\ prog[p] \notin {"spawnUpdater", "run", "joinListener"}
              => pc[p]["listener"] = "gone"
        /\ prog[p] \notin {"run", "joinListener", "joinUpdater"}
              => pc[p]["updater"] = "gone"

\* Until its creator has set it, a semaphore has one creator and no holder.
OneCreator ==
    \A p, q \in Programs :
        prog[p] = "setval" /\ semid[p] = semid[q] =>
            /\ prog[q] = "setval" => p = q
            /\ semid[p] = key => sem = 0
            /\ \A t \in Threads : ~Inside(q, t)

\* No two threads hold one set.
OneHolder ==
    \A p, q \in Programs : \A t, u \in Threads :
        Inside(p, t) /\ Inside(q, u) /\ semid[p] = semid[q] => p = q /\ t = u

LockInv ==
    TypeOK /\ KnownSets /\ Phases /\ OneCreator /\ SemaphoreBinary /\ OneHolder /\ LockNotLost

-----------------------------------------------------------------------------
PcType == pc \in [Programs -> [Threads -> {"gone", "out", "wait", "in"}]]

ProgType == prog \in [Programs -> ProgState]

\* A program that ends keeps the types of its state.
LEMMA ExitType ==
    ASSUME PcType, ProgType, NEW p \in Programs, Exited(p)
    PROVE  PcType' /\ ProgType'
  BY DEF PcType, ProgType, Exited, AllGone, ProgState

\* So does a thread that moves.
LEMMA MoveType ==
    ASSUME PcType, NEW p \in Programs, NEW t \in Threads,
           NEW s \in {"gone", "out", "wait", "in"}, pc' = [pc EXCEPT ![p][t] = s]
    PROVE  PcType'
  BY DEF PcType

\* The type invariant is inductive.
LEMMA InitStepType ==
    ASSUME TypeOK, NEW p \in Programs, InitStep(p)
    PROVE  TypeOK'
<1> USE LockAssumption
<1>1. PcType /\ ProgType
  BY DEF TypeOK, PcType, ProgType
<1>2. CASE Create(p)
  BY <1>2 DEF Create, Threading, TypeOK, ProgState
<1>3. CASE FindsSet(p)
  BY <1>3 DEF FindsSet, Threading, TypeOK, ProgState
<1>4. CASE Attach(p)
  <2>1. CASE key # 0
    BY <1>4, <2>1 DEF Attach, TypeOK, ProgState
  <2>2. CASE key = 0
    <3>1. Exited(p) /\ UNCHANGED <<key, sem, sets, semid, abandoned, deaths>>
      BY <1>4, <2>2 DEF Attach
    <3>2. PcType' /\ ProgType'
      BY <1>1, <3>1, ExitType
    <3> QED
      BY <3>1, <3>2 DEF TypeOK, PcType, ProgType
  <2> QED
    BY <2>1, <2>2
<1>5. CASE SetVal(p)
  <2>1. CASE semid[p] = key
    BY <1>5, <2>1 DEF SetVal, TypeOK, ProgState
  <2>2. CASE semid[p] # key
    <3>1. Exited(p) /\ UNCHANGED <<key, sem, sets, semid, abandoned, deaths>>
      BY <1>5, <2>2 DEF SetVal
    <3>2. PcType' /\ ProgType'
      BY <1>1, <3>1, ExitType
    <3> QED
      BY <3>1, <3>2 DEF TypeOK, PcType, ProgType
  <2> QED
    BY <2>1, <2>2
<1> QED
  BY <1>2, <1>3, <1>4, <1>5 DEF InitStep

LEMMA MainStepType ==
    ASSUME TypeOK, NEW p \in Programs,
           MainStep(p) \/ Disconnect(p) \/ ListenerEnds(p) \/ Die(p)
    PROVE  TypeOK'
<1> USE LockAssumption
<1>1. PcType /\ ProgType
  BY DEF TypeOK, PcType, ProgType
<1>2. "listener" \in Threads /\ "updater" \in Threads
  BY DEF Threads
<1>3. ASSUME NEW ok \in BOOLEAN, StartListener(p, ok) PROVE TypeOK'
  <2>1. PcType' /\ ProgType'
    <3>1. CASE ok
      <4>1. PcType'
        BY <1>1, <1>2, <1>3, <3>1, MoveType DEF StartListener
      <4>2. ProgType'
        BY <1>1, <1>3, <3>1 DEF StartListener, ProgType, ProgState
      <4> QED
        BY <4>1, <4>2
    <3>2. CASE ~ok
      BY <1>1, <1>3, <3>2, ExitType DEF StartListener
    <3> QED
      BY <3>1, <3>2
  <2> QED
    BY <1>3, <2>1 DEF StartListener, TypeOK, PcType, ProgType
<1>4. ASSUME NEW ok \in BOOLEAN, StartUpdater(p, ok) PROVE TypeOK'
  <2>1. PcType'
    <3>1. CASE ok
      BY <1>1, <1>2, <1>4, <3>1, MoveType DEF StartUpdater
    <3>2. CASE ~ok
      BY <1>1, <1>4, <3>2 DEF StartUpdater, PcType
    <3> QED
      BY <3>1, <3>2
  <2>2. prog' \in [Programs -> ProgState]
    BY <1>4 DEF StartUpdater, TypeOK, ProgState
  <2> QED
    BY <1>4, <2>1, <2>2 DEF StartUpdater, TypeOK, PcType
<1>5. CASE JoinListener(p) \/ JoinUpdater(p) \/ Disconnect(p)
  BY <1>5 DEF JoinListener, JoinUpdater, Disconnect, TypeOK, ProgState
<1>6. CASE FreeInventory(p)
  BY <1>6 DEF FreeInventory, TypeOK, ProgState
<1>7. CASE MainReturns(p)
  <2>1. PcType' /\ ProgType'
    BY <1>1, <1>7, ExitType DEF MainReturns
  <2> QED
    BY <1>7, <2>1 DEF MainReturns, TypeOK, PcType, ProgType
<1>8. CASE ListenerEnds(p)
  <2>1. PcType'
    BY <1>1, <1>2, <1>8, MoveType DEF ListenerEnds
  <2> QED
    BY <1>8, <2>1 DEF ListenerEnds, TypeOK, PcType
<1>9. CASE Die(p)
  <2>1. PcType' /\ ProgType'
    BY <1>1, <1>9, ExitType DEF Die
  <2>2. abandoned' \subseteq 0..MaxSets
    BY <1>9 DEF Die, TypeOK
  <2> QED
    BY <1>9, <2>1, <2>2 DEF Die, TypeOK, PcType, ProgType
<1> QED
  BY <1>3, <1>4, <1>5, <1>6, <1>7, <1>8, <1>9 DEF MainStep

LEMMA ThreadStepType ==
    ASSUME TypeOK, NEW p \in Programs, NEW t \in Threads,
           LockStep(p, t) \/ Canceled(p, t)
    PROVE  TypeOK'
<1> USE LockAssumption
<1>1. PcType /\ ProgType
  BY DEF TypeOK, PcType, ProgType
<1>2. CASE WantLock(p, t)
  <2>1. PcType'
    BY <1>1, <1>2, MoveType DEF WantLock
  <2> QED
    BY <1>2, <2>1 DEF WantLock, TypeOK, PcType
<1>3. CASE Acquire(p, t)
  <2>1. PcType'
    BY <1>1, <1>3, MoveType DEF Acquire
  <2>2. sem' \in Nat
    BY <1>3 DEF Acquire, LockFree, TypeOK
  <2> QED
    BY <1>3, <2>1, <2>2 DEF Acquire, TypeOK, PcType
<1>4. CASE Release(p, t)
  <2>1. PcType'
    BY <1>1, <1>4, MoveType DEF Release
  <2>2. prog' \in [Programs -> ProgState]
    BY <1>4 DEF Release, TypeOK, ProgState
  <2> QED
    BY <1>4, <2>1, <2>2 DEF Release, Unlocked, TypeOK, PcType
<1>5. CASE SemopFails(p, t)
  <2>1. PcType' /\ ProgType'
    BY <1>1, <1>5, ExitType DEF SemopFails
  <2> QED
    BY <1>5, <2>1 DEF SemopFails, TypeOK, PcType, ProgType
<1>6. CASE Canceled(p, t)
  <2>1. PcType'
    BY <1>1, <1>6, MoveType DEF Canceled
  <2>2. abandoned' \subseteq 0..MaxSets
    BY <1>6 DEF Canceled, TypeOK
  <2> QED
    BY <1>6, <2>1, <2>2 DEF Canceled, TypeOK, PcType
<1> QED
  BY <1>2, <1>3, <1>4, <1>5, <1>6 DEF LockStep

-----------------------------------------------------------------------------
\* Outside the stages in which a program works with its set nobody is inside.
LEMMA NobodyInside ==
    ASSUME Phases, NEW p \in Programs, NEW t \in Threads, Inside(p, t)
    PROVE  prog[p] \in {"first", "spawnUpdater", "run", "joinListener", "joinUpdater"}
<1>1. t = "main" \/ t = "listener" \/ t = "updater"
  BY DEF Threads
<1> QED
  BY <1>1 DEF Phases, Inside

\* A step that lets nobody in and leaves the sets alone keeps the lock exclusive.
LEMMA Quiet ==
    ASSUME KnownSets, Phases, OneCreator, SemaphoreBinary, OneHolder,
           key' \in {key, 0}, UNCHANGED <<sem, semid>>,
           \A q \in Programs, u \in Threads : Inside(q, u)' => Inside(q, u),
           \A q \in Programs : prog'[q] = "setval" => prog[q] = "setval"
    PROVE  OneCreator' /\ SemaphoreBinary' /\ OneHolder'
<1>1. OneCreator'
  BY DEF OneCreator, KnownSets
<1>2. SemaphoreBinary'
  <2> SUFFICES ASSUME NEW q \in Programs, NEW u \in Threads, Inside(q, u)',
                      semid[q] = key'
               PROVE  sem = 0
    BY DEF SemaphoreBinary
  <2>1. Inside(q, u)
    OBVIOUS
  <2>2. semid[q] # 0
    BY <2>1, NobodyInside DEF KnownSets
  <2> QED
    BY <2>1, <2>2 DEF SemaphoreBinary
<1>3. OneHolder'
  BY DEF OneHolder
<1> QED
  BY <1>1, <1>2, <1>3

\* While the same threads are inside and the same programs create sets, the lock
\* is not lost.
LEMMA KeepsHolders ==
    ASSUME LockNotLost, UNCHANGED <<key, sem, semid>>, abandoned \subseteq abandoned',
           \A q \in Programs, u \in Threads :
               Inside(q, u) /\ semid[q] = key /\ key \notin abandoned' => Inside(q, u)',
           \A q \in Programs :
               prog[q] = "setval" /\ semid[q] = key /\ key \notin abandoned'
                  => prog'[q] = "setval"
    PROVE  LockNotLost'
  BY DEF LockNotLost

\* Who is inside, and who is creating a set, after a program ends.
LEMMA ExitInside ==
    ASSUME PcType, ProgType, NEW p \in Programs, Exited(p)
    PROVE  /\ \A q \in Programs, u \in Threads : Inside(q, u)' <=> q # p /\ Inside(q, u)
           /\ \A q \in Programs : prog'[q] = IF q = p THEN "down" ELSE prog[q]
           /\ \A q \in Programs, u \in Threads :
                 pc'[q][u] = IF q = p THEN "gone" ELSE pc[q][u]
  BY DEF PcType, ProgType, Exited, AllGone, Inside

\* A program that ends outside the registered set, or with nobody inside it, keeps
\* the invariant.
LEMMA ExitKeeps ==
    ASSUME LockInv, NEW p \in Programs, Exited(p),
           UNCHANGED <<key, sem, sets, semid>>, abandoned \subseteq abandoned',
           semid[p] # key \/ key \in abandoned'
             \/ (prog[p] # "setval" /\ \A u \in Threads : ~Inside(p, u))
    PROVE  /\ KnownSets' /\ Phases' /\ OneCreator' /\ SemaphoreBinary' /\ OneHolder'
           /\ LockNotLost'
<1>1. PcType /\ ProgType
  BY DEF LockInv, TypeOK, PcType, ProgType
<1>2. /\ \A q \in Programs, u \in Threads : Inside(q, u)' <=> q # p /\ Inside(q, u)
      /\ \A q \in Programs : prog'[q] = IF q = p THEN "down" ELSE prog[q]
      /\ \A q \in Programs, u \in Threads :
            pc'[q][u] = IF q = p THEN "gone" ELSE pc[q][u]
  BY <1>1, ExitInside
<1>3. KnownSets'
  BY <1>2 DEF LockInv, KnownSets
<1>4. Phases'
  BY <1>2 DEF LockInv, Phases, Threads
<1>5. OneCreator' /\ SemaphoreBinary' /\ OneHolder'
  BY <1>2, Quiet DEF LockInv
<1>6. LockNotLost'
  BY <1>2, KeepsHolders DEF LockInv
<1> QED
  BY <1>3, <1>4, <1>5, <1>6

\* The system calls of init_semaphore.
LEMMA InitStepLock ==
    ASSUME LockInv, NEW p \in Programs, InitStep(p)
    PROVE  /\ KnownSets' /\ Phases' /\ OneCreator' /\ SemaphoreBinary' /\ OneHolder'
           /\ LockNotLost'
<1> USE LockAssumption
<1>1. PcType /\ ProgType /\ semid \in [Programs -> 0..MaxSets] /\ sets \in Nat
  BY DEF LockInv, TypeOK, PcType, ProgType
<1>2. CASE Create(p)
  <2>1. \A q \in Programs, u \in Threads : Inside(q, u)' => q # p /\ Inside(q, u)
    BY <1>1, <1>2 DEF Create, Threading, Inside, PcType
  <2>2. \A q \in Programs : q # p => prog'[q] = prog[q] /\ semid'[q] = semid[q]
    BY <1>1, <1>2 DEF Create, ProgType
  <2>3. prog'[p] = "setval" /\ semid'[p] = sets + 1 /\ key' = sets + 1 /\ sem' = 0
    BY <1>1, <1>2 DEF Create, ProgType
  <2>4. \A q \in Programs : semid[q] # sets + 1
    BY <1>1 DEF LockInv, KnownSets
  <2>5. KnownSets'
    BY <1>1, <1>2, <2>2, <2>3 DEF Create, LockInv, KnownSets
  <2>6. Phases'
    <3>1. pc'[p]["main"] = "out" /\ pc'[p]["listener"] = "gone" /\ pc'[p]["updater"] = "gone"
      BY <1>1, <1>2 DEF Create, Threading, PcType, Threads
    <3>2. \A q \in Programs : q # p => pc'[q] = pc[q]
      BY <1>1, <1>2 DEF Create, Threading, PcType
    <3> QED
      BY <2>2, <2>3, <3>1, <3>2 DEF LockInv, Phases
  <2>7. OneCreator'
    BY <2>1, <2>2, <2>3, <2>4 DEF LockInv, OneCreator
  <2>8. SemaphoreBinary'
    BY <2>3 DEF SemaphoreBinary
  <2>9. OneHolder'
    BY <2>1, <2>2 DEF LockInv, OneHolder
  <2>10. LockNotLost'
    BY <2>3 DEF LockNotLost
  <2> QED
    BY <2>5, <2>6, <2>7, <2>8, <2>9, <2>10
<1>3. CASE FindsSet(p)
  <2>1. \A q \in Programs, u \in Threads :
           pc'[q][u] = IF q = p THEN (IF u = "main" THEN "out" ELSE "gone") ELSE pc[q][u]
    BY <1>1, <1>3 DEF FindsSet, Threading, PcType
  <2>2. \A q \in Programs : prog'[q] = IF q = p THEN "attach" ELSE prog[q]
    BY <1>1, <1>3 DEF FindsSet, ProgType
  <2>3. \A u \in Threads : ~Inside(p, u)
    BY <1>3, NobodyInside DEF FindsSet, LockInv
  <2>4. \A q \in Programs, u \in Threads : Inside(q, u)' <=> Inside(q, u)
    BY <2>1, <2>3 DEF Inside
  <2>5. KnownSets'
    BY <1>3, <2>2 DEF FindsSet, LockInv, KnownSets
  <2>6. Phases'
    BY <2>1, <2>2 DEF LockInv, Phases, Threads
  <2>7. OneCreator' /\ SemaphoreBinary' /\ OneHolder'
    BY <1>3, <2>2, <2>4, Quiet DEF FindsSet, LockInv
  <2>8. LockNotLost'
    BY <1>3, <2>2, <2>4, KeepsHolders DEF FindsSet, LockInv
  <2> QED
    BY <2>5, <2>6, <2>7, <2>8
<1>4. CASE Attach(p)
  <2>1. CASE key # 0
    <3>1. \A q \in Programs : prog'[q] = IF q = p THEN "first" ELSE prog[q]
      BY <1>1, <1>4, <2>1 DEF Attach, ProgType
    <3>2. \A q \in Programs : semid'[q] = IF q = p THEN key ELSE semid[q]
      BY <1>1, <1>4, <2>1 DEF Attach
    <3>3. UNCHANGED <<key, sem, sets, pc, abandoned>> /\ prog[p] = "attach"
      BY <1>4, <2>1 DEF Attach
    <3>4. \A u \in Threads : ~Inside(p, u)
      BY <3>3, NobodyInside DEF LockInv
    <3>5. KnownSets'
      BY <2>1, <3>1, <3>2, <3>3 DEF LockInv, KnownSets
    <3>6. Phases'
      BY <3>1, <3>3 DEF LockInv, Phases
    <3>7. \A q \in Programs, u \in Threads : Inside(q, u)' <=> Inside(q, u)
      BY <3>3 DEF Inside
    <3>8. OneCreator'
      <4>1. ASSUME NEW q \in Programs, NEW r \in Programs,
                   prog'[q] = "setval", semid'[q] = semid'[r]
            PROVE  /\ prog'[r] = "setval" => q = r
                   /\ semid'[q] = key' => sem' = 0
                   /\ \A t \in Threads : ~Inside(r, t)'
        <5>1. q # p /\ prog[q] = "setval" /\ semid[q] = semid'[q]
          BY <4>1, <3>1, <3>2
        <5>2. semid[q] = key => sem = 0
          BY <5>1 DEF LockInv, OneCreator
        <5>3. CASE r = p
          BY <3>1, <3>3, <3>4, <3>7, <5>1, <5>2, <5>3
        <5>4. CASE r # p
          BY <3>1, <3>2, <3>3, <3>7, <4>1, <5>1, <5>4 DEF LockInv, OneCreator
        <5> QED
          BY <5>3, <5>4
      <4> QED
        BY <4>1 DEF OneCreator
    <3>9. SemaphoreBinary'
      BY <3>2, <3>3, <3>4, <3>7 DEF LockInv, SemaphoreBinary
    <3>10. OneHolder'
      BY <3>2, <3>4, <3>7 DEF LockInv, OneHolder
    <3>11. LockNotLost'
      BY <3>1, <3>2, <3>3, <3>4, <3>7 DEF LockInv, LockNotLost
    <3> QED
      BY <3>5, <3>6, <3>8, <3>9, <3>10, <3>11
  <2>2. CASE key = 0
    <3>1. /\ Exited(p) /\ UNCHANGED <<key, sem, sets, semid, abandoned>>
          /\ prog[p] = "attach"
      BY <1>4, <2>2 DEF Attach
    <3>2. \A u \in Threads : ~Inside(p, u)
      BY <3>1, NobodyInside DEF LockInv
    <3> QED
      BY <3>1, <3>2, ExitKeeps
  <2> QED
    BY <2>1, <2>2
<1>5. CASE SetVal(p)
  <2>1. CASE semid[p] = key
    <3>1. \A q \in Programs : prog'[q] = IF q = p THEN "first" ELSE prog[q]
      BY <1>1, <1>5, <2>1 DEF SetVal, ProgType
    <3>2. /\ UNCHANGED <<key, sets, semid, pc, abandoned>> /\ sem' = 1
          /\ prog[p] = "setval"
      BY <1>5, <2>1 DEF SetVal
    <3>3. \A q \in Programs, u \in Threads : Inside(q, u)' <=> Inside(q, u)
      BY <3>2 DEF Inside
    <3>4. KnownSets'
      BY <3>1, <3>2 DEF LockInv, KnownSets
    <3>5. Phases'
      BY <3>1, <3>2 DEF LockInv, Phases
    <3>6. OneCreator'
      BY <2>1, <3>1, <3>2, <3>3 DEF LockInv, OneCreator
    <3>7. SemaphoreBinary'
      BY <2>1, <3>2, <3>3 DEF LockInv, OneCreator, SemaphoreBinary
    <3>8. OneHolder'
      BY <3>2, <3>3 DEF LockInv, OneHolder
    <3>9. LockNotLost'
      BY <3>2 DEF LockNotLost
    <3> QED
      BY <3>4, <3>5, <3>6, <3>7, <3>8, <3>9
  <2>2. CASE semid[p] # key
    <3>1. Exited(p) /\ UNCHANGED <<key, sem, sets, semid, abandoned>>
      BY <1>5, <2>2 DEF SetVal
    <3> QED
      BY <2>2, <3>1, ExitKeeps
  <2> QED
    BY <2>1, <2>2
<1> QED
  BY <1>2, <1>3, <1>4, <1>5 DEF InitStep

\* A step of the main function that touches neither the semaphore nor who is inside.
LEMMA MainKeeps ==
    ASSUME LockInv, NEW p \in Programs, Phases',
           key' \in {key, 0}, UNCHANGED <<sem, sets, semid, abandoned>>,
           \A q \in Programs, u \in Threads : Inside(q, u)' <=> Inside(q, u),
           prog[p] \notin {"down", "attach", "setval"},
           prog'[p] \notin {"down", "attach", "setval"},
           \A q \in Programs : q # p => prog'[q] = prog[q]
    PROVE  /\ KnownSets' /\ OneCreator' /\ SemaphoreBinary' /\ OneHolder'
           /\ LockNotLost'
<1>1. KnownSets'
  BY DEF LockInv, KnownSets, TypeOK
<1>2. OneCreator' /\ SemaphoreBinary' /\ OneHolder'
  BY Quiet DEF LockInv
<1>3. LockNotLost'
  <2>1. CASE key' = key
    BY <2>1, KeepsHolders DEF LockInv
  <2>2. CASE key' = 0
    BY <2>2 DEF LockNotLost
  <2> QED
    BY <2>1, <2>2
<1> QED
  BY <1>1, <1>2, <1>3

\* The stages of the main function.
LEMMA MainStepLock ==
    ASSUME LockInv, NEW p \in Programs,
           MainStep(p) \/ Disconnect(p) \/ ListenerEnds(p) \/ Die(p)
    PROVE  /\ KnownSets' /\ Phases' /\ OneCreator' /\ SemaphoreBinary' /\ OneHolder'
           /\ LockNotLost'
<1>1. PcType /\ ProgType
  BY DEF LockInv, TypeOK, PcType, ProgType
<1>2. "listener" \in Threads /\ "updater" \in Threads /\ "main" \in Threads
  BY DEF Threads
<1>3. ASSUME StartListener(p, TRUE)
      PROVE  /\ KnownSets' /\ Phases' /\ OneCreator' /\ SemaphoreBinary' /\ OneHolder'
             /\ LockNotLost'
  <2>1. \A q \in Programs, u \in Threads :
           pc'[q][u] = IF q = p /\ u = "listener" THEN "out" ELSE pc[q][u]
    BY <1>1, <1>2, <1>3 DEF StartListener, PcType
  <2>0. \A q \in Programs, u \in Threads :
           Inside(q, u)' <=> IF q = p /\ u = "listener" THEN FALSE ELSE Inside(q, u)
    BY <2>1 DEF Inside
  <2>2. \A q \in Programs : prog'[q] = IF q = p THEN "spawnUpdater" ELSE prog[q]
    BY <1>1, <1>3 DEF StartListener, ProgType
  <2>3. prog[p] = "spawn" /\ UNCHANGED <<key, sem, sets, semid, abandoned>>
    BY <1>3 DEF StartListener
  <2>4. Phases'
    BY <1>2, <2>0, <2>1, <2>2, <2>3 DEF LockInv, Phases
  <2>5. \A q \in Programs, u \in Threads : Inside(q, u)' <=> Inside(q, u)
    BY <2>0, <2>1, <2>3, NobodyInside DEF LockInv
  <2> QED
    BY <2>2, <2>3, <2>4, <2>5, MainKeeps
<1>4. ASSUME NEW ok \in BOOLEAN, StartUpdater(p, ok)
      PROVE  /\ KnownSets' /\ Phases' /\ OneCreator' /\ SemaphoreBinary' /\ OneHolder'
             /\ LockNotLost'
  <2>1. prog[p] = "spawnUpdater" /\ UNCHANGED <<key, sem, sets, semid, abandoned>>
    BY <1>4 DEF StartUpdater
  <2>2. pc[p]["updater"] = "gone"
    BY <2>1 DEF LockInv, Phases
  <2>3. /\ \A q \in Programs, u \in Threads :
             (q = p /\ u = "updater") \/ pc'[q][u] = pc[q][u]
        /\ pc'[p]["updater"] \in {"out", "gone"}
        /\ ~ok => pc'[p]["updater"] = "gone"
    <3>1. CASE ok
      BY <1>1, <1>2, <1>4, <3>1 DEF StartUpdater, PcType
    <3>2. CASE ~ok
      BY <1>4, <2>2, <3>2 DEF StartUpdater
    <3> QED
      BY <3>1, <3>2
  <2>4. \A q \in Programs, u \in Threads : Inside(q, u)' <=> Inside(q, u)
    BY <2>2, <2>3 DEF Inside
  <2>5. \A q \in Programs :
           prog'[q] = IF q = p THEN (IF ok THEN "run" ELSE "joinListener") ELSE prog[q]
    BY <1>1, <1>4 DEF StartUpdater, ProgType
  <2>6. Phases'
    <3>1. pc'[p]["main"] = pc[p]["main"] /\ pc'[p]["listener"] = pc[p]["listener"]
      BY <1>2, <2>3
    <3>2. ASSUME NEW q \in Programs, q # p
          PROVE  /\ pc'[q]["main"] = pc[q]["main"] /\ pc'[q]["listener"] = pc[q]["listener"]
                 /\ pc'[q]["updater"] = pc[q]["updater"] /\ prog'[q] = prog[q]
      BY <1>2, <2>3, <2>5, <3>2
    <3> QED
      BY <2>1, <2>3, <2>5, <3>1, <3>2 DEF LockInv, Phases
  <2> QED
    BY <2>1, <2>4, <2>5, <2>6, MainKeeps
<1>5. CASE JoinListener(p) \/ JoinUpdater(p) \/ Disconnect(p) \/ FreeInventory(p)
  <2>1. /\ UNCHANGED <<sem, sets, semid, pc, abandoned>>
        /\ key' \in {key, 0}
        /\ prog[p] \notin {"down", "attach", "setval"}
    BY <1>5 DEF JoinListener, JoinUpdater, Disconnect, FreeInventory
  <2>2. /\ prog'[p] \notin {"down", "attach", "setval"}
        /\ \A q \in Programs : q # p => prog'[q] = prog[q]
    BY <1>1, <1>5 DEF JoinListener, JoinUpdater, Disconnect, FreeInventory, ProgType
  <2>3. Phases'
    <3>1. CASE JoinListener(p)
      BY <1>1, <3>1 DEF JoinListener, Joined, LockInv, Phases, ProgType
    <3>2. CASE JoinUpdater(p)
      BY <1>1, <3>2 DEF JoinUpdater, Joined, LockInv, Phases, ProgType
    <3>3. CASE Disconnect(p)
      BY <1>1, <3>3 DEF Disconnect, LockInv, Phases, ProgType
    <3>4. CASE FreeInventory(p)
      BY <1>1, <3>4 DEF FreeInventory, LockInv, Phases, ProgType
    <3> QED
      BY <1>5, <3>1, <3>2, <3>3, <3>4
  <2>4. \A q \in Programs, u \in Threads : Inside(q, u)' <=> Inside(q, u)
    BY <2>1 DEF Inside
  <2> QED
    BY <2>1, <2>2, <2>3, <2>4, MainKeeps
<1>6. CASE MainReturns(p)
  <2>1. /\ Exited(p) /\ UNCHANGED <<key, sem, sets, semid, abandoned>>
        /\ prog[p] = "exit"
    BY <1>6 DEF MainReturns
  <2>2. \A u \in Threads : ~Inside(p, u)
    BY <2>1, NobodyInside DEF LockInv
  <2> QED
    BY <2>1, <2>2, ExitKeeps
<1>7. CASE ListenerEnds(p)
  <2>1. \A q \in Programs, u \in Threads :
           pc'[q][u] = IF q = p /\ u = "listener" THEN "gone" ELSE pc[q][u]
    BY <1>1, <1>2, <1>7 DEF ListenerEnds, PcType
  <2>0. \A q \in Programs, u \in Threads :
           Inside(q, u)' <=> IF q = p /\ u = "listener" THEN FALSE ELSE Inside(q, u)
    BY <2>1 DEF Inside
  <2>2. /\ UNCHANGED <<key, sem, sets, semid, prog, abandoned>>
        /\ pc[p]["listener"] = "out"
    BY <1>7 DEF ListenerEnds
  <2>3. \A q \in Programs, u \in Threads : Inside(q, u)' <=> Inside(q, u)
    BY <2>0, <2>1, <2>2 DEF Inside
  <2>4. Phases'
    BY <1>2, <2>0, <2>1, <2>2 DEF LockInv, Phases
  <2>5. KnownSets'
    BY <2>2 DEF LockInv, KnownSets
  <2>6. OneCreator' /\ SemaphoreBinary' /\ OneHolder'
    BY <2>2, <2>3, Quiet DEF LockInv
  <2>7. LockNotLost'
    BY <2>2, <2>3, KeepsHolders DEF LockInv
  <2> QED
    BY <2>4, <2>5, <2>6, <2>7
<1>8. CASE Die(p)
  <2>1. Exited(p) /\ UNCHANGED <<key, sem, sets, semid>>
    BY <1>8 DEF Die
  <2>2. abandoned \subseteq abandoned'
    BY <1>8 DEF Die
  <2>3. semid[p] \in abandoned' \/ (prog[p] # "setval" /\ \A u \in Threads : ~Inside(p, u))
    BY <1>8 DEF Die
  <2> QED
    BY <2>1, <2>2, <2>3, ExitKeeps
<1>9. ASSUME StartListener(p, FALSE)
      PROVE  /\ KnownSets' /\ Phases' /\ OneCreator' /\ SemaphoreBinary' /\ OneHolder'
             /\ LockNotLost'
  <2>1. /\ Exited(p) /\ UNCHANGED <<key, sem, sets, semid, abandoned>>
        /\ prog[p] = "spawn"
    BY <1>9 DEF StartListener
  <2>2. \A u \in Threads : ~Inside(p, u)
    BY <2>1, NobodyInside DEF LockInv
  <2> QED
    BY <2>1, <2>2, ExitKeeps
<1>10. \A ok \in BOOLEAN : StartListener(p, ok) => StartListener(p, TRUE) \/ StartListener(p, FALSE)
  OBVIOUS
<1> QED
  BY <1>3, <1>4, <1>5, <1>6, <1>7, <1>8, <1>9, <1>10 DEF MainStep

\* lock_inventory, unlock_inventory and a cancelation, by one thread.
LEMMA ThreadStepLock ==
    ASSUME LockInv, NEW p \in Programs, NEW t \in Threads,
           LockStep(p, t) \/ Canceled(p, t)
    PROVE  /\ KnownSets' /\ Phases' /\ OneCreator' /\ SemaphoreBinary' /\ OneHolder'
           /\ LockNotLost'
<1>1. PcType /\ ProgType
  BY DEF LockInv, TypeOK, PcType, ProgType
<1>2. "listener" \in Threads /\ "updater" \in Threads /\ "main" \in Threads
  BY DEF Threads
<1>3. CASE WantLock(p, t)
  <2>1. \A q \in Programs, u \in Threads :
           pc'[q][u] = IF q = p /\ u = t THEN "wait" ELSE pc[q][u]
    BY <1>1, <1>3 DEF WantLock, PcType
  <2>0. \A q \in Programs, u \in Threads :
           Inside(q, u)' <=> IF q = p /\ u = t THEN FALSE ELSE Inside(q, u)
    BY <2>1 DEF Inside
  <2>2. /\ UNCHANGED <<key, sem, sets, semid, prog, abandoned>>
        /\ pc[p][t] = "out" /\ (t = "main" => prog[p] \in {"first", "run"})
    BY <1>3 DEF WantLock, MayLock
  <2>3. \A q \in Programs, u \in Threads : Inside(q, u)' <=> Inside(q, u)
    BY <2>0, <2>1, <2>2 DEF Inside
  <2>4. Phases'
    BY <1>2, <2>0, <2>1, <2>2 DEF LockInv, Phases
  <2>5. KnownSets'
    BY <2>2 DEF LockInv, KnownSets
  <2>6. OneCreator' /\ SemaphoreBinary' /\ OneHolder'
    BY <2>2, <2>3, Quiet DEF LockInv
  <2>7. LockNotLost'
    BY <2>2, <2>3, KeepsHolders DEF LockInv
  <2> QED
    BY <2>4, <2>5, <2>6, <2>7
<1>4. CASE Acquire(p, t)
  <2>1. \A q \in Programs, u \in Threads :
           pc'[q][u] = IF q = p /\ u = t THEN "in" ELSE pc[q][u]
    BY <1>1, <1>4 DEF Acquire, PcType
  <2>0. \A q \in Programs, u \in Threads :
           Inside(q, u)' <=> IF q = p /\ u = t THEN TRUE ELSE Inside(q, u)
    BY <2>1 DEF Inside
  <2>2. /\ UNCHANGED <<key, sets, semid, prog, abandoned>>
        /\ pc[p][t] = "wait" /\ semid[p] = key /\ sem = 1 /\ sem' = 0
    BY <1>4 DEF Acquire, LockFree, LockInv, TypeOK, SemaphoreBinary
  <2>3. \A q \in Programs, u \in Threads : Inside(q, u) => semid[q] # key
    BY <2>2 DEF LockInv, SemaphoreBinary
  <2>4. \A q \in Programs : prog[q] = "setval" => semid[q] # key
    BY <2>2 DEF LockInv, OneCreator
  <2>5. Phases'
    BY <1>2, <2>0, <2>1, <2>2 DEF LockInv, Phases
  <2>6. KnownSets'
    BY <2>2 DEF LockInv, KnownSets
  <2>7. OneCreator'
    BY <2>0, <2>1, <2>2, <2>4 DEF LockInv, OneCreator
  <2>8. SemaphoreBinary'
    BY <2>2 DEF SemaphoreBinary
  <2>9. OneHolder'
    BY <2>0, <2>1, <2>2, <2>3 DEF LockInv, OneHolder
  <2>10. LockNotLost'
    BY <2>0, <2>1, <2>2 DEF LockNotLost
  <2> QED
    BY <2>5, <2>6, <2>7, <2>8, <2>9, <2>10
<1>5. CASE Release(p, t)
  <2>1. \A q \in Programs, u \in Threads :
           pc'[q][u] = IF q = p /\ u = t THEN "out" ELSE pc[q][u]
    BY <1>1, <1>5 DEF Release, PcType
  <2>0. \A q \in Programs, u \in Threads :
           Inside(q, u)' <=> IF q = p /\ u = t THEN FALSE ELSE Inside(q, u)
    BY <2>1 DEF Inside
  <2>2. /\ UNCHANGED <<key, sets, semid, abandoned>>
        /\ Inside(p, t) /\ semid[p] = key /\ sem = 0 /\ sem' = 1
    BY <1>5 DEF Release, Unlocked, LockInv, SemaphoreBinary
  <2>3. /\ \A q \in Programs : q # p => prog'[q] = prog[q]
        /\ prog'[p] = IF t = "main" /\ prog[p] = "first" THEN "spawn" ELSE prog[p]
    BY <1>1, <1>5 DEF Release, ProgType
  <2>4. \A q \in Programs, u \in Threads :
           Inside(q, u)' => Inside(q, u) /\ semid[q] # key
    BY <2>0, <2>1, <2>2 DEF LockInv, OneHolder
  <2>5. prog[p] \notin {"down", "attach", "setval"}
    BY <2>2, NobodyInside DEF LockInv
  <2>6. \A q \in Programs : prog[q] = "setval" => semid[q] # key
    BY <2>2 DEF LockInv, OneCreator
  <2>7. Phases'
    <3>1. pc[p]["main"] = "in" /\ t = "main" => pc'[p]["main"] = "out"
      BY <1>2, <2>1
    <3> QED
      BY <1>2, <2>0, <2>1, <2>2, <2>3, <3>1 DEF LockInv, Phases, Inside
  <2>8. KnownSets'
    BY <2>2, <2>3, <2>5 DEF LockInv, KnownSets
  <2>9. OneCreator'
    BY <2>2, <2>3, <2>4, <2>5, <2>6 DEF LockInv, OneCreator
  <2>10. SemaphoreBinary'
    BY <2>2, <2>4 DEF SemaphoreBinary
  <2>11. OneHolder'
    BY <2>2, <2>4 DEF LockInv, OneHolder
  <2>12. LockNotLost'
    BY <2>2 DEF LockNotLost
  <2> QED
    BY <2>7, <2>8, <2>9, <2>10, <2>11, <2>12
<1>6. CASE SemopFails(p, t)
  <2>1. Exited(p) /\ UNCHANGED <<key, sem, sets, semid, abandoned>> /\ semid[p] # key
    BY <1>6 DEF SemopFails
  <2> QED
    BY <2>1, ExitKeeps
<1>7. CASE Canceled(p, t)
  <2>1. \A q \in Programs, u \in Threads :
           pc'[q][u] = IF q = p /\ u = t THEN "gone" ELSE pc[q][u]
    BY <1>1, <1>7 DEF Canceled, PcType
  <2>0. \A q \in Programs, u \in Threads :
           Inside(q, u)' <=> IF q = p /\ u = t THEN FALSE ELSE Inside(q, u)
    BY <2>1 DEF Inside
  <2>2. /\ UNCHANGED <<key, sem, sets, semid, prog>>
        /\ abandoned \subseteq abandoned'
        /\ Inside(p, t) => semid[p] \in abandoned'
    BY <1>7 DEF Canceled
  <2>3. t # "main"
    BY <1>7 DEF Canceled, CancelPoint
  <2>4. Phases'
    BY <1>2, <2>0, <2>1, <2>2, <2>3 DEF LockInv, Phases
  <2>5. KnownSets'
    BY <2>2 DEF LockInv, KnownSets
  <2>6. OneCreator' /\ SemaphoreBinary' /\ OneHolder'
    BY <2>0, <2>1, <2>2, Quiet DEF LockInv
  <2>7. LockNotLost'
    BY <2>0, <2>1, <2>2, KeepsHolders DEF LockInv
  <2> QED
    BY <2>4, <2>5, <2>6, <2>7
<1> QED
  BY <1>3, <1>4, <1>5, <1>6, <1>7 DEF LockStep

-----------------------------------------------------------------------------
\* The strengthened invariant holds in every reachable state.
LEMMA LockInvariant == Spec => []LockInv
<1>1. Init => LockInv
  <2> SUFFICES ASSUME Init PROVE LockInv
    OBVIOUS
  <2>1. TypeOK
    BY LockAssumption DEF Init, TypeOK, AllGone, ProgState
  <2>2. \A q \in Programs, u \in Threads : pc[q][u] = "gone" /\ ~Inside(q, u)
    BY DEF Init, AllGone, Inside
  <2>3. KnownSets /\ OneCreator /\ SemaphoreBinary /\ OneHolder /\ LockNotLost
    BY <2>2 DEF Init, KnownSets, OneCreator, SemaphoreBinary, OneHolder, LockNotLost
  <2>4. Phases
    BY <2>2 DEF Phases, Threads
  <2> QED
    BY <2>1, <2>3, <2>4 DEF LockInv
<1>2. LockInv /\ [Next]_vars => LockInv'
  <2> SUFFICES ASSUME LockInv, [Next]_vars PROVE LockInv'
    OBVIOUS
  <2>1. TypeOK
    BY DEF LockInv
  <2>2. ASSUME NEW p \in Programs, InitStep(p) PROVE LockInv'
    BY <2>1, <2>2, InitStepType, InitStepLock DEF LockInv
  <2>3. ASSUME NEW p \in Programs, MainStep(p) \/ Disconnect(p) \/ ListenerEnds(p) \/ Die(p)
        PROVE  LockInv'
    BY <2>1, <2>3, MainStepType, MainStepLock DEF LockInv
  <2>4. ASSUME NEW p \in Programs, NEW t \in Threads, LockStep(p, t) \/ Canceled(p, t)
        PROVE  LockInv'
    BY <2>1, <2>4, ThreadStepType, ThreadStepLock DEF LockInv
  <2>5. CASE UNCHANGED vars
    BY <2>5 DEF vars, LockInv, TypeOK, KnownSets, Phases, OneCreator, SemaphoreBinary,
                OneHolder, LockNotLost, Inside
  <2> QED
    BY <2>2, <2>3, <2>4, <2>5 DEF Next
<1> QED
  BY <1>1, <1>2, PTL DEF Spec

\* The semaphore stays binary although each unlock adds one to it: the thread that adds
\* it is inside with the registered set, whose value is 0 then.
THEOREM SemaphoreBinaryCorrect == Spec => []SemaphoreBinary
<1>1. LockInv => SemaphoreBinary
  BY DEF LockInv
<1> QED
  BY <1>1, LockInvariant, PTL

\* lock_inventory and unlock_inventory keep the threads of every program out of each
\* other's way, for any number of programs that share, free and recreate the set.
THEOREM MutualExclusionCorrect == Spec => []MutualExclusion
<1>1. LockInv => MutualExclusion
  BY DEF LockInv, OneHolder, MutualExclusion
<1> QED
  BY <1>1, LockInvariant, PTL

\* A registered semaphore that is neither free, nor held, nor about to be set by its
\* creator was left behind by a thread that died or was canceled.
THEOREM LockNotLostCorrect == Spec => []LockNotLost
<1>1. LockInv => LockNotLost
  BY DEF LockInv
<1> QED
  BY <1>1, LockInvariant, PTL

\* free_inventory runs after the program has joined its threads (main.c), or before
\* it starts any: a program does not remove the set under its own threads.
THEOREM FreedAfterThreadsCorrect == Spec => FreedAfterThreads
<1> DEFINE Freed ==
      \A p \in Programs :
          prog[p] \notin {"exit", "down"} /\ prog'[p] = "exit"
              => \A t \in Threads : pc[p][t] \notin {"wait", "in"}
<1>1. LockInv /\ [Next]_vars => Freed
  <2> SUFFICES ASSUME LockInv, [Next]_vars, NEW p \in Programs,
                      prog[p] \notin {"exit", "down"}, prog'[p] = "exit"
               PROVE  \A t \in Threads : pc[p][t] \notin {"wait", "in"}
    OBVIOUS
  <2>0. prog \in [Programs -> ProgState]
    BY DEF LockInv, TypeOK
  <2>1. FreeInventory(p)
    <3>1. PICK q \in Programs :
            \/ InitStep(q) \/ MainStep(q) \/ Disconnect(q) \/ ListenerEnds(q) \/ Die(q)
            \/ \E t \in Threads : LockStep(q, t) \/ Canceled(q, t)
      BY DEF Next, vars
    <3>2. ~InitStep(q)
      BY <2>0 DEF InitStep, Create, FindsSet, Attach, SetVal, Exited
    <3>3. \A t \in Threads : ~LockStep(q, t) /\ ~Canceled(q, t)
      <4> SUFFICES ASSUME NEW t \in Threads, LockStep(q, t) \/ Canceled(q, t) PROVE FALSE
        OBVIOUS
      <4>1. prog' = prog \/ Release(q, t) \/ SemopFails(q, t)
        BY DEF LockStep, WantLock, Acquire, Canceled
      <4>2. ~Release(q, t)
        BY <2>0 DEF Release
      <4>3. ~SemopFails(q, t)
        BY <2>0 DEF SemopFails, Exited
      <4> QED
        BY <4>1, <4>2, <4>3
    <3>4. ~Disconnect(q) /\ ~ListenerEnds(q) /\ ~Die(q)
      BY <2>0 DEF Disconnect, ListenerEnds, Die, Exited
    <3>5. CASE MainStep(q)
      BY <2>0, <3>5 DEF MainStep, StartListener, StartUpdater, JoinListener, JoinUpdater,
                        FreeInventory, MainReturns, Exited
    <3> QED
      BY <3>1, <3>2, <3>3, <3>4, <3>5
  <2>2. pc[p]["main"] = "out" /\ prog[p] \in {"free", "first"}
    BY <2>1 DEF FreeInventory
  <2>3. pc[p]["listener"] = "gone" /\ pc[p]["updater"] = "gone"
    BY <2>2 DEF LockInv, Phases
  <2> QED
    BY <2>2, <2>3 DEF Threads
<1>2. Spec => [][Freed]_vars
  BY <1>1, LockInvariant, PTL DEF Spec
<1> QED
  BY <1>2 DEF FreedAfterThreads
=============================================================================
