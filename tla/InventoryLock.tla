----------------------------- MODULE InventoryLock -----------------------------
(***************************************************************************)
(* The lock on a warehouse's inventory (warehouse/src/inventory.c): one    *)
(* System V semaphore, found by a key that every warehouse program of the  *)
(* machine shares, taken by the menu, listener and updater threads of each *)
(* program.  A program creates the set or attaches to the one it finds,    *)
(* and removes it when it disconnects (warehouse/src/main.c).              *)
(*                                                                         *)
(* The semaphore operations are the kernel's: semop without SEM_UNDO, so a *)
(* thread that dies inside the critical section leaves the lock taken.     *)
(***************************************************************************)
EXTENDS Naturals

CONSTANTS
    Programs,   \* warehouse programs of one machine
    MaxSets,    \* bound: semaphore sets created under the key
    MaxDeaths   \* bound: programs killed

ASSUME LockAssumption ==
    /\ MaxSets \in Nat
    /\ MaxDeaths \in Nat

Threads == {"main", "listener", "updater"}

VARIABLES
    key,        \* the set registered under the key, 0 if there is none
    sem,        \* its value
    sets,       \* sets created so far; the kernel never reuses an identifier
    prog,       \* how far the main function of each program is
    semid,      \* the set each program works with
    pc,         \* where each thread is with respect to the critical section
    abandoned,  \* history: sets left by a thread that died or was canceled
    deaths      \* programs killed so far

vars == <<key, sem, sets, prog, semid, pc, abandoned, deaths>>

ProgState == {"down", "attach", "setval", "first", "spawn", "spawnUpdater", "run",
              "joinListener", "joinUpdater", "free", "exit"}

AllGone == [t \in Threads |-> "gone"]

TypeOK ==
    /\ key \in 0..MaxSets
    /\ sem \in Nat
    /\ sets \in 0..MaxSets
    /\ prog \in [Programs -> ProgState]
    /\ semid \in [Programs -> 0..MaxSets]
    /\ pc \in [Programs -> [Threads -> {"gone", "out", "wait", "in"}]]
    /\ abandoned \subseteq 0..MaxSets
    /\ deaths \in 0..MaxDeaths

Init ==
    /\ key = 0
    /\ sem = 0
    /\ sets = 0
    /\ prog = [p \in Programs |-> "down"]
    /\ semid = [p \in Programs |-> 0]
    /\ pc = [p \in Programs |-> AllGone]
    /\ abandoned = {}
    /\ deaths = 0

Inside(p, t) == pc[p][t] = "in"

Threading(p) == [pc EXCEPT ![p] = [t \in Threads |-> IF t = "main" THEN "out" ELSE "gone"]]

Exited(p) ==
    /\ prog' = [prog EXCEPT ![p] = "down"]
    /\ pc' = [pc EXCEPT ![p] = AllGone]

-----------------------------------------------------------------------------
(***************************************************************************)
(* init_semaphore, in the system calls it makes.                           *)
(***************************************************************************)

\* semget with IPC_CREAT and IPC_EXCL makes a set whose value is not set yet.
Create(p) ==
    /\ prog[p] = "down"
    /\ key = 0
    /\ sets < MaxSets
    /\ sets' = sets + 1
    /\ key' = sets + 1
    /\ sem' = 0
    /\ semid' = [semid EXCEPT ![p] = sets + 1]
    /\ prog' = [prog EXCEPT ![p] = "setval"]
    /\ pc' = Threading(p)
    /\ UNCHANGED <<abandoned, deaths>>

\* The set exists already (EEXIST).
FindsSet(p) ==
    /\ prog[p] = "down"
    /\ key # 0
    /\ prog' = [prog EXCEPT ![p] = "attach"]
    /\ pc' = Threading(p)
    /\ UNCHANGED <<key, sem, sets, semid, abandoned, deaths>>

\* The second semget, without IPC_CREAT: the set may be gone by now.
Attach(p) ==
    /\ prog[p] = "attach"
    /\ \/ /\ key # 0
          /\ semid' = [semid EXCEPT ![p] = key]
          /\ prog' = [prog EXCEPT ![p] = "first"]
          /\ UNCHANGED pc
       \/ /\ key = 0
          /\ Exited(p)
          /\ UNCHANGED semid
    /\ UNCHANGED <<key, sem, sets, abandoned, deaths>>

\* semctl SETVAL by the creator.
SetVal(p) ==
    /\ prog[p] = "setval"
    /\ \/ /\ semid[p] = key
          /\ sem' = 1
          /\ prog' = [prog EXCEPT ![p] = "first"]
          /\ UNCHANGED pc
       \/ /\ semid[p] # key
          /\ Exited(p)
          /\ UNCHANGED sem
    /\ UNCHANGED <<key, sets, semid, abandoned, deaths>>

-----------------------------------------------------------------------------
(***************************************************************************)
(* lock_inventory and unlock_inventory, by any thread of a program.        *)
(***************************************************************************)

\* The main thread locks once for the first inventory, then from the menu.
MayLock(p, t) == pc[p][t] = "out" /\ (t = "main" => prog[p] \in {"first", "run"})

WantLock(p, t) ==
    /\ MayLock(p, t)
    /\ pc' = [pc EXCEPT ![p][t] = "wait"]
    /\ UNCHANGED <<key, sem, sets, prog, semid, abandoned, deaths>>

\* Mutant: the semaphore is not looked at.
Always(p) == semid[p] = key

\* The semop of lock_inventory takes one away; it blocks while the value is 0.
LockFree(p) == semid[p] = key /\ sem > 0

Acquire(p, t) ==
    /\ pc[p][t] = "wait"
    /\ LockFree(p)
    /\ sem' = sem - 1
    /\ pc' = [pc EXCEPT ![p][t] = "in"]
    /\ UNCHANGED <<key, sets, prog, semid, abandoned, deaths>>

\* Mutants: a path through the critical section that forgets to unlock, or one that
\* unlocks twice, like a check_restock_item without the return after its first unlock.
KeepsLock(value) == value
UnlockedTwice(value) == value + 2

\* The semop of unlock_inventory adds one, whatever the value is.
Unlocked(value) == value + 1

Release(p, t) ==
    /\ Inside(p, t)
    /\ semid[p] = key
    /\ sem' = Unlocked(sem)
    /\ pc' = [pc EXCEPT ![p][t] = "out"]
    /\ prog' = IF t = "main" /\ prog[p] = "first" THEN [prog EXCEPT ![p] = "spawn"] ELSE prog
    /\ UNCHANGED <<key, sets, semid, abandoned, deaths>>

\* semop on a set that was removed fails, and the whole program exits.
SemopFails(p, t) ==
    /\ pc[p][t] \in {"wait", "in"}
    /\ semid[p] # key
    /\ Exited(p)
    /\ UNCHANGED <<key, sem, sets, semid, abandoned, deaths>>

-----------------------------------------------------------------------------
(***************************************************************************)
(* The main function: threads are started, canceled, joined.               *)
(***************************************************************************)

\* If the first thread cannot be created main returns at once: the set stays.
StartListener(p, ok) ==
    /\ prog[p] = "spawn"
    /\ \/ /\ ok
          /\ prog' = [prog EXCEPT ![p] = "spawnUpdater"]
          /\ pc' = [pc EXCEPT ![p]["listener"] = "out"]
       \/ ~ok /\ Exited(p)
    /\ UNCHANGED <<key, sem, sets, semid, abandoned, deaths>>

\* If the second thread cannot be created the first is canceled again.
StartUpdater(p, ok) ==
    /\ prog[p] = "spawnUpdater"
    /\ prog' = [prog EXCEPT ![p] = IF ok THEN "run" ELSE "joinListener"]
    /\ pc' = IF ok THEN [pc EXCEPT ![p]["updater"] = "out"] ELSE pc
    /\ UNCHANGED <<key, sem, sets, semid, abandoned, deaths>>

\* The menu's last choice; the listener is canceled.
Disconnect(p) ==
    /\ prog[p] = "run"
    /\ pc[p]["main"] = "out"
    /\ prog' = [prog EXCEPT ![p] = "joinListener"]
    /\ UNCHANGED <<key, sem, sets, semid, pc, abandoned, deaths>>

\* The listener ends by itself when its socket is closed.
ListenerEnds(p) ==
    /\ pc[p]["listener"] = "out"
    /\ pc' = [pc EXCEPT ![p]["listener"] = "gone"]
    /\ UNCHANGED <<key, sem, sets, prog, semid, abandoned, deaths>>

\* Where a cancelation takes effect: at recv, send and sleep, which are outside the
\* critical section, and at the listener's printf inside it.  semop is no such point.
CancelPoint(p, t) ==
    \/ t = "listener" /\ prog[p] = "joinListener" /\ pc[p][t] \in {"out", "in"}
    \/ t = "updater" /\ prog[p] = "joinUpdater" /\ pc[p][t] = "out"

Canceled(p, t) ==
    /\ CancelPoint(p, t)
    /\ pc' = [pc EXCEPT ![p][t] = "gone"]
    /\ abandoned' = IF Inside(p, t) THEN abandoned \cup {semid[p]} ELSE abandoned
    /\ UNCHANGED <<key, sem, sets, prog, semid, deaths>>

\* Mutant: the threads are canceled and not waited for.
NotWaitedFor(p, t) == pc[p]["main"] = "out"

Joined(p, t) == pc[p][t] = "gone"

\* The listener is joined and the updater canceled; the updater is joined.
JoinListener(p) ==
    /\ prog[p] = "joinListener"
    /\ Joined(p, "listener")
    /\ prog' = [prog EXCEPT ![p] = "joinUpdater"]
    /\ UNCHANGED <<key, sem, sets, semid, pc, abandoned, deaths>>

JoinUpdater(p) ==
    /\ prog[p] = "joinUpdater"
    /\ Joined(p, "updater")
    /\ prog' = [prog EXCEPT ![p] = "free"]
    /\ UNCHANGED <<key, sem, sets, semid, pc, abandoned, deaths>>

\* free_inventory removes the set, whoever else uses it; this is also what a program
\* does that cannot reach the server.
FreeInventory(p) ==
    /\ prog[p] \in {"free", "first"}
    /\ pc[p]["main"] = "out"
    /\ key' = IF semid[p] = key THEN 0 ELSE key
    /\ prog' = [prog EXCEPT ![p] = "exit"]
    /\ UNCHANGED <<sem, sets, semid, pc, abandoned, deaths>>

MainReturns(p) ==
    /\ prog[p] = "exit"
    /\ Exited(p)
    /\ UNCHANGED <<key, sem, sets, semid, abandoned, deaths>>

\* The program is killed (a signal, SIGPIPE at a send to a closed socket).
Die(p) ==
    /\ prog[p] # "down"
    /\ deaths < MaxDeaths
    /\ deaths' = deaths + 1
    /\ abandoned' = IF prog[p] = "setval" \/ \E t \in Threads : Inside(p, t)
                    THEN abandoned \cup {semid[p]} ELSE abandoned
    /\ Exited(p)
    /\ UNCHANGED <<key, sem, sets, semid>>

-----------------------------------------------------------------------------
InitStep(p) == Create(p) \/ FindsSet(p) \/ Attach(p) \/ SetVal(p)

MainStep(p) ==
    \/ \E ok \in BOOLEAN : StartListener(p, ok) \/ StartUpdater(p, ok)
    \/ JoinListener(p)
    \/ JoinUpdater(p)
    \/ FreeInventory(p)
    \/ MainReturns(p)

LockStep(p, t) == WantLock(p, t) \/ Acquire(p, t) \/ Release(p, t) \/ SemopFails(p, t)

Next ==
    \E p \in Programs :
        \/ InitStep(p) \/ MainStep(p) \/ Disconnect(p) \/ ListenerEnds(p) \/ Die(p)
        \/ \E t \in Threads : LockStep(p, t) \/ Canceled(p, t)

Spec == Init /\ [][Next]_vars

(***************************************************************************)
(* Every thread runs on; the main thread's steps exclude each other.  The  *)
(* kernel serves the waiters of a semaphore in order (strong fairness of   *)
(* Acquire), and a canceled thread passes a cancelation point in every     *)
(* turn of its loop (strong fairness of Canceled, for one thread at a time *)
(* since they are canceled one after the other).                           *)
(***************************************************************************)
Unlock(p, t) == Release(p, t) \/ SemopFails(p, t)

Fairness ==
    \A p \in Programs :
        /\ WF_vars(Attach(p) \/ SetVal(p) \/ MainStep(p) \/ Unlock(p, "main"))
        /\ WF_vars(Unlock(p, "listener"))
        /\ WF_vars(Unlock(p, "updater"))
        /\ \A t \in Threads \ {"main"} : SF_vars(Acquire(p, t))
        /\ SF_vars(\E t \in Threads \ {"main"} : Canceled(p, t) /\ pc[p][t] = "out")

FairSpec == Spec /\ Fairness

-----------------------------------------------------------------------------
\* The semaphore stays binary: unlock_inventory adds one without a look at the value, and
\* is called on every path out of the critical section, after programs have died, attached
\* and set the value again.  While a thread of any program holds the registered set its
\* value is 0, and it is never more than 1, when two threads could enter.
SemaphoreBinary ==
    /\ sem <= 1
    /\ \A p \in Programs, t \in Threads : Inside(p, t) /\ semid[p] = key => sem = 0

\* Two threads of a program are never both inside the critical section, whatever
\* other programs create, attach to and remove meanwhile.
MutualExclusion ==
    \A p \in Programs : \A t, u \in Threads : Inside(p, t) /\ Inside(p, u) => t = u

\* The lock is not lost: it is free, held, or about to be set by its creator, unless
\* a thread died or was canceled while it held it.
LockNotLost ==
    key # 0 /\ key \notin abandoned =>
        \/ sem = 1
        \/ \E p \in Programs : semid[p] = key /\ prog[p] = "setval"
        \/ \E p \in Programs, t \in Threads : semid[p] = key /\ Inside(p, t)

\* No program removes the set under its own threads: when it frees the inventory none
\* of them is inside the critical section or waits for it.  (It may do so to another
\* program's threads, since all of them build the key from the same constants.)
FreedAfterThreads ==
    [][\A p \in Programs :
          prog[p] \notin {"exit", "down"} /\ prog'[p] = "exit"
              => \A t \in Threads : pc[p][t] \notin {"wait", "in"}]_vars

Disconnecting(p) == prog[p] \in {"joinListener", "joinUpdater"}

\* "Wait for the update thread to finish" (main.c:171): from the moment the user leaves,
\* the wait for both threads ends, whatever they and other programs do with the lock,
\* unless a canceled thread left it taken.  The printf inside the critical section
\* (inventory.c:54) is a cancelation point: a listener canceled there keeps the
\* semaphore, the updater blocks in semop, which is none, and main never returns.
DisconnectTerminates ==
    \A p \in Programs : Disconnecting(p) ~> ~Disconnecting(p) \/ abandoned # {}
=============================================================================
