-------------------------------- MODULE Mutex --------------------------------
(***************************************************************************)
(* What the callers of Store.LockAction, Store.LockAuth and                *)
(* Store.LockAutoDrawPlan rely on: one mutual-exclusion lock per key.      *)
(*                                                                         *)
(* A thread asks for a key, waits, owns it and gives it back.  Nothing is  *)
(* said of map entries or reference counts; module KeyedLock shows that    *)
(* the reference-counted implementation is an implementation of this       *)
(* specification, and the modules of the account actions use it as such.   *)
(***************************************************************************)
CONSTANTS
    Threads,     \* goroutines that call the lock functions
    Keys,        \* lock keys (an action, a plan or an account)
    NoThread     \* "nobody owns the key"

VARIABLES
    owner,       \* owner[k]: the thread that owns key k, or NoThread
    wants        \* wants[k]: the threads waiting for key k

mutexVars == <<owner, wants>>

MutexInit ==
    /\ owner = [k \in Keys |-> NoThread]
    /\ wants = [k \in Keys |-> {}]

Ask(t, k) ==
    /\ \A j \in Keys : owner[j] # t /\ t \notin wants[j]
    /\ wants' = [wants EXCEPT ![k] = @ \union {t}]
    /\ UNCHANGED owner

Take(t, k) ==
    /\ t \in wants[k]
    /\ owner[k] = NoThread
    /\ owner' = [owner EXCEPT ![k] = t]
    /\ wants' = [wants EXCEPT ![k] = @ \ {t}]

Give(t, k) ==
    /\ owner[k] = t
    /\ owner' = [owner EXCEPT ![k] = NoThread]
    /\ UNCHANGED wants

\* The process ends: nobody owns or wants a key any more.
AllLost == MutexInit'

MutexNext ==
    \/ \E t \in Threads, k \in Keys : Ask(t, k) \/ Take(t, k) \/ Give(t, k)
    \/ AllLost

MutexSpec == MutexInit /\ [][MutexNext]_mutexVars
==============================================================================
