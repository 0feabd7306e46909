------------------------------ MODULE KeyedLock ------------------------------
(***************************************************************************)
(* The reference-counted lock table of internal/state/store.go:            *)
(* LockAction, LockAuth and lockByKey (used by LockAutoDrawPlan) share one *)
(* algorithm.                                                              *)
(*                                                                         *)
(*   lock(key):    under the table mutex, find or allocate the entry of    *)
(*                 the key and count a reference;  then lock entry.mu      *)
(*   release():    unlock entry.mu;  then, under the table mutex, drop the *)
(*                 reference and delete the table slot at zero             *)
(*                                                                         *)
(* The four parts are separate steps: another goroutine may run between    *)
(* any two of them.  Each part that runs under the table mutex is one step.*)
(*                                                                         *)
(* Entries are heap cells.  An allocation returns a cell that no goroutine *)
(* and no table slot refers to, which is what the garbage collector        *)
(* guarantees; a reclaimed cell may be handed out again.                   *)
(***************************************************************************)
EXTENDS Naturals, FiniteSets

CONSTANTS
    Threads,     \* goroutines
    Keys,        \* lock keys
    Entries,     \* heap cells for *actionLock
    NoThread,    \* entry.mu is unlocked
    NoEntry,     \* the table has no slot for the key (nil)
    NoKey        \* the thread is not using the lock table

ASSUME LockAssumption ==
    /\ IsFiniteSet(Threads)
    /\ NoThread \notin Threads
    /\ NoEntry \notin Entries
    /\ NoKey \notin Keys

VARIABLES
    slot,        \* slot[k]: s.actionLocks[key], an entry or NoEntry
    refs,        \* refs[e]: entry.refs
    mu,          \* mu[e]: the thread that locked entry.mu, or NoThread
    pc,          \* where the thread is
    entryOf,     \* the entry the closure of the thread holds
    keyOf        \* the key the thread asked for

lockVars == <<slot, refs, mu, pc, entryOf, keyOf>>

LockPCs == {"idle", "waiting", "holding", "unlocked"}

LockInit ==
    /\ slot = [k \in Keys |-> NoEntry]
    /\ refs = [e \in Entries |-> 0]
    /\ mu = [e \in Entries |-> NoThread]
    /\ pc = [t \in Threads |-> "idle"]
    /\ entryOf = [t \in Threads |-> NoEntry]
    /\ keyOf = [t \in Threads |-> NoKey]

------------------------------------------------------------------------------
\* A cell the allocator may return: nothing points to it.
Unreachable(e) ==
    /\ \A k \in Keys : slot[k] # e
    /\ \A t \in Threads : entryOf[t] # e

\* Mutant of Reuse: entry.refs++ only where the entry is allocated.
ReuseUncounted(t, k) ==
    /\ pc[t] = "idle"
    /\ slot[k] # NoEntry
    /\ entryOf' = [entryOf EXCEPT ![t] = slot[k]]
    /\ keyOf' = [keyOf EXCEPT ![t] = k]
    /\ pc' = [pc EXCEPT ![t] = "waiting"]
    /\ UNCHANGED <<slot, refs, mu>>

\* lock(key), first critical section, slot present: count a reference.
Reuse(t, k) ==
    /\ pc[t] = "idle"
    /\ slot[k] # NoEntry
    /\ refs' = [refs EXCEPT ![slot[k]] = @ + 1]
    /\ entryOf' = [entryOf EXCEPT ![t] = slot[k]]
    /\ keyOf' = [keyOf EXCEPT ![t] = k]
    /\ pc' = [pc EXCEPT ![t] = "waiting"]
    /\ UNCHANGED <<slot, mu>>

\* lock(key), first critical section, slot nil: allocate &actionLock{}, put
\* it into the table and count the first reference.
Allocate(t, k) ==
    /\ pc[t] = "idle"
    /\ slot[k] = NoEntry
    /\ \E e \in Entries :
        /\ Unreachable(e)
        /\ slot' = [slot EXCEPT ![k] = e]
        /\ refs' = [refs EXCEPT ![e] = 1]
        /\ mu' = [mu EXCEPT ![e] = NoThread]
        /\ entryOf' = [entryOf EXCEPT ![t] = e]
    /\ keyOf' = [keyOf EXCEPT ![t] = k]
    /\ pc' = [pc EXCEPT ![t] = "waiting"]

\* entry.mu.Lock() returns.
Acquire(t) ==
    /\ pc[t] = "waiting"
    /\ mu[entryOf[t]] = NoThread
    /\ mu' = [mu EXCEPT ![entryOf[t]] = t]
    /\ pc' = [pc EXCEPT ![t] = "holding"]
    /\ UNCHANGED <<slot, refs, entryOf, keyOf>>

\* Mutant of Unlock: the caller keeps what it locked; release() does nothing.
UnlockForgotten(t) == pc[t] = "holding" /\ UNCHANGED lockVars

\* release(), entry.mu.Unlock().
Unlock(t) ==
    /\ pc[t] = "holding"
    /\ mu' = [mu EXCEPT ![entryOf[t]] = NoThread]
    /\ pc' = [pc EXCEPT ![t] = "unlocked"]
    /\ UNCHANGED <<slot, refs, entryOf, keyOf>>

\* Mutant of Unref: the slot is deleted whoever else still uses the entry.
UnrefAlwaysDeletes(t) ==
    /\ pc[t] = "unlocked"
    /\ refs' = [refs EXCEPT ![entryOf[t]] = @ - 1]
    /\ slot' = [slot EXCEPT ![keyOf[t]] = NoEntry]
    /\ entryOf' = [entryOf EXCEPT ![t] = NoEntry]
    /\ keyOf' = [keyOf EXCEPT ![t] = NoKey]
    /\ pc' = [pc EXCEPT ![t] = "idle"]
    /\ UNCHANGED mu

\* release(), second critical section: drop the reference, delete the slot
\* of this key when it was the last one.
Unref(t) ==
    /\ pc[t] = "unlocked"
    /\ refs' = [refs EXCEPT ![entryOf[t]] = @ - 1]
    /\ slot' = IF refs[entryOf[t]] = 1
               THEN [slot EXCEPT ![keyOf[t]] = NoEntry]
               ELSE slot
    /\ entryOf' = [entryOf EXCEPT ![t] = NoEntry]
    /\ keyOf' = [keyOf EXCEPT ![t] = NoKey]
    /\ pc' = [pc EXCEPT ![t] = "idle"]
    /\ UNCHANGED mu

\* The process ends, and with it the table and the goroutines that use it.
LockTableLost ==
    /\ slot' = [k \in Keys |-> NoEntry]
    /\ refs' = [e \in Entries |-> 0]
    /\ mu' = [e \in Entries |-> NoThread]
    /\ pc' = [t \in Threads |-> "idle"]
    /\ entryOf' = [t \in Threads |-> NoEntry]
    /\ keyOf' = [t \in Threads |-> NoKey]

LockNext ==
    \/ \E t \in Threads :
        \/ \E k \in Keys : Reuse(t, k) \/ Allocate(t, k)
        \/ Acquire(t) \/ Unlock(t) \/ Unref(t)
    \/ LockTableLost

LockSpec == LockInit /\ [][LockNext]_lockVars

------------------------------------------------------------------------------
\* Threads that hold a counted reference to entry e.
Users(e) == {t \in Threads : entryOf[t] = e}

LockTypeOK ==
    /\ slot \in [Keys -> Entries \union {NoEntry}]
    /\ refs \in [Entries -> Nat]
    /\ mu \in [Entries -> Threads \union {NoThread}]
    /\ pc \in [Threads -> LockPCs]
    /\ entryOf \in [Threads -> Entries \union {NoEntry}]
    /\ keyOf \in [Threads -> Keys \union {NoKey}]

\* A thread that uses the table holds the entry the table has for its key:
\* deleting the slot at refs = 0 never splits the users of one key over two
\* entries.
UsersAgreeWithTable ==
    \A t \in Threads :
        IF pc[t] = "idle"
        THEN entryOf[t] = NoEntry /\ keyOf[t] = NoKey
        ELSE /\ keyOf[t] \in Keys
             /\ entryOf[t] \in Entries
             /\ slot[keyOf[t]] = entryOf[t]

\* entry.refs counts the goroutines between the two critical sections.
RefsCountUsers == \A e \in Entries : refs[e] = Cardinality(Users(e))

\* A slot of the table has a user: the table does not grow with the keys
\* ever used (one action key per account, day and kind).
NoLeakedSlot ==
    \A k \in Keys : slot[k] # NoEntry => \E t \in Threads : keyOf[t] = k

\* Different keys have different entries: one account never waits for another.
SlotsDistinct ==
    \A j, k \in Keys : slot[j] = slot[k] /\ slot[j] # NoEntry => j = k

\* entry.mu is locked exactly by the thread that is in its critical section.
MutexOwner ==
    /\ \A t \in Threads : pc[t] = "holding" => mu[entryOf[t]] = t
    /\ \A e \in Entries : mu[e] # NoThread => pc[mu[e]] = "holding" /\ entryOf[mu[e]] = e

\* The inductive invariant.
LockInv ==
    /\ LockTypeOK
    /\ UsersAgreeWithTable
    /\ RefsCountUsers
    /\ NoLeakedSlot
    /\ SlotsDistinct
    /\ MutexOwner

\* Two goroutines never run the critical section of the same key.  Violating
\* it takes a release between the two critical sections of another lock call.
MutualExclusion ==
    \A s, t \in Threads :
        pc[s] = "holding" /\ pc[t] = "holding" /\ keyOf[s] = keyOf[t] => s = t

\* Every lock call returns: a waiting goroutine gets its key, unless the
\* process ends first.
EveryWaiterServed == \A t \in Threads : pc[t] = "waiting" ~> pc[t] # "waiting"

------------------------------------------------------------------------------
\* Refinement: the lock of a key is owned by the thread in its critical
\* section, and a thread is asking from its first critical section on.
OwnerOf ==
    [k \in Keys |->
        IF \E t \in Threads : pc[t] = "holding" /\ keyOf[t] = k
        THEN CHOOSE t \in Threads : pc[t] = "holding" /\ keyOf[t] = k
        ELSE NoThread]

Waiting == [k \in Keys |-> {t \in Threads : pc[t] = "waiting" /\ keyOf[t] = k}]

Abstract == INSTANCE Mutex WITH owner <- OwnerOf, wants <- Waiting

\* Deleting, reusing and reallocating entries is invisible: the table is one
\* lock per key.
ImplementsMutex == Abstract!MutexSpec
==============================================================================
