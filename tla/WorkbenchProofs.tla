--------------------------- MODULE WorkbenchProofs ---------------------------
(***************************************************************************)
(* Theorems about the process (Workbench) and about the two parts it is    *)
(* built on, each by itself.                                               *)
(*                                                                         *)
(* KeyedLock, for any set of keys, any heap and any finite set of          *)
(* goroutines: the inductive invariant LockInv, mutual exclusion, and the  *)
(* refinement of Mutex.                                                    *)
(*                                                                         *)
(* DailyClaim, for any number of concurrent claims, any grant and any      *)
(* balance: an open claim is on record, it is never posted again, and a    *)
(* completed claim was granted if only claims add draws.                   *)
(*                                                                         *)
(* Workbench, for any number of requests, keys, tokens, tasks and days: a  *)
(* step of the process is, for the lock table, a step of KeyedLock, and    *)
(* for the claims a step of DailyClaim, so that what is proved of these by *)
(* themselves holds in the process.  Draws, edits and sessions have        *)
(* inductive invariants of their own.                                      *)
(***************************************************************************)
EXTENDS Workbench, FiniteSetTheorems, TLAPS

------------------------------------------------------------------------------
(***************************************************************************)
(* The lock table.                                                         *)
(***************************************************************************)
\* The users of an entry are finitely many, so their number is a natural.
LEMMA UsersFinite ==
    ASSUME NEW e
    PROVE  IsFiniteSet(Users(e)) /\ Cardinality(Users(e)) \in Nat
  <1>1. Users(e) \in SUBSET Threads
    BY DEF Users
  <1>2. IsFiniteSet(Users(e))
    BY <1>1, FS_Subset, LockAssumption
  <1>3. QED
    BY <1>2, FS_CardinalityType

\* An entry whose count is one has no user but the one at hand.
LEMMA LastUser ==
    ASSUME LockInv, NEW t \in Threads, entryOf[t] \in Entries
    PROVE  refs[entryOf[t]] = 1 <=> \A s \in Threads : entryOf[s] = entryOf[t] => s = t
  <1> DEFINE e == entryOf[t]
  <1>1. IsFiniteSet(Users(e)) /\ refs[e] = Cardinality(Users(e))
    BY UsersFinite DEF LockInv, RefsCountUsers
  <1>2. t \in Users(e)
    BY DEF Users
  <1>3. Cardinality(Users(e)) = 1 <=> \E x : Users(e) = {x}
    BY <1>1, FS_Singleton
  <1>4. (\E x : Users(e) = {x}) <=> Users(e) = {t}
    BY <1>2
  <1>5. Users(e) = {t} <=> \A s \in Threads : entryOf[s] = e => s = t
    BY DEF Users
  <1>6. QED
    BY <1>1, <1>3, <1>4, <1>5

\* No thread is in the table at the start.
LEMMA InitLockInv == LockInit => LockInv
  <1> SUFFICES ASSUME LockInit PROVE LockInv
    OBVIOUS
  <1>1. LockTypeOK
    BY DEF LockInit, LockTypeOK, LockPCs
  <1>2. UsersAgreeWithTable
    BY DEF LockInit, UsersAgreeWithTable
  <1>3. RefsCountUsers
    <2> SUFFICES ASSUME NEW e \in Entries PROVE refs[e] = Cardinality(Users(e))
      BY DEF RefsCountUsers
    <2>1. Users(e) = {}
      BY LockAssumption DEF LockInit, Users
    <2>2. QED
      BY <2>1, FS_EmptySet DEF LockInit
  <1>4. NoLeakedSlot /\ SlotsDistinct /\ MutexOwner
    BY DEF LockInit, NoLeakedSlot, SlotsDistinct, MutexOwner
  <1>5. QED
    BY <1>1, <1>2, <1>3, <1>4 DEF LockInv

\* A further reference to the entry in the table.
LEMMA ReuseInv ==
    ASSUME LockInv, NEW t \in Threads, NEW k \in Keys, Reuse(t, k)
    PROVE  LockInv'
  <1> DEFINE e == slot[k]
  <1>t. LockTypeOK /\ e \in Entries /\ entryOf[t] = NoEntry /\ keyOf[t] = NoKey
    BY DEF LockInv, LockTypeOK, Reuse, UsersAgreeWithTable
  <1>1. LockTypeOK'
    BY <1>t DEF Reuse, LockTypeOK, LockPCs
  <1>2. UsersAgreeWithTable'
    BY <1>t DEF LockInv, Reuse, LockTypeOK, UsersAgreeWithTable
  <1>3. RefsCountUsers'
    <2> SUFFICES ASSUME NEW x \in Entries PROVE refs'[x] = Cardinality(Users(x)')
      BY DEF RefsCountUsers
    <2>1. CASE x = e
      <3>1. Users(x)' = Users(x) \union {t} /\ t \notin Users(x)
        BY <2>1, <1>t, LockAssumption DEF Reuse, Users, LockTypeOK
      <3>2. Cardinality(Users(x)') = Cardinality(Users(x)) + 1
        BY <3>1, UsersFinite, FS_AddElement
      <3>3. refs'[x] = refs[x] + 1
        BY <2>1, <1>t DEF Reuse, LockTypeOK
      <3>4. QED
        BY <3>2, <3>3 DEF LockInv, RefsCountUsers
    <2>2. CASE x # e
      <3>1. Users(x)' = Users(x)
        BY <2>2, <1>t, LockAssumption DEF Reuse, Users, LockTypeOK
      <3>2. refs'[x] = refs[x]
        BY <2>2, <1>t DEF Reuse, LockTypeOK
      <3>3. QED
        BY <3>1, <3>2 DEF LockInv, RefsCountUsers
    <2>3. QED
      BY <2>1, <2>2
  <1>4. NoLeakedSlot'
    BY <1>t, LockAssumption DEF LockInv, Reuse, LockTypeOK, NoLeakedSlot
  <1>5. SlotsDistinct'
    BY DEF LockInv, Reuse, SlotsDistinct
  <1>6. MutexOwner'
    BY <1>t DEF LockInv, Reuse, LockTypeOK, MutexOwner
  <1>7. QED
    BY <1>1, <1>2, <1>3, <1>4, <1>5, <1>6 DEF LockInv

\* A fresh entry for a key without a slot.
LEMMA AllocateInv ==
    ASSUME LockInv, NEW t \in Threads, NEW k \in Keys, Allocate(t, k)
    PROVE  LockInv'
  <1>1. PICK e \in Entries :
            /\ Unreachable(e)
            /\ slot' = [slot EXCEPT ![k] = e]
            /\ refs' = [refs EXCEPT ![e] = 1]
            /\ mu' = [mu EXCEPT ![e] = NoThread]
            /\ entryOf' = [entryOf EXCEPT ![t] = e]
    BY DEF Allocate
  <1>t. /\ LockTypeOK /\ entryOf[t] = NoEntry /\ keyOf[t] = NoKey
        /\ pc[t] = "idle" /\ slot[k] = NoEntry
        /\ keyOf' = [keyOf EXCEPT ![t] = k]
        /\ pc' = [pc EXCEPT ![t] = "waiting"]
    BY DEF LockInv, LockTypeOK, Allocate, UsersAgreeWithTable
  <1>2. LockTypeOK'
    BY <1>t, <1>1 DEF LockTypeOK, LockPCs
  <1>3. UsersAgreeWithTable'
    <2> SUFFICES ASSUME NEW s \in Threads
                 PROVE  IF pc'[s] = "idle"
                        THEN entryOf'[s] = NoEntry /\ keyOf'[s] = NoKey
                        ELSE /\ keyOf'[s] \in Keys
                             /\ entryOf'[s] \in Entries
                             /\ slot'[keyOf'[s]] = entryOf'[s]
      BY DEF UsersAgreeWithTable
    <2>1. CASE s = t
      BY <2>1, <1>t, <1>1 DEF LockTypeOK
    <2>2. CASE s # t
      <3>1. pc[s] # "idle" => keyOf[s] # k
        BY <1>t, LockAssumption DEF LockInv, UsersAgreeWithTable
      <3>2. QED
        BY <2>2, <3>1, <1>t, <1>1 DEF LockTypeOK, LockInv, UsersAgreeWithTable
    <2>3. QED
      BY <2>1, <2>2
  <1>4. RefsCountUsers'
    <2> SUFFICES ASSUME NEW x \in Entries PROVE refs'[x] = Cardinality(Users(x)')
      BY DEF RefsCountUsers
    <2>1. CASE x = e
      <3>1. Users(x)' = {t}
        BY <2>1, <1>t, <1>1 DEF Users, LockTypeOK, Unreachable
      <3>2. QED
        BY <2>1, <3>1, <1>1, <1>t, FS_Singleton DEF LockTypeOK
    <2>2. CASE x # e
      <3>1. Users(x)' = Users(x)
        BY <2>2, <1>t, <1>1, LockAssumption DEF Users, LockTypeOK
      <3>2. QED
        BY <2>2, <3>1, <1>1, <1>t DEF LockTypeOK, LockInv, RefsCountUsers
    <2>3. QED
      BY <2>1, <2>2
  <1>5. NoLeakedSlot'
    BY <1>t, <1>1, LockAssumption DEF LockInv, LockTypeOK, NoLeakedSlot
  <1>6. SlotsDistinct'
    BY <1>t, <1>1 DEF LockInv, LockTypeOK, SlotsDistinct, Unreachable
  <1>7. MutexOwner'
    <2>1. \A s \in Threads : entryOf[s] # e
      BY <1>1 DEF Unreachable
    <2>2. QED
      BY <2>1, <1>t, <1>1 DEF LockInv, LockTypeOK, MutexOwner, UsersAgreeWithTable
  <1>8. QED
    BY <1>2, <1>3, <1>4, <1>5, <1>6, <1>7 DEF LockInv

\* Locking and unlocking entry.mu moves neither references nor slots.
LEMMA AcquireInv ==
    ASSUME LockInv, NEW t \in Threads, Acquire(t)
    PROVE  LockInv'
  <1>t. LockTypeOK /\ entryOf[t] \in Entries
    BY DEF LockInv, Acquire, UsersAgreeWithTable
  <1>1. LockTypeOK'
    BY <1>t DEF Acquire, LockTypeOK, LockPCs
  <1>2. UsersAgreeWithTable'
    BY <1>t DEF LockInv, Acquire, LockTypeOK, UsersAgreeWithTable
  <1>3. RefsCountUsers'
    BY DEF LockInv, Acquire, RefsCountUsers, Users
  <1>4. NoLeakedSlot' /\ SlotsDistinct'
    BY DEF LockInv, Acquire, NoLeakedSlot, SlotsDistinct
  <1>5. MutexOwner'
    BY <1>t, LockAssumption DEF LockInv, Acquire, LockTypeOK, MutexOwner
  <1>6. QED
    BY <1>1, <1>2, <1>3, <1>4, <1>5 DEF LockInv

LEMMA UnlockInv ==
    ASSUME LockInv, NEW t \in Threads, Unlock(t)
    PROVE  LockInv'
  <1>t. LockTypeOK /\ entryOf[t] \in Entries
    BY DEF LockInv, Unlock, UsersAgreeWithTable
  <1>1. LockTypeOK'
    BY <1>t DEF Unlock, LockTypeOK, LockPCs
  <1>2. UsersAgreeWithTable'
    BY <1>t DEF LockInv, Unlock, LockTypeOK, UsersAgreeWithTable
  <1>3. RefsCountUsers'
    BY DEF LockInv, Unlock, RefsCountUsers, Users
  <1>4. NoLeakedSlot' /\ SlotsDistinct'
    BY DEF LockInv, Unlock, NoLeakedSlot, SlotsDistinct
  <1>5. MutexOwner'
    BY <1>t, LockAssumption DEF LockInv, Unlock, LockTypeOK, MutexOwner
  <1>6. QED
    BY <1>1, <1>2, <1>3, <1>4, <1>5 DEF LockInv

\* Dropping a reference: the slot goes exactly when nobody else uses it.
LEMMA UnrefInv ==
    ASSUME LockInv, NEW t \in Threads, Unref(t)
    PROVE  LockInv'
  <1> DEFINE e == entryOf[t]
             k == keyOf[t]
  <1>t. LockTypeOK /\ e \in Entries /\ k \in Keys /\ slot[k] = e /\ pc[t] = "unlocked"
    BY DEF LockInv, Unref, UsersAgreeWithTable
  <1>r. refs[e] \in Nat \ {0}
    <2>1. t \in Users(e) /\ IsFiniteSet(Users(e)) /\ refs[e] = Cardinality(Users(e))
      BY <1>t, UsersFinite DEF Users, LockInv, RefsCountUsers
    <2>2. Cardinality(Users(e)) # 0
      BY <2>1, FS_EmptySet
    <2>3. QED
      BY <2>1, <2>2, UsersFinite
  <1>l. refs[e] = 1 <=> \A s \in Threads : entryOf[s] = e => s = t
    BY <1>t, LastUser
  <1>k. \A s \in Threads : keyOf[s] = k <=> entryOf[s] = e
    <2> SUFFICES ASSUME NEW s \in Threads PROVE keyOf[s] = k <=> entryOf[s] = e
      OBVIOUS
    <2>1. CASE pc[s] = "idle"
      BY <2>1, <1>t, LockAssumption DEF LockInv, UsersAgreeWithTable
    <2>2. CASE pc[s] # "idle"
      BY <2>2, <1>t, LockAssumption DEF LockInv, UsersAgreeWithTable, SlotsDistinct
    <2>3. QED
      BY <2>1, <2>2
  <1>1. LockTypeOK'
    BY <1>t, <1>r DEF Unref, LockTypeOK, LockPCs
  <1>2. UsersAgreeWithTable'
    <2> SUFFICES ASSUME NEW s \in Threads
                 PROVE  IF pc'[s] = "idle"
                        THEN entryOf'[s] = NoEntry /\ keyOf'[s] = NoKey
                        ELSE /\ keyOf'[s] \in Keys
                             /\ entryOf'[s] \in Entries
                             /\ slot'[keyOf'[s]] = entryOf'[s]
      BY DEF UsersAgreeWithTable
    <2>1. CASE s = t
      BY <2>1, <1>t DEF Unref, LockTypeOK
    <2>2. CASE s # t
      <3>1. pc'[s] = pc[s] /\ entryOf'[s] = entryOf[s] /\ keyOf'[s] = keyOf[s]
        BY <2>2, <1>t DEF Unref, LockTypeOK
      <3>2. pc[s] # "idle" => slot'[keyOf[s]] = slot[keyOf[s]]
        BY <2>2, <1>t, <1>l, <1>k DEF Unref, LockTypeOK, LockInv, UsersAgreeWithTable
      <3>3. QED
        BY <3>1, <3>2 DEF LockInv, UsersAgreeWithTable
    <2>3. QED
      BY <2>1, <2>2
  <1>3. RefsCountUsers'
    <2> SUFFICES ASSUME NEW x \in Entries PROVE refs'[x] = Cardinality(Users(x)')
      BY DEF RefsCountUsers
    <2>1. CASE x = e
      <3>1. Users(x)' = Users(x) \ {t} /\ t \in Users(x)
        BY <2>1, <1>t, LockAssumption DEF Unref, Users, LockTypeOK
      <3>2. Cardinality(Users(x)') = Cardinality(Users(x)) - 1
        BY <3>1, UsersFinite, FS_RemoveElement
      <3>3. refs'[x] = refs[x] - 1
        BY <2>1, <1>t DEF Unref, LockTypeOK
      <3>4. QED
        BY <3>2, <3>3 DEF LockInv, RefsCountUsers
    <2>2. CASE x # e
      <3>1. Users(x)' = Users(x)
        BY <2>2, <1>t, LockAssumption DEF Unref, Users, LockTypeOK
      <3>2. refs'[x] = refs[x]
        BY <2>2, <1>t DEF Unref, LockTypeOK
      <3>3. QED
        BY <3>1, <3>2 DEF LockInv, RefsCountUsers
    <2>3. QED
      BY <2>1, <2>2
  <1>4. NoLeakedSlot'
    <2> SUFFICES ASSUME NEW j \in Keys, slot'[j] # NoEntry
                 PROVE  \E s \in Threads : keyOf'[s] = j
      BY DEF NoLeakedSlot
    <2>1. slot[j] # NoEntry
      BY <1>t DEF Unref, LockTypeOK
    <2>2. PICK s \in Threads : keyOf[s] = j
      BY <2>1 DEF LockInv, NoLeakedSlot
    <2>3. CASE j # k
      BY <2>2, <2>3, <1>t DEF Unref, LockTypeOK
    <2>4. CASE j = k
      <3>1. refs[e] # 1
        BY <2>4, <1>t DEF Unref, LockTypeOK
      <3>2. PICK u \in Threads : entryOf[u] = e /\ u # t
        BY <3>1, <1>l
      <3>3. keyOf[u] = k
        BY <3>2, <1>k
      <3>4. QED
        BY <2>4, <3>2, <3>3, <1>t DEF Unref, LockTypeOK
    <2>5. QED
      BY <2>3, <2>4
  <1>5. SlotsDistinct'
    BY <1>t DEF LockInv, Unref, LockTypeOK, SlotsDistinct
  <1>6. MutexOwner'
    BY <1>t DEF LockInv, Unref, LockTypeOK, MutexOwner
  <1>7. QED
    BY <1>1, <1>2, <1>3, <1>4, <1>5, <1>6 DEF LockInv

\* Every step of the lock table preserves the invariant.
LEMMA NextLockInv == LockInv /\ [LockNext]_lockVars => LockInv'
  <1> SUFFICES ASSUME LockInv, [LockNext]_lockVars PROVE LockInv'
    OBVIOUS
  <1>1. ASSUME NEW t \in Threads, NEW k \in Keys, Reuse(t, k) PROVE LockInv'
    BY <1>1, ReuseInv
  <1>2. ASSUME NEW t \in Threads, NEW k \in Keys, Allocate(t, k) PROVE LockInv'
    BY <1>2, AllocateInv
  <1>3. ASSUME NEW t \in Threads, Acquire(t) PROVE LockInv'
    BY <1>3, AcquireInv
  <1>4. ASSUME NEW t \in Threads, Unlock(t) PROVE LockInv'
    BY <1>4, UnlockInv
  <1>5. ASSUME NEW t \in Threads, Unref(t) PROVE LockInv'
    BY <1>5, UnrefInv
  <1>6. CASE LockTableLost
    <2>1. LockInit'
      BY <1>6 DEF LockTableLost, LockInit
    <2>2. QED
      BY <2>1, InitLockInv, PTL
  <1>7. CASE UNCHANGED lockVars
    BY <1>7 DEF lockVars, LockInv, LockTypeOK, UsersAgreeWithTable, RefsCountUsers, Users,
                NoLeakedSlot, SlotsDistinct, MutexOwner
  <1>8. QED
    BY <1>1, <1>2, <1>3, <1>4, <1>5, <1>6, <1>7 DEF LockNext

(***************************************************************************)
(* The lock table of LockAction, LockAuth and lockByKey keeps its          *)
(* invariant: users agree with the table, references are counted exactly,  *)
(* no slot outlives its users, entry.mu belongs to its holder.             *)
(***************************************************************************)
THEOREM LockTableInvariant == LockSpec => []LockInv
  BY InitLockInv, NextLockInv, PTL DEF LockSpec

\* The invariant gives mutual exclusion.
LEMMA LockInvExcludes == LockInv => MutualExclusion
  BY DEF LockInv, MutualExclusion, UsersAgreeWithTable, MutexOwner

(***************************************************************************)
(* Two goroutines never run the critical section of the same key, although *)
(* slots are deleted and entries reallocated between their calls.          *)
(***************************************************************************)
THEOREM LockTableExcludes == LockSpec => []MutualExclusion
  BY LockTableInvariant, LockInvExcludes, PTL

------------------------------------------------------------------------------
\* The refinement mapping, where the invariant holds: a key is owned by the
\* one thread in its critical section.
LEMMA OwnerOfHolder ==
    ASSUME LockInv, NEW k \in Keys
    PROVE  /\ \A t \in Threads : OwnerOf[k] = t <=> pc[t] = "holding" /\ keyOf[t] = k
           /\ OwnerOf[k] = NoThread <=> \A t \in Threads : ~(pc[t] = "holding" /\ keyOf[t] = k)
           /\ OwnerOf[k] \in Threads \union {NoThread}
  <1> DEFINE H(t) == pc[t] = "holding" /\ keyOf[t] = k
  <1>1. \A s, t \in Threads : H(s) /\ H(t) => s = t
    BY LockInvExcludes DEF MutualExclusion
  <1>2. OwnerOf[k] = IF \E t \in Threads : H(t) THEN CHOOSE t \in Threads : H(t) ELSE NoThread
    BY DEF OwnerOf
  <1>3. CASE \E t \in Threads : H(t)
    <2>1. PICK u \in Threads : H(u)
      BY <1>3
    <2>2. (CHOOSE t \in Threads : H(t)) = u
      BY <2>1, <1>1
    <2>3. OwnerOf[k] = u
      BY <1>2, <1>3, <2>2
    <2>4. QED
      BY <2>1, <2>3, <1>1, LockAssumption
  <1>4. CASE ~ \E t \in Threads : H(t)
    BY <1>2, <1>4, LockAssumption
  <1>5. QED
    BY <1>3, <1>4

\* When the holders of a key do not change, neither does its owner.
LEMMA OwnerOfSame ==
    ASSUME LockInv, LockInv', NEW k \in Keys,
           \A t \in Threads : (pc[t] = "holding" /\ keyOf[t] = k)'
                               <=> pc[t] = "holding" /\ keyOf[t] = k
    PROVE  OwnerOf'[k] = OwnerOf[k]
  <1>1. CASE \E t \in Threads : pc[t] = "holding" /\ keyOf[t] = k
    <2>1. PICK u \in Threads : pc[u] = "holding" /\ keyOf[u] = k
      BY <1>1
    <2>2. OwnerOf[k] = u
      BY <2>1, OwnerOfHolder
    <2>3. \A s, t \in Threads : (pc[s] = "holding" /\ keyOf[s] = k)' /\ (pc[t] = "holding" /\ keyOf[t] = k)' => s = t
      BY LockInvExcludes DEF MutualExclusion
    <2>4. (CHOOSE t \in Threads : pc'[t] = "holding" /\ keyOf'[t] = k) = u
      BY <2>1, <2>3
    <2>5. OwnerOf'[k] = u
      BY <2>1, <2>4 DEF OwnerOf
    <2>6. QED
      BY <2>2, <2>5
  <1>2. CASE ~ \E t \in Threads : pc[t] = "holding" /\ keyOf[t] = k
    BY <1>2 DEF OwnerOf
  <1>3. QED
    BY <1>1, <1>2

\* A lock call that only enters the queue of a key.
LEMMA EnterIsAsk ==
    ASSUME LockInv, LockInv', NEW t \in Threads, NEW k \in Keys,
           pc[t] = "idle",
           pc' = [pc EXCEPT ![t] = "waiting"], keyOf' = [keyOf EXCEPT ![t] = k]
    PROVE  Abstract!Ask(t, k)
  <1>t. LockTypeOK /\ keyOf[t] = NoKey
    BY DEF LockInv, UsersAgreeWithTable
  <1>1. \A j \in Keys : OwnerOf[j] # t /\ t \notin Waiting[j]
    BY <1>t, OwnerOfHolder DEF Waiting
  <1>2. OwnerOf' = OwnerOf
    <2>1. \A j \in Keys : OwnerOf'[j] = OwnerOf[j]
      BY <1>t, OwnerOfSame DEF LockTypeOK
    <2>2. QED
      BY <2>1 DEF OwnerOf
  <1>3. Waiting' = [Waiting EXCEPT ![k] = @ \union {t}]
    BY <1>t DEF Waiting, LockTypeOK
  <1>4. QED
    BY <1>1, <1>2, <1>3 DEF Abstract!Ask

\* entry.mu.Lock() of a free entry takes the key.
LEMMA AcquireIsTake ==
    ASSUME LockInv, LockInv', NEW t \in Threads, Acquire(t)
    PROVE  Abstract!Take(t, keyOf[t])
  <1> DEFINE k == keyOf[t]
  <1>t. LockTypeOK /\ k \in Keys /\ entryOf[t] \in Entries /\ slot[k] = entryOf[t]
    BY DEF LockInv, Acquire, UsersAgreeWithTable
  <1>1. t \in Waiting[k]
    BY <1>t DEF Waiting, Acquire
  <1>2. OwnerOf[k] = NoThread
    <2>1. ASSUME NEW s \in Threads, pc[s] = "holding", keyOf[s] = k PROVE FALSE
      BY <2>1, <1>t, LockAssumption DEF LockInv, UsersAgreeWithTable, MutexOwner, Acquire
    <2>2. QED
      BY <2>1, <1>t, OwnerOfHolder
  <1>3. OwnerOf' = [OwnerOf EXCEPT ![k] = t]
    <2>1. OwnerOf'[k] = t
      <3>1. pc'[t] = "holding" /\ keyOf'[t] = k
        BY <1>t DEF Acquire, LockTypeOK
      <3>2. \A s \in Threads : pc'[s] = "holding" /\ keyOf'[s] = k => s = t
        BY <1>2, <1>t, OwnerOfHolder DEF Acquire, LockTypeOK
      <3>3. (CHOOSE s \in Threads : pc'[s] = "holding" /\ keyOf'[s] = k) = t
        BY <3>1, <3>2
      <3>4. QED
        BY <1>t, <3>1, <3>3 DEF OwnerOf
    <2>2. ASSUME NEW j \in Keys, j # k PROVE OwnerOf'[j] = OwnerOf[j]
      BY <2>2, <1>t, OwnerOfSame DEF Acquire, LockTypeOK
    <2>3. QED
      BY <2>1, <2>2 DEF OwnerOf
  <1>4. Waiting' = [Waiting EXCEPT ![k] = @ \ {t}]
    BY <1>t DEF Waiting, Acquire, LockTypeOK
  <1>5. QED
    BY <1>1, <1>2, <1>3, <1>4 DEF Abstract!Take

\* entry.mu.Unlock() gives the key back.
LEMMA UnlockIsGive ==
    ASSUME LockInv, LockInv', NEW t \in Threads, Unlock(t)
    PROVE  Abstract!Give(t, keyOf[t])
  <1> DEFINE k == keyOf[t]
  <1>t. LockTypeOK /\ k \in Keys
    BY DEF LockInv, Unlock, UsersAgreeWithTable
  <1>1. OwnerOf[k] = t
    BY <1>t, OwnerOfHolder DEF Unlock
  <1>2. OwnerOf' = [OwnerOf EXCEPT ![k] = NoThread]
    <2>1. OwnerOf'[k] = NoThread
      <3>1. \A s \in Threads : pc[s] = "holding" /\ keyOf[s] = k => s = t
        BY <1>1, <1>t, OwnerOfHolder
      <3>2. \A s \in Threads : ~(pc'[s] = "holding" /\ keyOf'[s] = k)
        BY <3>1, <1>t DEF Unlock, LockTypeOK
      <3>3. QED
        BY <3>2, <1>t DEF OwnerOf
    <2>2. ASSUME NEW j \in Keys, j # k PROVE OwnerOf'[j] = OwnerOf[j]
      BY <2>2, <1>t, OwnerOfSame DEF Unlock, LockTypeOK
    <2>3. QED
      BY <2>1, <2>2 DEF OwnerOf
  <1>3. Waiting' = Waiting
    BY <1>t DEF Waiting, Unlock, LockTypeOK
  <1>4. QED
    BY <1>1, <1>2, <1>3 DEF Abstract!Give

\* Dropping the reference is invisible.
LEMMA UnrefIsStutter ==
    ASSUME LockInv, LockInv', NEW t \in Threads, Unref(t)
    PROVE  OwnerOf' = OwnerOf /\ Waiting' = Waiting
  <1>t. LockTypeOK /\ pc[t] = "unlocked"
    BY DEF LockInv, Unref
  <1>1. \A j \in Keys : OwnerOf'[j] = OwnerOf[j]
    BY <1>t, OwnerOfSame DEF Unref, LockTypeOK
  <1>2. QED
    BY <1>1, <1>t DEF OwnerOf, Waiting, Unref, LockTypeOK

(***************************************************************************)
(* The reference-counted table implements one mutual-exclusion lock per    *)
(* key: allocation, sharing and deletion of entries are invisible to the   *)
(* callers of LockAction, LockAuth and LockAutoDrawPlan.                   *)
(***************************************************************************)
THEOREM LockTableRefinesMutex == LockSpec => ImplementsMutex
  <1>1. LockInit => Abstract!MutexInit
    BY DEF LockInit, Abstract!MutexInit, OwnerOf, Waiting
  <1>2. LockInv /\ LockInv' /\ [LockNext]_lockVars => [Abstract!MutexNext]_(Abstract!mutexVars)
    <2> SUFFICES ASSUME LockInv, LockInv', [LockNext]_lockVars
                 PROVE  [Abstract!MutexNext]_(Abstract!mutexVars)
      OBVIOUS
    <2>1. ASSUME NEW t \in Threads, NEW k \in Keys, Reuse(t, k) \/ Allocate(t, k)
          PROVE  Abstract!Ask(t, k)
      BY <2>1, EnterIsAsk DEF Reuse, Allocate
    <2>2. ASSUME NEW t \in Threads, Acquire(t)
          PROVE  keyOf[t] \in Keys /\ Abstract!Take(t, keyOf[t])
      BY <2>2, AcquireIsTake DEF LockInv, UsersAgreeWithTable, Acquire
    <2>3. ASSUME NEW t \in Threads, Unlock(t)
          PROVE  keyOf[t] \in Keys /\ Abstract!Give(t, keyOf[t])
      BY <2>3, UnlockIsGive DEF LockInv, UsersAgreeWithTable, Unlock
    <2>4. ASSUME NEW t \in Threads, Unref(t)
          PROVE  UNCHANGED Abstract!mutexVars
      BY <2>4, UnrefIsStutter DEF Abstract!mutexVars
    <2>5. ASSUME LockTableLost PROVE Abstract!AllLost
      <3>1. LockInit'
        BY <2>5 DEF LockTableLost, LockInit
      <3>2. QED
        BY <3>1, <1>1, PTL DEF Abstract!AllLost
    <2>6. CASE UNCHANGED lockVars
      BY <2>6 DEF lockVars, Abstract!mutexVars, OwnerOf, Waiting
    <2>7. QED
      BY <2>1, <2>2, <2>3, <2>4, <2>5, <2>6 DEF LockNext, Abstract!MutexNext
  <1>3. QED
    BY <1>1, <1>2, LockTableInvariant, PTL DEF LockSpec, ImplementsMutex, Abstract!MutexSpec

------------------------------------------------------------------------------
(***************************************************************************)
(* The daily claim.                                                        *)
(***************************************************************************)
LEMMA InitClaimInv == ClaimInit => ClaimInv
  <1> SUFFICES ASSUME ClaimInit PROVE ClaimInv
    OBVIOUS
  <1>1. act.status = "none" /\ act.started = FALSE /\ act \in Actions
    BY DEF ClaimInit, NoAction, Actions, Statuses
  <1>2. ClaimTypeOK
    <2>1. before \in Int \union {NoCount} /\ claimLock \in Callers \union {Nobody} /\ left \in Int
      BY ClaimAssumption DEF ClaimInit
    <2>2. claimAt \in [Callers -> ClaimPCs] /\ claimReply \in [Callers -> ClaimReplies]
      BY DEF ClaimInit, ClaimPCs, ClaimReplies
    <2>3. open \in BOOLEAN /\ bought \in BOOLEAN /\ claimed \in BOOLEAN /\ late \in BOOLEAN
      BY DEF ClaimInit
    <2>4. QED
      BY <1>1, <2>1, <2>2, <2>3 DEF ClaimTypeOK
  <1>3. LockHeld /\ RecordFollowsCall /\ GrantsArePosted /\ BaselineIsFresh
    BY ClaimAssumption DEF ClaimInit, LockHeld, RecordFollowsCall, GrantsArePosted, BaselineIsFresh
  <1>4. RecordShape /\ OpenClaimIsOnRecord /\ BaselineHolds /\ CompletedIsGranted
    BY <1>1 DEF ClaimInit, RecordShape, OpenClaimIsOnRecord, BaselineHolds, CompletedIsGranted
  <1>5. QED
    BY <1>2, <1>3, <1>4 DEF ClaimInv

\* A call that writes a as its last step and returns.
LEMMA RecordAndReturn ==
    ASSUME ClaimInv, NEW c \in Callers, claimLock = c, NEW a \in Actions,
           act' = a, ClaimReturn(c), UNCHANGED <<before, open, bought, claimPlatform>>,
           a.status \in {"completed", "unknown"} => a.started,
           a.status \in {"none", "failed"} => ~a.started,
           a.started => act.started,
           ~a.started => ~open,
           a.status = "completed" /\ ~bought => claimed
    PROVE  ClaimInv'
  <1>u. UNCHANGED <<before, open, bought, claimed, late, left>>
    BY DEF claimPlatform
  <1>p. \A d \in Callers : claimAt'[d] = "idle"
    BY DEF ClaimReturn, ClaimInv, ClaimTypeOK, LockHeld
  <1>1. ClaimTypeOK'
    BY <1>u, ClaimAssumption DEF ClaimInv, ClaimTypeOK, ClaimReturn, ClaimPCs, ClaimReplies
  <1>2. LockHeld'
    BY <1>p, ClaimAssumption DEF LockHeld, ClaimReturn
  <1>3. RecordFollowsCall'
    BY <1>p DEF RecordFollowsCall
  <1>4. BaselineIsFresh'
    BY <1>p DEF BaselineIsFresh
  <1>5. QED
    BY <1>1, <1>2, <1>3, <1>4, <1>u
    DEF ClaimInv, RecordShape, GrantsArePosted, OpenClaimIsOnRecord, BaselineHolds,
        CompletedIsGranted

\* The steps before the post.
LEMMA EnterKeepsInv ==
    ASSUME ClaimInv, NEW c \in Callers,
           TakeLock(c) \/ EnterNew(c) \/ EnterReset(c) \/ EnterResume(c) \/ EnterReconcile(c)
    PROVE  ClaimInv'
  <1> USE LedgerAssumption, ClaimAssumption
  <1> USE DEF ClaimInv, ClaimTypeOK, LockHeld, RecordFollowsCall, RecordShape, GrantsArePosted,
      OpenClaimIsOnRecord, BaselineIsFresh, BaselineHolds, CompletedIsGranted,
      Actions, Statuses, ClaimPCs, ClaimReplies, ClaimGoto, claimStore, claimPlatform
  <1>1. CASE TakeLock(c)
    BY <1>1 DEF TakeLock
  <1>2. CASE EnterNew(c)
    BY <1>2 DEF EnterNew, NewAction
  <1>3. CASE EnterReset(c)
    BY <1>3 DEF EnterReset, MayReset, ResetRetryable
  <1>4. CASE EnterResume(c)
    BY <1>4 DEF EnterResume
  <1>5. CASE EnterReconcile(c)
    BY <1>5 DEF EnterReconcile
  <1>6. QED
    BY <1>1, <1>2, <1>3, <1>4, <1>5

LEMMA PostKeepsInv ==
    ASSUME ClaimInv, NEW c \in Callers,
           Preflight(c) \/ Start(c) \/ Post(c) \/ PostUnauthorized(c)
    PROVE  ClaimInv'
  <1> USE LedgerAssumption, ClaimAssumption
  <1> USE DEF ClaimInv, ClaimTypeOK, LockHeld, RecordFollowsCall, RecordShape, GrantsArePosted,
      OpenClaimIsOnRecord, BaselineIsFresh, BaselineHolds, CompletedIsGranted,
      Actions, Statuses, ClaimPCs, ClaimReplies, ClaimGoto, claimStore, claimPlatform
  <1>1. CASE Preflight(c)
    <2>1. /\ act' \in Actions /\ act'.status = "pending" /\ act'.started = FALSE
          /\ before' = left /\ before' \in Int /\ before' # NoCount
          /\ claimAt' = [claimAt EXCEPT ![c] = "start"]
          /\ bought' = FALSE
          /\ UNCHANGED <<claimLock, claimReply, open, claimed, late, left>>
      BY <1>1 DEF Preflight
    <2>2. claimLock = c /\ act.status = "pending" /\ act.started = FALSE
      BY <1>1 DEF Preflight
    <2>3. ClaimTypeOK'
      BY <2>1
    <2>4. LockHeld' /\ RecordFollowsCall'
      BY <2>1, <2>2
    <2>5. RecordShape' /\ GrantsArePosted' /\ OpenClaimIsOnRecord' /\ BaselineHolds' /\ CompletedIsGranted'
      BY <2>1, <2>2
    <2>6. BaselineIsFresh'
      BY <2>1
    <2>7. QED
      BY <2>3, <2>4, <2>5, <2>6
  <1>2. CASE Start(c)
    BY <1>2 DEF Start, StartAction
  <1>3. CASE Post(c)
    <2>1. /\ claimLock = c /\ act.status = "pending" /\ act.started /\ open = FALSE
          /\ claimAt' = [claimAt EXCEPT ![c] = "verify"]
          /\ UNCHANGED <<act, before, claimLock, bought>>
      BY <1>3 DEF Post
    <2>2. CASE GrantNow /\ open' = TRUE /\ claimReply' = [claimReply EXCEPT ![c] = "success"]
      BY <2>1, <2>2 DEF GrantNow
    <2>3. CASE UNCHANGED <<claimPlatform, open>> /\ claimReply' = [claimReply EXCEPT ![c] = "refused"]
      BY <2>1, <2>3
    <2>4. CASE /\ GrantNow \/ GrantLater \/ UNCHANGED claimPlatform
               /\ open' = TRUE
               /\ claimReply' = [claimReply EXCEPT ![c] = "error"]
      <3>1. CASE GrantNow
        BY <2>1, <2>4, <3>1 DEF GrantNow
      <3>2. CASE GrantLater \/ UNCHANGED claimPlatform
        BY <2>1, <2>4, <3>2 DEF GrantLater
      <3>3. QED
        BY <2>4, <3>1, <3>2
    <2>5. QED
      BY <1>3, <2>2, <2>3, <2>4 DEF Post
  <1>4. CASE PostUnauthorized(c)
    BY <1>4 DEF PostUnauthorized
  <1>5. QED
    BY <1>1, <1>2, <1>3, <1>4

LEMMA ReturnKeepsInv ==
    ASSUME ClaimInv, NEW c \in Callers,
           \/ EnterRecorded(c) \/ PreflightFails(c) \/ FinishSuccess(c) \/ FinishRefused(c)
           \/ FinishByCount(c) \/ Reconcile(c) \/ ReconcileBlind(c) \/ StoreFails(c)
    PROVE  ClaimInv'
  <1> USE LedgerAssumption, ClaimAssumption
  <1> USE DEF ClaimInv
  <1>l. claimAt[c] # "idle" => claimLock = c
    BY DEF LockHeld
  <1>a. act \in Actions
    BY DEF ClaimTypeOK
  <1>g. act.started /\ Grown /\ ~bought => claimed
    BY DEF BaselineHolds, Grown, ClaimTypeOK
  <1> USE <1>l, <1>a, <1>g
  <1>1. CASE EnterRecorded(c)
    <2>1. act' = act /\ UNCHANGED before
      BY <1>1 DEF EnterRecorded, claimStore
    <2>2. claimLock = c /\ ClaimReturn(c) /\ UNCHANGED <<open, bought, claimPlatform>>
      BY <1>1 DEF EnterRecorded
    <2>3. QED
      BY <2>1, <2>2, RecordAndReturn
      DEF RecordShape, OpenClaimIsOnRecord, CompletedIsGranted
  <1>2. CASE PreflightFails(c)
    <2>1. claimLock = c /\ ClaimReturn(c) /\ UNCHANGED <<before, open, bought, claimPlatform>> /\ ~open
      BY <1>2 DEF PreflightFails, RecordFollowsCall, OpenClaimIsOnRecord
    <2>2. PICK retry \in BOOLEAN : act' = FailUnstarted(act, retry)
      BY <1>2 DEF PreflightFails
    <2>3. FailUnstarted(act, retry) \in Actions
      BY DEF FailUnstarted, Actions, Statuses
    <2>4. /\ FailUnstarted(act, retry).status = "failed"
          /\ FailUnstarted(act, retry).started = FALSE
      BY DEF FailUnstarted, Actions
    <2>5. QED
      BY <2>1, <2>2, <2>3, <2>4, RecordAndReturn
  <1>s. ASSUME NEW s \in {"completed", "unknown"}
        PROVE  /\ Settle(act, s) \in Actions
               /\ Settle(act, s).status = s
               /\ Settle(act, s).started = act.started
    BY DEF Settle, Actions, Statuses
  <1>3. CASE FinishSuccess(c)
    <2>1. claimLock = c /\ ClaimReturn(c) /\ UNCHANGED <<before, open, bought, claimPlatform>> /\ act.started /\ claimed
      BY <1>3 DEF FinishSuccess, RecordFollowsCall
    <2>2. act' = Settle(act, "completed")
      BY <1>3 DEF FinishSuccess
    <2>3. QED
      BY <1>s, <2>1, <2>2, RecordAndReturn
  <1>4. CASE FinishRefused(c)
    <2>1. claimLock = c /\ ClaimReturn(c) /\ UNCHANGED <<before, open, bought, claimPlatform>> /\ ~open
      BY <1>4 DEF FinishRefused, RecordFollowsCall
    <2>2. act' = FailUnstarted(act, TRUE)
      BY <1>4 DEF FinishRefused
    <2>3. /\ FailUnstarted(act, TRUE) \in Actions
          /\ FailUnstarted(act, TRUE).status = "failed"
          /\ FailUnstarted(act, TRUE).started = FALSE
      BY DEF FailUnstarted, Actions, Statuses
    <2>4. QED
      BY <2>1, <2>2, <2>3, RecordAndReturn
  <1>5. CASE FinishByCount(c)
    <2>1. claimLock = c /\ ClaimReturn(c) /\ UNCHANGED <<before, open, bought, claimPlatform>> /\ act.started
      BY <1>5 DEF FinishByCount, RecordFollowsCall
    <2>2. CASE Grown /\ act' = Settle(act, "completed")
      BY <1>s, <2>1, <2>2, RecordAndReturn
    <2>3. CASE act' = Settle(act, "unknown")
      BY <1>s, <2>1, <2>3, RecordAndReturn
    <2>4. QED
      BY <1>5, <2>2, <2>3 DEF FinishByCount
  <1>6. CASE Reconcile(c)
    <2>1. claimLock = c /\ ClaimReturn(c) /\ UNCHANGED <<before, open, bought, claimPlatform>> /\ act.started
      BY <1>6 DEF Reconcile, RecordFollowsCall
    <2>2. CASE Grown
      <3>1. act' = Settle(act, "completed")
        BY <1>6, <2>2 DEF Reconcile
      <3>2. QED
        BY <1>s, <2>1, <2>2, <3>1, RecordAndReturn
    <2>3. CASE ~Grown
      <3>1. act' = Settle(act, "unknown")
        BY <1>6, <2>3 DEF Reconcile
      <3>2. QED
        BY <1>s, <2>1, <3>1, RecordAndReturn
    <2>4. QED
      BY <2>2, <2>3
  <1>7. CASE ReconcileBlind(c)
    <2>1. /\ claimLock = c /\ ClaimReturn(c) /\ UNCHANGED <<before, open, bought, claimPlatform>>
          /\ act.started /\ act.status \in {"pending", "unknown"}
      BY <1>7 DEF ReconcileBlind, RecordFollowsCall
    <2>2. CASE act' = act
      BY <2>1, <2>2, RecordAndReturn
    <2>3. CASE act' = Settle(act, "unknown")
      BY <1>s, <2>1, <2>3, RecordAndReturn
    <2>4. QED
      BY <1>7, <2>2, <2>3 DEF ReconcileBlind
  <1>8. CASE StoreFails(c)
    <2>1. act' = act /\ UNCHANGED before
      BY <1>8 DEF StoreFails, claimStore
    <2>2. claimLock = c /\ ClaimReturn(c) /\ UNCHANGED <<open, bought, claimPlatform>>
      BY <1>8 DEF StoreFails
    <2>3. QED
      BY <2>1, <2>2, RecordAndReturn
      DEF RecordShape, OpenClaimIsOnRecord, CompletedIsGranted
  <1>9. QED
    BY <1>1, <1>2, <1>3, <1>4, <1>5, <1>6, <1>7, <1>8

\* The platform, other grants, draws and crashes.
LEMMA WorldKeepsInv ==
    ASSUME ClaimInv, ClaimCrash \/ ArriveLate \/ NeverArrives \/ DrawOne \/ OtherGrant
    PROVE  ClaimInv'
  <1> USE LedgerAssumption, ClaimAssumption
  <1> USE DEF ClaimInv, ClaimTypeOK, LockHeld, RecordFollowsCall, RecordShape, GrantsArePosted,
      OpenClaimIsOnRecord, BaselineIsFresh, BaselineHolds, CompletedIsGranted,
      ClaimPCs, ClaimReplies, claimStore, claimPlatform
  <1>1. CASE ClaimCrash
    BY <1>1 DEF ClaimCrash
  <1>2. CASE ArriveLate
    <2>1. CASE claimed
      BY <1>2, <2>1 DEF ArriveLate
    <2>2. CASE ~claimed
      <3>1. /\ claimed' = TRUE /\ late' = FALSE /\ left' = left + Grant /\ left' \in Int
            /\ UNCHANGED <<act, before, claimLock, claimAt, claimReply, open, bought>> /\ open
        BY <1>2, <2>2 DEF ArriveLate
      <3>2. QED
        BY <3>1
    <2>3. QED
      BY <2>1, <2>2
  <1>3. CASE NeverArrives
    BY <1>3 DEF NeverArrives
  <1>4. CASE DrawOne
    BY <1>4 DEF DrawOne
  <1>5. CASE OtherGrant
    BY <1>5 DEF OtherGrant
  <1>6. QED
    BY <1>1, <1>2, <1>3, <1>4, <1>5

LEMMA NextKeepsInv == ClaimInv /\ [ClaimNext]_claimVars => ClaimInv'
  <1> SUFFICES ASSUME ClaimInv, [ClaimNext]_claimVars PROVE ClaimInv'
    OBVIOUS
  <1>1. ASSUME NEW c \in Callers, ClaimCall(c) PROVE ClaimInv'
    BY <1>1, EnterKeepsInv, PostKeepsInv, ReturnKeepsInv DEF ClaimCall
  <1>2. CASE UNCHANGED claimVars
    BY <1>2 DEF claimVars, ClaimInv, ClaimTypeOK, LockHeld, RecordFollowsCall, RecordShape,
        GrantsArePosted, OpenClaimIsOnRecord, BaselineIsFresh, BaselineHolds,
        CompletedIsGranted
  <1>3. QED
    BY <1>1, <1>2, WorldKeepsInv DEF ClaimNext

\* The invariant of the daily claim holds whatever runs concurrently, crashes
\* or fails to be written.
THEOREM ClaimInvariant == ClaimSpec => []ClaimInv
  BY InitClaimInv, NextKeepsInv, PTL DEF ClaimSpec

\* A claim that may have been granted is on record as started or completed.
THEOREM OpenClaimStaysOnRecord == ClaimSpec => []OpenClaimIsOnRecord
  <1>1. ClaimInv => OpenClaimIsOnRecord
    BY DEF ClaimInv
  <1>2. QED
    BY <1>1, ClaimInvariant, PTL

\* A claim is completed only if it was granted, or draws came from elsewhere
\* after the number it is compared with was read.
THEOREM CompletedClaimWasGranted == ClaimSpec => []CompletedIsGranted
  <1>1. ClaimInv => CompletedIsGranted
    BY DEF ClaimInv
  <1>2. QED
    BY <1>1, ClaimInvariant, PTL

\* While a claim may have been granted no claim is posted, with other grants
\* or without.
THEOREM OpenClaimStaysUnposted == ClaimSpec => OpenClaimIsNotReposted
  <1>1. ClaimInv => \A c \in Callers : claimAt[c] \in {"post", "repost"} => ~open
    BY DEF ClaimInv, RecordFollowsCall
  <1>2. ClaimInv /\ [ClaimNext]_claimVars =>
          [\A c \in Callers : claimAt[c] \in {"post", "repost"} /\ claimAt'[c] = "verify" => ~open]_claimVars
    BY <1>1
  <1>3. QED
    BY <1>2, ClaimInvariant, PTL DEF ClaimSpec, OpenClaimIsNotReposted

------------------------------------------------------------------------------
(***************************************************************************)
(* The process.                                                            *)
(***************************************************************************)
\* A call that asks for the lock has read the date.
CallsHaveDates == \A t \in Threads : step[t] = "enter" => dayOf[t] \in Keys

\* No step of the process uses the lock table but as KeyedLock says.
LEMMA LocksAsKeyedLock == CallsHaveDates /\ [Next]_vars => [LockNext]_lockVars
  <1> SUFFICES ASSUME CallsHaveDates, [Next]_vars PROVE [LockNext]_lockVars
    OBVIOUS
  <1> USE WorkbenchAssumption
  <1>1. ASSUME NEW r \in Requests, Ask(r) \/ Front(r) \/ Claim(r) PROVE UNCHANGED lockVars
    BY <1>1 DEF Ask, Front, Claim, OtherThanSessions
  <1>2. ASSUME NEW r \in Requests, Put(r) \/ Switch(r) PROVE UNCHANGED lockVars
    BY <1>2 DEF Put, Switch, OtherThanTasks
  <1>3. ASSUME NEW r \in Requests, StartDraw(r) \/ StartPlan(r) PROVE UNCHANGED lockVars
    BY <1>3 DEF StartDraw, StartPlan, BeginClick, BeginPlan, Begin
  <1>4. ASSUME NEW r \in Requests, EndDraw(r) \/ EndPlan(r) PROVE UNCHANGED lockVars
    BY <1>4 DEF EndDraw, EndPlan, WriteRow, NoRow, Finished
  <1>5. ASSUME NEW r \in Requests, Draw(r) PROVE LockNext \/ UNCHANGED lockVars
    <2>1. DrawCall(r)
      BY <1>5 DEF Draw
    <2>2. CASE AskLock(r)
      BY <2>2 DEF AskLock, LockNext, CallsHaveDates
    <2>3. CASE TakeDrawLock(r) \/ ReleaseDraw(r)
      BY <2>3 DEF TakeDrawLock, ReleaseDraw, LockNext
    <2>4. CASE GetSession(r) \/ DashboardFails(r) \/ Dashboard(r)
      BY <2>4 DEF GetSession, DashboardFails, Dashboard, InLock
    <2>5. CASE DrawAnswered(r) \/ DrawRefused(r) \/ DrawUnauthorized(r) \/ DrawLost(r)
      BY <2>5 DEF DrawAnswered, DrawRefused, DrawUnauthorized, DrawLost, Posts, InLock
    <2>6. QED
      BY <2>1, <2>2, <2>3, <2>4, <2>5 DEF DrawCall
  <1>6. CASE Platform
    BY <1>6 DEF Platform, OtherThanClaims, QueuedDraw, DrawElsewhere, Midnight, Outside
  <1>7. CASE TimePasses
    BY <1>7 DEF TimePasses, OtherThanSessions
  <1>8. CASE Restart
    BY <1>8 DEF Restart, DrawsLost, LockNext
  <1>9. CASE UNCHANGED vars
    BY <1>9 DEF vars
  <1>10. QED
    BY <1>1, <1>2, <1>3, <1>4, <1>5, <1>6, <1>7, <1>8, <1>9 DEF Next, Serve

\* ... nor the claims but as DailyClaim says: a draw is its DrawOne.
LEMMA ClaimsAsDailyClaim == [Next]_vars => [ClaimNext]_claimVars
  <1> SUFFICES ASSUME [Next]_vars PROVE [ClaimNext]_claimVars
    OBVIOUS
  <1> USE WorkbenchAssumption, DrawAssumption
  <1>1. ASSUME NEW r \in Requests, Ask(r) \/ Front(r) \/ Put(r) \/ Switch(r)
        PROVE  UNCHANGED claimVars
    BY <1>1 DEF Ask, Front, Put, Switch, OtherThanSessions, OtherThanTasks
  <1>2. ASSUME NEW r \in Requests, StartDraw(r) \/ StartPlan(r) PROVE UNCHANGED claimVars
    BY <1>2 DEF StartDraw, StartPlan, BeginClick, BeginPlan, Begin
  <1>3. ASSUME NEW r \in Requests, EndDraw(r) \/ EndPlan(r) PROVE UNCHANGED claimVars
    BY <1>3 DEF EndDraw, EndPlan, WriteRow, NoRow, Finished
  <1>4. ASSUME NEW r \in Requests, Draw(r) PROVE ClaimNext \/ UNCHANGED claimVars
    <2>1. DrawCall(r)
      BY <1>4 DEF Draw
    <2>2. CASE AskLock(r) \/ TakeDrawLock(r) \/ ReleaseDraw(r)
      BY <2>2 DEF AskLock, TakeDrawLock, ReleaseDraw
    <2>3. CASE GetSession(r) \/ DashboardFails(r) \/ Dashboard(r)
      BY <2>3 DEF GetSession, DashboardFails, Dashboard
    <2>4. CASE DrawAnswered(r) \/ DrawRefused(r) \/ DrawUnauthorized(r) \/ DrawLost(r)
      BY <2>4 DEF DrawAnswered, DrawRefused, DrawUnauthorized, DrawLost, MakeDraw, ClaimNext
    <2>5. QED
      BY <2>1, <2>2, <2>3, <2>4 DEF DrawCall
  <1>5. ASSUME NEW r \in Requests, Claim(r) PROVE ClaimNext
    BY <1>5 DEF Claim, ClaimNext
  <1>6. CASE Platform
    BY <1>6 DEF Platform, QueuedDraw, DrawElsewhere, Midnight, MakeDraw, ClaimNext
  <1>7. CASE TimePasses
    BY <1>7 DEF TimePasses, OtherThanSessions
  <1>8. CASE Restart
    BY <1>8 DEF Restart, ClaimNext
  <1>9. CASE UNCHANGED vars
    BY <1>9 DEF vars
  <1>10. QED
    BY <1>1, <1>2, <1>3, <1>4, <1>5, <1>6, <1>7, <1>8, <1>9 DEF Next, Serve

\* The process implements DailyClaim.
THEOREM ClaimsImplemented == Spec => ClaimSpec
  BY ClaimsAsDailyClaim, PTL DEF Spec, Init, ClaimSpec

------------------------------------------------------------------------------
(***************************************************************************)
(* Draws.  The invariant is DrawInv together with what it is for: the log  *)
(* is true, and a chance that was seen is there.                           *)
(***************************************************************************)
DrawSafe == DrawInv /\ LogTellsTheTruth /\ ChanceIsThere

LEMMA InitDrawSafe == Init => DrawSafe
  <1> SUFFICES ASSUME Init PROVE DrawSafe
    OBVIOUS
  <1> USE WorkbenchAssumption, DrawAssumption, LockAssumption
  <1>1. DrawTypeOK
    BY DEF Init, DrawInit, DrawTypeOK, Steps, Outcomes, Rows
  <1>2. LockFollowsCall
    BY DEF Init, DrawInit, LockInit, LockFollowsCall
  <1>3. KeysFollowCalls
    BY DEF Init, DrawInit, KeysFollowCalls
  <1>4. ResultsAreTrue
    BY DEF Init, DrawInit, ResultsAreTrue
  <1>5. LogTellsTheTruth /\ ChanceIsThere
    BY DEF Init, DrawInit, LogTellsTheTruth, ChanceIsThere
  <1>6. QED
    BY <1>1, <1>2, <1>3, <1>4, <1>5 DEF DrawSafe, DrawInv

\* Steps that are not about draws may add chances and take none away.
LEMMA OthersKeepDraws ==
    ASSUME DrawSafe, left \in Int, left' \in Int, left' >= left, UNCHANGED <<drawVars, lockVars>>
    PROVE  DrawSafe'
  <1> USE DEF DrawSafe, DrawInv, drawVars, drawHistory, drawPlatform, lockVars
  <1>1. DrawTypeOK'
    BY DEF DrawTypeOK
  <1>2. LockFollowsCall'
    BY DEF LockFollowsCall
  <1>3. KeysFollowCalls'
    BY DEF KeysFollowCalls
  <1>4. ResultsAreTrue'
    BY DEF ResultsAreTrue, Resumed
  <1>5. LogTellsTheTruth'
    BY DEF LogTellsTheTruth, Resumed
  <1>6. ChanceIsThere'
    BY DEF ChanceIsThere
  <1>7. QED
    BY <1>1, <1>2, <1>3, <1>4, <1>5, <1>6

\* A call begins: its key is fresh, or nobody uses the key of the plan.
LEMMA BeginKeepsDraws ==
    ASSUME DrawSafe, LockInv, NEW t \in Threads, BeginClick(t) \/ BeginPlan(t)
    PROVE  DrawSafe'
  <1> USE DrawAssumption
  <1>1. PICK k \in DrawKeys :
        /\ rows[k] = "none"
        /\ step[t] = "none" /\ step' = [step EXCEPT ![t] = "enter"]
        /\ dayOf' = [dayOf EXCEPT ![t] = today]
        /\ idem' = [idem EXCEPT ![t] = k]
        /\ \A u \in Threads : idem[u] # k
        /\ UNCHANGED <<today, outcome, rows, posted, stolen, drawn, queued, pc, keyOf, left>>
        /\ DOMAIN click' = DOMAIN click \union {k}
        /\ \A j \in DOMAIN click' : click'[j] = j
        /\ again' \in BOOLEAN
        /\ k # PlanKey => k \notin DOMAIN click /\ again' = again
        /\ k = PlanKey => again' = posted
    <2>1. CASE BeginClick(t)
      <3>1. PICK j \in DrawKeys : Fresh(j) /\ Begin(t, j) /\ click' = Named(j, j) /\ UNCHANGED again
        BY <2>1 DEF BeginClick
      <3>2. j # PlanKey /\ rows[j] = "none"
        BY <3>1 DEF Fresh, DrawSafe, DrawInv, KeysFollowCalls
      <3>3. \A u \in Threads : idem[u] # j
        BY <3>1 DEF Fresh, DrawSafe, DrawInv, KeysFollowCalls
      <3>4. DOMAIN click' = DOMAIN click \union {j} /\ \A i \in DOMAIN click' : click'[i] = i
        BY <3>1 DEF Named, DrawSafe, DrawInv, KeysFollowCalls
      <3>5. QED
        BY <3>1, <3>2, <3>3, <3>4 DEF Begin, GoTo, Fresh, DrawSafe, DrawInv, DrawTypeOK,
           drawPlatform, lockVars, claimVars
    <2>2. CASE BeginPlan(t)
      <3>1. DOMAIN click' = DOMAIN click \union {PlanKey} /\ \A i \in DOMAIN click' : click'[i] = i
        BY <2>2 DEF BeginPlan, DrawSafe, DrawInv, KeysFollowCalls
      <3>2. QED
        BY <2>2, <3>1 DEF BeginPlan, Begin, GoTo, DrawSafe, DrawInv, DrawTypeOK,
           drawPlatform, lockVars, claimVars
    <2>3. QED
      BY <2>1, <2>2
  <1>2. k \notin DOMAIN click => k \notin drawn \union queued
    BY DEF DrawSafe, DrawInv, DrawTypeOK
  <1> USE DEF DrawSafe, DrawInv
  <1>3. DrawTypeOK'
    BY <1>1 DEF DrawTypeOK, Steps
  <1>4. LockFollowsCall'
    BY <1>1 DEF LockFollowsCall, DrawTypeOK
  <1>5. KeysFollowCalls'
    BY <1>1 DEF KeysFollowCalls, DrawTypeOK
  <1>6. ResultsAreTrue'
    <2>1. (k = PlanKey /\ again') \/ k \notin drawn \union queued
      BY <1>1, <1>2 DEF ResultsAreTrue
    <2>2. ASSUME NEW u \in Threads, u # t
          PROVE  /\ idem'[u] = idem[u] /\ step'[u] = step[u]
                 /\ Resumed(idem[u]) => idem'[u] = PlanKey /\ again'
      BY <1>1, <2>2 DEF DrawTypeOK, Resumed
    <2>3. idem'[t] = k /\ step'[t] = "enter" /\ outcome[t] = "none"
      BY <1>1 DEF DrawTypeOK, ResultsAreTrue
    <2>4. QED
      BY <1>1, <2>1, <2>2, <2>3 DEF ResultsAreTrue, Resumed
  <1>7. LogTellsTheTruth'
    BY <1>1, <1>2 DEF LogTellsTheTruth, Resumed, DrawTypeOK, KeysFollowCalls
  <1>8. ChanceIsThere'
    BY <1>1 DEF ChanceIsThere, DrawTypeOK
  <1>9. QED
    BY <1>3, <1>4, <1>5, <1>6, <1>7, <1>8

\* The steps of the lock table.
LEMMA LockStepKeepsDraws ==
    ASSUME DrawSafe, LockInv, NEW t \in Threads, AskLock(t) \/ TakeDrawLock(t) \/ ReleaseDraw(t)
    PROVE  DrawSafe'
  <1> USE DEF DrawSafe, DrawInv
  <1>0. pc \in [Threads -> LockPCs] /\ keyOf \in [Threads -> Keys \union {NoKey}]
    BY DEF LockInv, LockTypeOK
  <1>1. CASE AskLock(t)
    <2>1. /\ step[t] = "enter" /\ step' = [step EXCEPT ![t] = "session"]
          /\ pc' = [pc EXCEPT ![t] = "waiting"]
          /\ keyOf' = [keyOf EXCEPT ![t] = dayOf[t]]
          /\ UNCHANGED <<today, dayOf, idem, outcome, rows, click, posted, again, stolen,
                        drawn, queued, left>>
      BY <1>1 DEF AskLock, Reuse, Allocate, GoTo, drawHistory, drawPlatform, claimVars
    <2>2. DrawTypeOK'
      BY <2>1 DEF DrawTypeOK, Steps
    <2>3. LockFollowsCall'
      BY <1>0, <2>1 DEF LockFollowsCall, DrawTypeOK
    <2>4. KeysFollowCalls' /\ ChanceIsThere'
      BY <2>1 DEF KeysFollowCalls, DrawTypeOK, ChanceIsThere
    <2>5. ResultsAreTrue'
      BY <2>1 DEF ResultsAreTrue, Resumed, DrawTypeOK
    <2>6. LogTellsTheTruth'
      BY <2>1 DEF LogTellsTheTruth, Resumed
    <2>7. QED
      BY <2>2, <2>3, <2>4, <2>5, <2>6
  <1>2. CASE TakeDrawLock(t) \/ ReleaseDraw(t)
    <2>1. /\ \/ pc[t] = "waiting" /\ pc' = [pc EXCEPT ![t] = "holding"] /\ keyOf' = keyOf /\ stolen' = stolen
             \/ step[t] = "release" /\ pc' = [pc EXCEPT ![t] = "unlocked"] /\ keyOf' = keyOf
                /\ stolen' = stolen \ {t} /\ pc[t] = "holding"
             \/ step[t] = "release" /\ pc' = [pc EXCEPT ![t] = "idle"]
                /\ keyOf' = [keyOf EXCEPT ![t] = NoKey] /\ stolen' = stolen \ {t}
          /\ UNCHANGED <<today, step, dayOf, idem, outcome, rows, click, posted, again,
                        drawn, queued, left>>
      BY <1>2 DEF TakeDrawLock, ReleaseDraw, Acquire, Unlock, Unref, drawVars, drawHistory,
         drawPlatform, claimVars
    <2>2. DrawTypeOK'
      BY <2>1 DEF DrawTypeOK
    <2>3. LockFollowsCall'
      BY <1>0, <2>1 DEF LockFollowsCall
    <2>4. KeysFollowCalls'
      BY <2>1 DEF KeysFollowCalls
    <2>5. ResultsAreTrue' /\ LogTellsTheTruth'
      BY <2>1 DEF ResultsAreTrue, Resumed, LogTellsTheTruth
    <2>6. ChanceIsThere'
      BY <2>1 DEF ChanceIsThere
    <2>7. QED
      BY <2>2, <2>3, <2>4, <2>5, <2>6
  <1>3. QED
    BY <1>1, <1>2

\* A step inside the critical section that reaches no draw: it goes on, to the
\* post only with a chance, or leaves with a result that is not "completed".
LEMMA InLockKeepsDraws ==
    ASSUME DrawSafe, LockInv, NEW t \in Threads,
           pc[t] = "holding", NEW label \in Steps, NEW result \in Outcomes,
           step[t] \in {"session", "dashboard", "redash", "post", "repost"},
           step' = [step EXCEPT ![t] = label],
           outcome' = [outcome EXCEPT ![t] = result],
           label \in {"session", "dashboard", "redash", "post"} => step[t] # "repost",
           label \notin {"none", "enter"},
           label = "post" => left > 0,
           result = "none" \/ label = "release",
           result # "completed",
           result \in {"skipped", "reauth"} => step[t] # "repost",
           posted' \in BOOLEAN, posted => posted',
           InLock(t), UNCHANGED <<idem, click, again, stolen, drawPlatform, claimVars>>
    PROVE  DrawSafe'
  <1> USE DEF DrawSafe, DrawInv, InLock, lockVars, drawPlatform, claimVars
  <1>1. DrawTypeOK'
    BY DEF DrawTypeOK
  <1>2. LockFollowsCall'
    BY DEF LockFollowsCall, DrawTypeOK
  <1>3. KeysFollowCalls'
    BY DEF KeysFollowCalls, DrawTypeOK
  <1>4. ResultsAreTrue'
    BY DEF ResultsAreTrue, Resumed, DrawTypeOK
  <1>5. LogTellsTheTruth'
    BY DEF LogTellsTheTruth, Resumed
  <1>6. ChanceIsThere'
    BY DEF ChanceIsThere, DrawTypeOK
  <1>7. QED
    BY <1>1, <1>2, <1>3, <1>4, <1>5, <1>6

LEMMA PreflightKeepsDraws ==
    ASSUME DrawSafe, LockInv, NEW t \in Threads,
           \/ GetSession(t) \/ DashboardFails(t) \/ Dashboard(t)
           \/ DrawRefused(t) \/ DrawUnauthorized(t)
    PROVE  DrawSafe'
  <1>0. outcome[t] = "none" \/ step[t] = "release"
    BY DEF DrawSafe, DrawInv, ResultsAreTrue
  <1>1. outcome \in [Threads -> Outcomes] /\ posted \in BOOLEAN
    BY DEF DrawSafe, DrawInv, DrawTypeOK
  <1>2. \A o : outcome' = outcome /\ outcome[t] = "none" => outcome' = [outcome EXCEPT ![t] = "none"]
    BY <1>1
  <1> USE DEF Locked, GoTo, Leave, FailsIn, Posts, Repost, Steps, Outcomes, drawHistory
  <1>3. CASE GetSession(t)
    BY <1>0, <1>1, <1>2, <1>3, InLockKeepsDraws DEF GetSession
  <1>4. CASE DashboardFails(t)
    BY <1>0, <1>1, <1>2, <1>4, InLockKeepsDraws DEF DashboardFails
  <1>5. CASE Dashboard(t)
    BY <1>0, <1>1, <1>2, <1>5, InLockKeepsDraws DEF Dashboard
  <1>6. CASE DrawRefused(t)
    BY <1>0, <1>1, <1>2, <1>6, InLockKeepsDraws DEF DrawRefused
  <1>7. CASE DrawUnauthorized(t)
    BY <1>0, <1>1, <1>2, <1>7, InLockKeepsDraws DEF DrawUnauthorized
  <1>8. QED
    BY <1>3, <1>4, <1>5, <1>6, <1>7

\* Who else is about to post holds the lock of another day.
LEMMA OnePostADay ==
    ASSUME DrawSafe, LockInv, NEW t \in Threads, NEW u \in Threads, u # t,
           step[t] \in {"post", "repost"}, step[u] \in {"post", "repost"}
    PROVE  dayOf[u] # dayOf[t]
  <1>1. pc[t] = "holding" /\ pc[u] = "holding" /\ keyOf[t] = dayOf[t] /\ keyOf[u] = dayOf[u]
    BY DEF DrawSafe, DrawInv, LockFollowsCall
  <1>2. QED
    BY <1>1, LockInvExcludes DEF MutualExclusion

\* A post, whatever became of it: the draw is made, or queued, or not.
LEMMA PostKeepsDraws ==
    ASSUME DrawSafe, LockInv, NEW t \in Threads,
           pc[t] = "holding", step[t] \in {"post", "repost"},
           NEW label \in {"repost", "release"}, NEW result \in {"none", "completed", "failed"},
           step' = [step EXCEPT ![t] = label],
           outcome' = [outcome EXCEPT ![t] = result],
           result = "none" \/ label = "release",
           result = "completed" => idem[t] \in drawn',
           posted' = (posted \/ idem[t] = PlanKey),
           InLock(t), UNCHANGED <<idem, click, again>>,
           \/ /\ drawn' = drawn \union {idem[t]}
              /\ queued' = queued \ {idem[t]}
              /\ stolen' = stolen \union {u \in OtherDay(t) : step[u] \in {"post", "repost"}}
           \/ /\ queued' \in {queued, queued \union ({idem[t]} \ drawn)}
              /\ UNCHANGED <<drawn, stolen, left>>
    PROVE  DrawSafe'
  <1> USE DEF DrawSafe, DrawInv, InLock, lockVars
  <1>0. idem[t] \in DOMAIN click /\ idem[t] \in DrawKeys /\ rows[idem[t]] = "none"
    BY DEF KeysFollowCalls, DrawTypeOK
  <1>1. DrawTypeOK'
    <2>1. step' \in [Threads -> Steps] /\ outcome' \in [Threads -> Outcomes] /\ stolen' \subseteq Threads
      BY DEF DrawTypeOK, Steps, Outcomes, OtherDay
    <2>2. drawn' \union queued' \subseteq DOMAIN click /\ drawn' \intersect queued' = {}
      BY <1>0 DEF DrawTypeOK
    <2>3. posted' \in BOOLEAN
      BY DEF DrawTypeOK
    <2>4. QED
      BY <2>1, <2>2, <2>3 DEF DrawTypeOK
  <1>2. LockFollowsCall'
    BY DEF LockFollowsCall, DrawTypeOK
  <1>3. KeysFollowCalls'
    BY DEF KeysFollowCalls, DrawTypeOK
  <1>d. drawn' \union queued' \subseteq drawn \union queued \union {idem[t]} /\ drawn \subseteq drawn'
    OBVIOUS
  <1>4. ResultsAreTrue'
    <2>1. PlanKey \in drawn' \union queued' => posted'
      BY <1>d DEF ResultsAreTrue
    <2>2. /\ step'[t] # "release" => outcome'[t] = "none"
          /\ outcome'[t] = "completed" => idem'[t] \in drawn'
          /\ step'[t] \notin {"enter", "session", "dashboard", "redash", "post"}
          /\ outcome'[t] \notin {"skipped", "reauth"}
      BY DEF DrawTypeOK
    <2>3. ASSUME NEW u \in Threads, u # t
          PROVE  /\ step'[u] = step[u] /\ outcome'[u] = outcome[u]
                 /\ step[u] = "none" \/ idem[u] # idem[t]
      BY <2>3 DEF DrawTypeOK, KeysFollowCalls
    <2>4. QED
      BY <1>d, <2>1, <2>2, <2>3 DEF ResultsAreTrue, Resumed
  <1>5. LogTellsTheTruth'
    BY <1>0, <1>d DEF LogTellsTheTruth, Resumed, KeysFollowCalls, DrawTypeOK
  <1>6. ChanceIsThere'
    <2>1. ASSUME NEW u \in Threads, step'[u] = "post", u \notin stolen' PROVE left' > 0
      <3>1. u # t /\ step[u] = "post"
        BY <2>1 DEF DrawTypeOK
      <3>2. u \in OtherDay(t)
        BY <3>1, OnePostADay DEF OtherDay
      <3>3. UNCHANGED <<stolen, left>>
        BY <2>1, <3>1, <3>2
      <3>4. QED
        BY <2>1, <3>1, <3>3 DEF ChanceIsThere
    <2>2. QED
      BY <2>1 DEF ChanceIsThere
  <1>7. QED
    BY <1>1, <1>2, <1>3, <1>4, <1>5, <1>6

LEMMA DrawKeepsDraws ==
    ASSUME DrawSafe, LockInv, NEW t \in Threads, DrawAnswered(t) \/ DrawLost(t)
    PROVE  DrawSafe'
  <1>1. /\ outcome \in [Threads -> Outcomes]
        /\ outcome[t] = "none" \/ step[t] = "release"
    BY DEF DrawSafe, DrawInv, ResultsAreTrue, DrawTypeOK
  <1>2. outcome' = outcome /\ outcome[t] = "none" => outcome' = [outcome EXCEPT ![t] = "none"]
    BY <1>1
  <1> USE DEF Posts, Locked, Leave, GoTo, Repost, MakeDraw, Robbed, drawPlatform, claimVars
  <1>3. CASE DrawAnswered(t)
    <2>1. CASE idem[t] \in drawn /\ UNCHANGED <<drawPlatform, stolen, claimVars>>
      BY <1>3, <2>1, PostKeepsDraws DEF DrawAnswered
    <2>2. CASE MakeDraw(idem[t], OtherDay(t))
      BY <1>3, <2>2, PostKeepsDraws DEF DrawAnswered
    <2>3. QED
      BY <1>3, <2>1, <2>2 DEF DrawAnswered
  <1>4. CASE DrawLost(t)
    BY <1>1, <1>2, <1>4, PostKeepsDraws DEF DrawLost
  <1>5. QED
    BY <1>3, <1>4

\* The call is over, with a row or without.
LEMMA FinishKeepsDraws ==
    ASSUME DrawSafe, NEW t \in Threads, WriteRow(t) \/ NoRow(t)
    PROVE  DrawSafe'
  <1> USE DrawAssumption
  <1> USE DEF DrawSafe, DrawInv
  <1>0. /\ step[t] = "release" /\ pc[t] = "idle"
        /\ step' = [step EXCEPT ![t] = "none"]
        /\ idem' = [idem EXCEPT ![t] = NoDrawKey]
        /\ outcome' = [outcome EXCEPT ![t] = "none"]
        /\ dayOf' = [dayOf EXCEPT ![t] = 0]
        /\ UNCHANGED <<today, click, posted, again, stolen, drawn, queued, pc, keyOf, left>>
    BY DEF WriteRow, NoRow, Finished, GoTo, drawHistory, drawPlatform, lockVars, claimVars
  <1>1. idem[t] \in DOMAIN click /\ idem[t] \in DrawKeys /\ click[idem[t]] = idem[t]
    BY <1>0 DEF KeysFollowCalls, DrawTypeOK
  <1>2. \/ rows' = rows
        \/ Row(t) \in Rows /\ rows' = [rows EXCEPT ![idem[t]] = Row(t)]
    <2>1. CASE NoRow(t)
      BY <2>1 DEF NoRow
    <2>2. CASE WriteRow(t)
      BY <1>1, <2>2 DEF WriteRow, CallOf, Row, Rows, Outcomes, DrawTypeOK
    <2>3. QED
      BY <2>1, <2>2
  <1>3. DrawTypeOK'
    BY <1>0, <1>1, <1>2 DEF DrawTypeOK, Steps, Outcomes
  <1>4. LockFollowsCall'
    BY <1>0 DEF LockFollowsCall, DrawTypeOK
  <1>5. KeysFollowCalls'
    <2>1. \A k \in DrawKeys : rows'[k] # "none" => k \in DOMAIN click
      BY <1>1, <1>2 DEF KeysFollowCalls, DrawTypeOK
    <2>2. \A u \in Threads : idem'[u] \in DrawKeys => u # t /\ rows'[idem'[u]] = "none"
      BY <1>0, <1>1, <1>2 DEF KeysFollowCalls, DrawTypeOK
    <2>3. QED
      BY <1>0, <2>1, <2>2 DEF KeysFollowCalls, DrawTypeOK
  <1>6. ResultsAreTrue'
    BY <1>0 DEF ResultsAreTrue, Resumed, DrawTypeOK
  <1>7. LogTellsTheTruth'
    <2>1. Row(t) = "completed" => idem[t] \in drawn
      BY DEF Row, ResultsAreTrue
    <2>2. Row(t) = "skipped" => Resumed(idem[t]) \/ idem[t] \notin drawn \union queued
      BY DEF Row, ResultsAreTrue
    <2>3. ASSUME NEW c \in DrawKeys
          PROVE  \/ rows'[c] = rows[c]
                 \/ c = idem[t] /\ rows'[c] = Row(t)
      BY <1>2 DEF DrawTypeOK
    <2>4. \A k \in drawn \union queued : click[k] = k
      BY DEF KeysFollowCalls, DrawTypeOK
    <2>5. QED
      BY <1>0, <1>1, <2>1, <2>2, <2>3, <2>4 DEF LogTellsTheTruth, Resumed
  <1>8. ChanceIsThere'
    BY <1>0 DEF ChanceIsThere, DrawTypeOK
  <1>9. QED
    BY <1>3, <1>4, <1>5, <1>6, <1>7, <1>8

\* The platform, the clock and the end of the process.
LEMMA WorldKeepsDraws ==
    ASSUME DrawSafe, QueuedDraw \/ DrawElsewhere \/ Midnight \/ DrawsLost
    PROVE  DrawSafe'
  <1> USE DrawAssumption
  <1> USE DEF DrawSafe, DrawInv
  <1>1. CASE QueuedDraw \/ DrawElsewhere \/ Midnight
    <2>1. /\ UNCHANGED <<step, dayOf, idem, outcome, rows, click, posted, again, pc, keyOf>>
          /\ today' \in Keys /\ stolen' \subseteq Threads
          /\ drawn' \union queued' \subseteq drawn \union queued
          /\ drawn' \intersect queued' = {} /\ drawn \subseteq drawn'
          /\ \/ left' = left /\ stolen' = stolen
             \/ stolen' = stolen \union {u \in Threads : step[u] \in {"post", "repost"}}
      <3>1. CASE QueuedDraw
        BY <3>1 DEF QueuedDraw, MakeDraw, Robbed, Outside, drawPlatform, lockVars, claimVars, DrawTypeOK
      <3>2. CASE DrawElsewhere
        BY <3>2 DEF DrawElsewhere, Robbed, Outside, drawPlatform, lockVars, DrawTypeOK
      <3>3. CASE Midnight
        BY <3>3 DEF Midnight, Outside, drawPlatform, lockVars, claimVars, DrawTypeOK
      <3>4. QED
        BY <1>1, <3>1, <3>2, <3>3
    <2>2. DrawTypeOK'
      BY <2>1 DEF DrawTypeOK
    <2>3. LockFollowsCall' /\ KeysFollowCalls'
      BY <2>1 DEF LockFollowsCall, KeysFollowCalls
    <2>4. ResultsAreTrue'
      BY <2>1 DEF ResultsAreTrue, Resumed
    <2>5. LogTellsTheTruth'
      BY <2>1 DEF LogTellsTheTruth, Resumed
    <2>6. ChanceIsThere'
      BY <2>1 DEF ChanceIsThere
    <2>7. QED
      BY <2>2, <2>3, <2>4, <2>5, <2>6
  <1>2. CASE DrawsLost
    <2>1. /\ pc' = [t \in Threads |-> "idle"]
          /\ step' = [t \in Threads |-> "none"]
          /\ idem' = [t \in Threads |-> NoDrawKey]
          /\ outcome' = [t \in Threads |-> "none"]
          /\ dayOf' = [t \in Threads |-> 0]
          /\ stolen' = {}
          /\ UNCHANGED <<today, rows, click, posted, again, drawn, queued>>
      BY <1>2 DEF DrawsLost, LockTableLost, drawPlatform
    <2>2. DrawTypeOK'
      BY <2>1 DEF DrawTypeOK, Steps, Outcomes
    <2>3. LockFollowsCall' /\ KeysFollowCalls'
      BY <2>1 DEF LockFollowsCall, KeysFollowCalls
    <2>4. ResultsAreTrue' /\ LogTellsTheTruth' /\ ChanceIsThere'
      BY <2>1 DEF ResultsAreTrue, LogTellsTheTruth, ChanceIsThere, Resumed
    <2>5. QED
      BY <2>2, <2>3, <2>4
  <1>3. QED
    BY <1>1, <1>2

LEMMA ClaimCallsTakeNoChance ==
    ASSUME ClaimInv, NEW c \in Callers, ClaimCall(c)
    PROVE  left' \in Int /\ left' >= left
  <1> USE ClaimAssumption
  <1>1. left \in Int
    BY DEF ClaimInv, ClaimTypeOK
  <1>2. CASE TakeLock(c) \/ EnterNew(c) \/ EnterRecorded(c) \/ EnterReset(c) \/ EnterResume(c)
             \/ EnterReconcile(c)
    BY <1>1, <1>2 DEF TakeLock, EnterNew, EnterRecorded, EnterReset, EnterResume, EnterReconcile,
       claimPlatform
  <1>p. CASE PreflightFails(c) \/ Preflight(c) \/ Start(c)
    BY <1>1, <1>p DEF PreflightFails, Preflight, Start, claimPlatform
  <1>3. CASE Post(c) \/ PostUnauthorized(c)
    BY <1>1, <1>3 DEF Post, PostUnauthorized, GrantNow, GrantLater, claimPlatform
  <1>4. CASE FinishSuccess(c) \/ FinishRefused(c) \/ FinishByCount(c) \/ Reconcile(c)
             \/ ReconcileBlind(c) \/ StoreFails(c)
    <2>1. UNCHANGED claimPlatform
      BY <1>4 DEF FinishSuccess, FinishRefused, FinishByCount, Reconcile, ReconcileBlind, StoreFails
    <2>2. QED
      BY <1>1, <2>1 DEF claimPlatform
  <1>5. QED
    BY <1>2, <1>p, <1>3, <1>4 DEF ClaimCall

LEMMA NextKeepsDraws == DrawSafe /\ LockInv /\ ClaimInv /\ [Next]_vars => DrawSafe'
  <1> SUFFICES ASSUME DrawSafe, LockInv, ClaimInv, [Next]_vars PROVE DrawSafe'
    OBVIOUS
  <1> USE WorkbenchAssumption, DrawAssumption
  <1>0. left \in Int
    BY DEF ClaimInv, ClaimTypeOK
  <1>1. ASSUME NEW r \in Requests, Ask(r) \/ Front(r) \/ Put(r) \/ Switch(r) PROVE DrawSafe'
    BY <1>0, <1>1, OthersKeepDraws
    DEF Ask, Front, Put, Switch, OtherThanSessions, OtherThanTasks, claimVars
  <1>2. ASSUME NEW r \in Requests, Claim(r) PROVE DrawSafe'
    BY <1>0, <1>2, ClaimCallsTakeNoChance, OthersKeepDraws DEF Claim
  <1>3. ASSUME NEW r \in Requests, StartDraw(r) \/ StartPlan(r) PROVE DrawSafe'
    BY <1>3, BeginKeepsDraws DEF StartDraw, StartPlan
  <1>4. ASSUME NEW r \in Requests, EndDraw(r) \/ EndPlan(r) PROVE DrawSafe'
    BY <1>4, FinishKeepsDraws DEF EndDraw, EndPlan
  <1>5. ASSUME NEW r \in Requests, Draw(r) PROVE DrawSafe'
    BY <1>5, LockStepKeepsDraws, PreflightKeepsDraws, DrawKeepsDraws DEF Draw, DrawCall
  <1>6. CASE Platform
    <2>1. CASE (ArriveLate \/ NeverArrives \/ OtherGrant) /\ OtherThanClaims
      <3>1. left' \in Int /\ left' >= left
        BY <1>0, <2>1, ClaimAssumption DEF ArriveLate, NeverArrives, OtherGrant
      <3>2. QED
        BY <1>0, <2>1, <3>1, OthersKeepDraws DEF OtherThanClaims
    <2>2. CASE QueuedDraw \/ DrawElsewhere \/ Midnight
      BY <2>2, WorldKeepsDraws
    <2>3. QED
      BY <1>6, <2>1, <2>2 DEF Platform
  <1>7. CASE TimePasses
    BY <1>0, <1>7, OthersKeepDraws DEF TimePasses, OtherThanSessions, claimVars
  <1>8. CASE Restart
    BY <1>8, WorldKeepsDraws DEF Restart
  <1>9. CASE UNCHANGED vars
    BY <1>0, <1>9, OthersKeepDraws DEF vars, claimVars
  <1>10. QED
    BY <1>1, <1>2, <1>3, <1>4, <1>5, <1>6, <1>7, <1>8, <1>9 DEF Next, Serve

\* Locks, claims and draws hold each other's invariants up: the lock table keeps
\* the calls of a day apart, and the calls ask it for dates only.
THEOREM DrawsInvariant == Spec => [](DrawSafe /\ LockInv /\ ClaimInv)
  <1>1. Init => DrawSafe /\ LockInv /\ ClaimInv
    BY InitDrawSafe, InitLockInv, InitClaimInv DEF Init
  <1>2. DrawSafe /\ LockInv /\ ClaimInv /\ [Next]_vars => (DrawSafe /\ LockInv /\ ClaimInv)'
    <2>1. DrawSafe => CallsHaveDates
      BY DEF DrawSafe, DrawInv, KeysFollowCalls, CallsHaveDates
    <2>2. QED
      BY <2>1, NextKeepsDraws, LocksAsKeyedLock, ClaimsAsDailyClaim, NextLockInv, NextKeepsInv
  <1>3. QED
    BY <1>1, <1>2, PTL DEF Spec

\* The process implements the lock table ...
THEOREM LockTableImplemented == Spec => LockSpec
  <1>1. DrawSafe => CallsHaveDates
    BY DEF DrawSafe, DrawInv, KeysFollowCalls, CallsHaveDates
  <1>2. QED
    BY <1>1, LocksAsKeyedLock, DrawsInvariant, PTL DEF Spec, Init, LockSpec

\* ... and so one mutex per date, for the calls of DrawAvailable.
THEOREM DrawsUseAMutex == Spec => ImplementsMutex
  BY LockTableImplemented, LockTableRefinesMutex

\* However often a call posts its draw, it makes one draw: the key of the first
\* post is that of all of them, also after a restart of the process.
THEOREM OneDrawPerCall == Spec => []RetriesDrawOnce
  <1>1. DrawSafe => RetriesDrawOnce
    BY DEF DrawSafe, DrawInv, DrawTypeOK, KeysFollowCalls, RetriesDrawOnce
  <1>2. QED
    BY <1>1, DrawsInvariant, PTL

\* A draw is posted while its chance is there, whatever the other calls of the
\* day do: they would need the lock.
THEOREM PostsHaveAChance == Spec => []ChanceIsThere
  <1>1. DrawSafe => ChanceIsThere
    BY DEF DrawSafe
  <1>2. QED
    BY <1>1, DrawsInvariant, PTL

\* The runtime log and the plan tell the truth about draws.
THEOREM LogIsTrue == Spec => []LogTellsTheTruth
  <1>1. DrawSafe => LogTellsTheTruth
    BY DEF DrawSafe
  <1>2. QED
    BY <1>1, DrawsInvariant, PTL

\* Claims beside draws: a completed claim was granted, or draws were added by
\* something else; and an open claim is not posted again.
THEOREM ClaimsBesideDraws == Spec => []CompletedIsGranted /\ OpenClaimIsNotReposted
  BY ClaimsImplemented, CompletedClaimWasGranted, OpenClaimStaysUnposted

------------------------------------------------------------------------------
(***************************************************************************)
(* The list of tasks.                                                      *)
(***************************************************************************)
EditSafe == EditInv /\ EditsSurvive

LEMMA NoDraftIsADraft == NoDraft \in [id : TaskIDs \union {"none"}, list : Lists]
  <1>1. [i \in {} |-> FALSE] \in [{} -> BOOLEAN]
    OBVIOUS
  <1>2. [i \in {} |-> FALSE] \in Lists
    BY <1>1 DEF Lists
  <1>3. QED
    BY <1>2 DEF NoDraft

LEMMA InitEditSafe == EditInit => EditSafe
  <1> SUFFICES ASSUME EditInit PROVE EditSafe
    OBVIOUS
  <1>1. tasks \in Lists /\ Cardinality(DOMAIN tasks) <= MaxTasks /\ Switching = {}
    BY DEF EditInit, Switching
  <1>2. NoDraft \in [id : TaskIDs \union {"none"}, list : Lists]
    BY NoDraftIsADraft
  <1>3. \A i \in TaskIDs : Of(tasks, i) \in SUBSET BOOLEAN
    BY <1>1 DEF Of, Lists
  <1>4. QED
    BY <1>1, <1>2, <1>3 DEF EditInit, EditSafe, EditInv, EditTypeOK, DraftsAreCurrent, EditsSurvive

\* A write makes every other switch under way one that was overtaken.
LEMMA WriteOvertakes ==
    ASSUME EditSafe, NEW e \in Editors, NEW list \in Lists, SetDrawSchedules(e, list),
           written' \in [TaskIDs -> SUBSET BOOLEAN], shaken' \subseteq TaskIDs
    PROVE  EditInv'
  <1> USE DEF EditSafe, EditInv, SetDrawSchedules
  <1>1. NoDraft \in [id : TaskIDs \union {"none"}, list : Lists]
    BY NoDraftIsADraft
  <1>2. draft' = [draft EXCEPT ![e] = NoDraft] /\ raced' = (raced \union Switching) \ {e}
    OBVIOUS
  <1>3. \A d \in Switching' : d # e /\ d \in Switching /\ draft'[d] = draft[d] /\ d \in raced'
    BY <1>2 DEF Switching, EditTypeOK
  <1>4. raced' \subseteq Switching'
    BY <1>2 DEF Switching, EditTypeOK
  <1>5. EditTypeOK'
    BY <1>1, <1>2, <1>4 DEF EditTypeOK
  <1>6. DraftsAreCurrent'
    BY <1>3 DEF DraftsAreCurrent
  <1>7. QED
    BY <1>5, <1>6

LEMMA PutKeepsEdits ==
    ASSUME EditSafe, NEW e \in Editors, PutStep(e)
    PROVE  EditSafe'
  <1>1. CASE PutTasks(e)
    <2>1. PICK list \in Lists : SetDrawSchedules(e, list)
      BY <1>1 DEF PutTasks
    <2>2. \A i \in TaskIDs : Of(list, i) \in SUBSET BOOLEAN
      BY DEF Of, Lists
    <2>3. tasks' = list /\ written' = [i \in TaskIDs |-> Of(list, i)] /\ shaken' = {}
      BY <1>1, <2>1 DEF PutTasks, SetDrawSchedules
    <2>4. EditInv'
      BY <2>1, <2>2, <2>3, WriteOvertakes
    <2>5. QED
      BY <2>3, <2>4 DEF EditSafe, EditsSurvive
  <1>2. CASE PutRefused(e)
    BY <1>2 DEF PutRefused, taskVars, EditSafe, EditInv, EditTypeOK, DraftsAreCurrent,
       EditsSurvive, Switching
  <1>3. QED
    BY <1>1, <1>2 DEF PutStep

LEMMA SwitchKeepsEdits ==
    ASSUME EditSafe, NEW e \in Editors, SwitchStep(e)
    PROVE  EditSafe'
  <1> USE DEF EditSafe
  <1>1. CASE ReadTasks(e)
    <2>1. PICK i \in DOMAIN tasks, on \in BOOLEAN :
             draft' = [draft EXCEPT ![e] = [id |-> i, list |-> [tasks EXCEPT ![i] = on]]]
      BY <1>1 DEF ReadTasks
    <2> DEFINE list == [tasks EXCEPT ![i] = on]
    <2>2. draft[e] = NoDraft /\ UNCHANGED <<tasks, written, raced, shaken>>
      BY <1>1 DEF ReadTasks
    <2>3. PICK S \in SUBSET TaskIDs : tasks \in [S -> BOOLEAN]
      BY DEF EditInv, EditTypeOK, Lists
    <2>4. /\ list \in [S -> BOOLEAN] /\ i \in S /\ i \in DOMAIN list
          /\ \A j \in TaskIDs \ {i} : Of(list, j) = Of(tasks, j)
      BY <2>3 DEF Of
    <2>5. list \in Lists /\ i \in TaskIDs
      BY <2>3, <2>4 DEF Lists
    <2> HIDE DEF list
    <2>6. /\ draft'[e] = [id |-> i, list |-> list]
          /\ \A d \in Editors \ {e} : draft'[d] = draft[d]
          /\ draft' \in [Editors -> [id : TaskIDs \union {"none"}, list : Lists]]
      BY <2>1, <2>5 DEF EditInv, EditTypeOK, list
    <2>7. raced \subseteq Switching'
      BY <2>2, <2>6 DEF EditInv, EditTypeOK, Switching
    <2>8. EditTypeOK'
      BY <2>2, <2>6, <2>7 DEF EditInv, EditTypeOK
    <2>9. DraftsAreCurrent'
      <3>1. ASSUME NEW d \in Switching', d # e PROVE d \in Switching /\ draft'[d] = draft[d]
        BY <2>6, <3>1 DEF Switching
      <3>2. draft'[e].id = i /\ draft'[e].list = list
        BY <2>6
      <3>3. QED
        BY <2>2, <2>4, <3>1, <3>2 DEF EditInv, DraftsAreCurrent
    <2>10. EditsSurvive'
      BY <2>2 DEF EditsSurvive
    <2>11. QED
      BY <2>8, <2>9, <2>10 DEF EditInv
  <1>2. CASE TaskMissing(e)
    BY <1>2 DEF TaskMissing, taskVars, EditInv, EditTypeOK, DraftsAreCurrent, EditsSurvive, Switching
  <1>3. CASE WriteTasks(e)
    <2> DEFINE d == draft[e]
    <2>1. /\ e \in Switching /\ d.id \in DOMAIN d.list /\ d.list \in Lists
          /\ d.id \in TaskIDs
          /\ tasks' = d.list
      <3>1. e \in Switching /\ tasks' = d.list
        BY <1>3 DEF WriteTasks, SetDrawSchedules, Switching
      <3>2. d.list \in Lists /\ d.id \in DOMAIN d.list
        BY <3>1 DEF EditInv, EditTypeOK, DraftsAreCurrent
      <3>3. QED
        BY <3>1, <3>2 DEF Lists
    <2>2. /\ Of(d.list, d.id) = {d.list[d.id]}
          /\ d.list[d.id] \in BOOLEAN
      BY <2>1 DEF Of, Lists
    <2>3. /\ written' = [written EXCEPT ![d.id] = {d.list[d.id]}]
          /\ shaken' = IF e \in raced
                       THEN (shaken \union {i \in TaskIDs : Of(d.list, i) # Of(tasks, i)}) \ {d.id}
                       ELSE shaken \ {d.id}
          /\ SetDrawSchedules(e, d.list)
      BY <1>3 DEF WriteTasks
    <2>4. EditInv'
      <3>1. shaken' \subseteq TaskIDs /\ written' \in [TaskIDs -> SUBSET BOOLEAN]
        BY <2>1, <2>2, <2>3 DEF EditInv, EditTypeOK
      <3>2. QED
        BY <2>1, <2>3, <3>1, WriteOvertakes
    <2>5. ASSUME NEW i \in TaskIDs PROVE Of(tasks', i) = written'[i] \/ i \in shaken'
      <3>1. CASE i = d.id
        BY <2>1, <2>2, <2>3, <3>1 DEF EditInv, EditTypeOK
      <3>2. CASE i # d.id
        <4>1. written'[i] = written[i] /\ (i \in shaken => i \in shaken')
          BY <2>3, <3>2 DEF EditInv, EditTypeOK
        <4>2. Of(d.list, i) = Of(tasks, i) \/ i \in shaken'
          BY <2>1, <2>3, <3>2 DEF EditInv, DraftsAreCurrent
        <4>3. QED
          BY <2>1, <4>1, <4>2 DEF EditsSurvive
      <3>3. QED
        BY <3>1, <3>2
    <2>6. QED
      BY <2>4, <2>5 DEF EditsSurvive
  <1>4. CASE WriteFails(e)
    <2>1. /\ draft' = [draft EXCEPT ![e] = NoDraft] /\ raced' = raced \ {e}
          /\ UNCHANGED <<tasks, written, shaken>>
      BY <1>4 DEF WriteFails
    <2>2. NoDraft \in [id : TaskIDs \union {"none"}, list : Lists]
      BY NoDraftIsADraft
    <2>3. \A d \in Switching' : d # e /\ d \in Switching /\ draft'[d] = draft[d]
      BY <2>1 DEF Switching, EditInv, EditTypeOK
    <2>4. raced' \subseteq Switching'
      BY <2>1 DEF Switching, EditInv, EditTypeOK
    <2>5. EditTypeOK'
      BY <2>1, <2>2, <2>4 DEF EditInv, EditTypeOK
    <2>6. DraftsAreCurrent' /\ EditsSurvive'
      BY <2>1, <2>3 DEF EditInv, DraftsAreCurrent, EditsSurvive
    <2>7. QED
      BY <2>5, <2>6 DEF EditInv
  <1>5. QED
    BY <1>1, <1>2, <1>3, <1>4 DEF SwitchStep

LEMMA RestartKeepsEdits == EditSafe /\ EditsLost => EditSafe'
  <1> SUFFICES ASSUME EditSafe, EditsLost PROVE EditSafe'
    OBVIOUS
  <1>1. /\ draft' = [e \in Editors |-> NoDraft] /\ raced' = {}
        /\ UNCHANGED <<tasks, written, shaken>>
    BY DEF EditsLost
  <1>2. NoDraft \in [id : TaskIDs \union {"none"}, list : Lists]
    BY NoDraftIsADraft
  <1>3. Switching' = {}
    BY <1>1 DEF Switching
  <1>4. EditTypeOK'
    BY <1>1, <1>2, <1>3 DEF EditSafe, EditInv, EditTypeOK
  <1>5. QED
    BY <1>1, <1>3, <1>4 DEF EditSafe, EditInv, DraftsAreCurrent, EditsSurvive

LEMMA NextKeepsEdits == EditSafe /\ [Next]_vars => EditSafe'
  <1> SUFFICES ASSUME EditSafe, [Next]_vars PROVE EditSafe'
    OBVIOUS
  <1> USE WorkbenchAssumption
  <1>1. ASSUME UNCHANGED taskVars PROVE EditSafe'
    BY <1>1 DEF taskVars, EditSafe, EditInv, EditTypeOK, DraftsAreCurrent, EditsSurvive, Switching
  <1>2. ASSUME NEW r \in Requests, Put(r) \/ Switch(r) PROVE EditSafe'
    BY <1>2, PutKeepsEdits, SwitchKeepsEdits DEF Put, Switch
  <1>3. ASSUME NEW r \in Requests,
               \/ Ask(r) \/ Front(r) \/ Claim(r)
               \/ StartDraw(r) \/ EndDraw(r) \/ StartPlan(r) \/ EndPlan(r) \/ Draw(r)
        PROVE  UNCHANGED taskVars
    BY <1>3 DEF Ask, Front, Claim, StartDraw, EndDraw, StartPlan, EndPlan, Draw,
       OtherThanSessions, OtherThanDraws
  <1>4. CASE Platform \/ TimePasses
    BY <1>1, <1>4 DEF Platform, TimePasses, OtherThanClaims, OtherThanDraws, OtherThanSessions
  <1>5. CASE Restart
    BY <1>5, RestartKeepsEdits DEF Restart
  <1>6. CASE UNCHANGED vars
    BY <1>1, <1>6 DEF vars
  <1>7. QED
    BY <1>1, <1>2, <1>3, <1>4, <1>5, <1>6 DEF Next, Serve

\* An entry is as the last request that was meant for it has left it, unless a
\* switch of another entry was overtaken by a write.
THEOREM EditsAreKept == Spec => []EditsSurvive
  <1>1. Init => EditSafe
    BY InitEditSafe DEF Init
  <1>2. EditSafe => EditsSurvive
    BY DEF EditSafe
  <1>3. QED
    BY <1>1, <1>2, NextKeepsEdits, PTL DEF Spec

------------------------------------------------------------------------------
(***************************************************************************)
(* The sessions of the administrator.                                      *)
(***************************************************************************)
SessionSafe == SessionInv /\ CookieIsGood

\* What CookieIsGood asks of a token.
Good(t) == Live(t) \/ idle[t] = Ttl \/ t \in untold

LEMMA InitSessionSafe == SessionInit => SessionSafe
  <1> SUFFICES ASSUME SessionInit PROVE SessionSafe
    OBVIOUS
  <1> USE SessionAssumption DEF SessionInit
  <1>1. NoRequest \in RequestsWith({} \union {NoToken})
    BY DEF NoRequest, RequestsWith, RequestKinds
  <1>2. SessionTypeOK
    <2>1. DOMAIN sessions = {} /\ sessions \in [{} -> 0..Ttl]
      OBVIOUS
    <2>2. at \in [Requests -> Stages] /\ idle \in [Tokens -> 0..Ttl]
      BY DEF Stages
    <2>3. req \in [Requests -> RequestsWith(given \union {NoToken})]
      BY <1>1
    <2>4. QED
      BY <2>1, <2>2, <2>3 DEF SessionTypeOK
  <1>3. SessionsAreRight /\ TimesAreRight
    BY DEF SessionsAreRight, TimesAreRight, Live
  <1>4. AnswersAreGood
    BY DEF AnswersAreGood, NoRequest, Keep
  <1>5. QED
    BY <1>2, <1>3, <1>4 DEF SessionSafe, SessionInv, CookieIsGood

\* A step of one request that only lets go of sessions whose time has come.
LEMMA RequestStepKeepsSessions ==
    ASSUME SessionSafe, NEW r \in Requests, NEW stage \in Stages,
           NEW rec \in RequestsWith(given \union {NoToken}),
           at' = [at EXCEPT ![r] = stage],
           req' = [req EXCEPT ![r] = rec],
           sessions' = sessions \/ sessions' = Without(Dead),
           \/ rec.sets \notin Tokens /\ stale' \in {stale, stale \ {r}}
           \/ rec.sets = req[r].sets /\ rec.basic = req[r].basic /\ stale' = stale,
           stage = "idle" => rec = NoRequest,
           stage = "sent" => rec.sets = Keep,
           rec.basic => rec.cookie = NoToken,
           stage = "answer" /\ rec.kind = "logout" => rec.sets = NoToken,
           UNCHANGED <<jar, given, idle, ended, untold, overtaken>>
    PROVE  SessionSafe'
  <1> USE SessionAssumption DEF SessionSafe, SessionInv
  <1>1. /\ DOMAIN sessions' \subseteq DOMAIN sessions
        /\ \A t \in DOMAIN sessions' : sessions'[t] = sessions[t]
        /\ sessions' \in [DOMAIN sessions' -> 0..Ttl]
        /\ \A t \in DOMAIN sessions \ DOMAIN sessions' : sessions[t] = 0
    BY DEF Without, Dead, SessionTypeOK
  <1>2. \A t \in Tokens : Live(t)' <=> Live(t)
    BY <1>1 DEF Live
  <1>3. SessionTypeOK'
    BY <1>1 DEF SessionTypeOK
  <1>4. SessionsAreRight'
    BY <1>2 DEF SessionsAreRight
  <1>5. TimesAreRight'
    BY <1>1 DEF TimesAreRight, SessionTypeOK
  <1>6. AnswersAreGood'
    <2>1. ASSUME NEW q \in Requests, q # r
          PROVE  at'[q] = at[q] /\ req'[q] = req[q] /\ (q \in stale => q \in stale')
      BY <2>1 DEF SessionTypeOK
    <2>2. at'[r] = stage /\ req'[r] = rec
      BY DEF SessionTypeOK
    <2>3. QED
      BY <1>2, <2>1, <2>2 DEF AnswersAreGood, RequestsWith
  <1>7. CookieIsGood'
    BY <1>2 DEF CookieIsGood, SessionTypeOK
  <1>8. QED
    BY <1>3, <1>4, <1>5, <1>6, <1>7

\* The gate turns a request away or lets it through.
LEMMA ScreenSays ==
    ASSUME SessionSafe, NEW r \in Requests, NEW sets \in given \union {NoToken, Keep}, Screen(r, sets)
    PROVE  \E rec \in RequestsWith(given \union {NoToken}), stage \in {"handler", "answer"} :
              /\ at' = [at EXCEPT ![r] = stage]
              /\ req' = [req EXCEPT ![r] = rec]
              /\ rec.sets = sets /\ rec.basic = req[r].basic /\ rec.cookie = req[r].cookie
              /\ (rec.kind = req[r].kind /\ stage = "handler") \/ rec.kind = "denied"
  <1> USE SessionAssumption
  <1>1. req[r] \in RequestsWith(given \union {NoToken}) /\ Keep \notin given \union {NoToken}
    BY DEF SessionSafe, SessionInv, SessionTypeOK, Keep
  <1>2. CASE at' = [at EXCEPT ![r] = "handler"] /\ req' = [req EXCEPT ![r].sets = sets]
    <2> DEFINE rec == [req[r] EXCEPT !.sets = sets]
    <2>1. /\ rec \in RequestsWith(given \union {NoToken}) /\ rec.sets = sets
          /\ rec.kind = req[r].kind /\ rec.basic = req[r].basic /\ rec.cookie = req[r].cookie
      BY <1>1 DEF RequestsWith
    <2>2. req' = [req EXCEPT ![r] = rec]
      BY <1>2
    <2> HIDE DEF rec
    <2>3. QED
      BY <1>2, <2>1, <2>2
  <1>3. CASE TurnAway(r, sets)
    <2> DEFINE rec == [req[r] EXCEPT !.kind = "denied", !.sets = sets]
    <2>1. "denied" \in RequestKinds
      BY DEF RequestKinds
    <2>2. /\ rec \in RequestsWith(given \union {NoToken}) /\ rec.sets = sets
          /\ rec.kind = "denied" /\ rec.basic = req[r].basic /\ rec.cookie = req[r].cookie
      BY <1>1, <2>1 DEF RequestsWith
    <2>3. req' = [req EXCEPT ![r] = rec] /\ at' = [at EXCEPT ![r] = "answer"]
      BY <1>3 DEF TurnAway, Answer
    <2> HIDE DEF rec
    <2>4. QED
      BY <2>2, <2>3
  <1>4. QED
    BY <1>2, <1>3 DEF Screen

\* Requests that come, go, or are answered by a handler that leaves sessions alone.
LEMMA TrafficKeepsSessions ==
    ASSUME SessionSafe, NEW r \in Requests
    PROVE  /\ \A kind \in RequestKinds, basic \in BOOLEAN :
                  SendRequest(r, kind, basic) => SessionSafe'
           /\ at[r] = "handler" /\ req[r].kind # "logout" /\ Respond(r) => SessionSafe'
           /\ Forgotten(r) /\ stale' \in {stale, stale \ {r}}
              /\ UNCHANGED <<sessions, jar, given, idle, ended, untold, overtaken>> => SessionSafe'
  <1> USE SessionAssumption
  <1>1. /\ req \in [Requests -> RequestsWith(given \union {NoToken})]
        /\ at \in [Requests -> Stages] /\ jar \in given \union {NoToken}
        /\ given \subseteq Tokens
    BY DEF SessionSafe, SessionInv, SessionTypeOK
  <1>2. req[r].basic => req[r].cookie = NoToken
    BY DEF SessionSafe, SessionInv, AnswersAreGood
  <1>3. ASSUME NEW kind \in RequestKinds, NEW basic \in BOOLEAN, SendRequest(r, kind, basic)
        PROVE  SessionSafe'
    <2> DEFINE rec == [kind |-> kind, basic |-> basic, sets |-> Keep,
                       cookie |-> IF basic THEN NoToken ELSE jar]
    <2>1. /\ rec \in RequestsWith(given \union {NoToken}) /\ rec.sets = Keep
          /\ rec.basic => rec.cookie = NoToken
      BY <1>1 DEF RequestsWith
    <2>2. /\ req' = [req EXCEPT ![r] = rec] /\ at' = [at EXCEPT ![r] = "sent"]
          /\ UNCHANGED <<sessions, jar, sessionHistory>>
      BY <1>3 DEF SendRequest
    <2>3. Keep \notin Tokens /\ "sent" \in Stages
      BY DEF Keep, Stages
    <2> HIDE DEF rec
    <2>4. QED
      BY <2>1, <2>2, <2>3, RequestStepKeepsSessions DEF sessionHistory
  <1>4. ASSUME at[r] = "handler", req[r].kind # "logout", Respond(r) PROVE SessionSafe'
    <2>1. /\ req' = [req EXCEPT ![r] = req[r]] /\ at' = [at EXCEPT ![r] = "answer"]
          /\ UNCHANGED <<sessions, jar, sessionHistory>>
      BY <1>1, <1>4 DEF Respond, Answer, SessionsKept
    <2>2. req[r] \in RequestsWith(given \union {NoToken}) /\ "answer" \in Stages
      BY <1>1 DEF Stages
    <2>3. QED
      BY <1>2, <1>4, <2>1, <2>2, RequestStepKeepsSessions DEF sessionHistory
  <1>5. ASSUME Forgotten(r), stale' \in {stale, stale \ {r}},
               UNCHANGED <<sessions, jar, given, idle, ended, untold, overtaken>>
        PROVE  SessionSafe'
    <2>1. /\ NoRequest \in RequestsWith(given \union {NoToken})
          /\ NoRequest.sets = Keep /\ NoRequest.cookie = NoToken
      BY DEF NoRequest, RequestsWith, RequestKinds
    <2>2. Keep \notin Tokens /\ "idle" \in Stages
      BY DEF Keep, Stages
    <2>3. /\ req' = [req EXCEPT ![r] = NoRequest] /\ at' = [at EXCEPT ![r] = "idle"]
      BY <1>5 DEF Forgotten
    <2>4. QED
      BY <1>5, <2>1, <2>2, <2>3, RequestStepKeepsSessions
  <1>6. QED
    BY <1>3, <1>4, <1>5

\* The gate, for a request that renews nothing.
LEMMA GateKeepsSessions ==
    ASSUME SessionSafe, NEW r \in Requests, CheckLogout(r) \/ NoSession(r) \/ PublicRoute(r)
    PROVE  SessionSafe'
  <1> USE SessionAssumption
  <1>1. /\ Screen(r, Keep) \/ TurnAway(r, Keep)
        /\ sessions' = sessions \/ sessions' = Without(Dead)
        /\ UNCHANGED <<jar, given, idle, ended, untold, stale, overtaken>>
    BY DEF CheckLogout, NoSession, PublicRoute, sessionHistory
  <1>2. req[r].basic => req[r].cookie = NoToken
    BY DEF SessionSafe, SessionInv, AnswersAreGood
  <1>3. /\ Keep \notin Tokens /\ {"handler", "answer"} \subseteq Stages
        /\ Keep \in given \union {NoToken, Keep}
    BY DEF Keep, Stages
  <1>4. CASE Screen(r, Keep)
    <2>1. PICK rec \in RequestsWith(given \union {NoToken}), stage \in {"handler", "answer"} :
              /\ at' = [at EXCEPT ![r] = stage]
              /\ req' = [req EXCEPT ![r] = rec]
              /\ rec.sets = Keep /\ rec.basic = req[r].basic /\ rec.cookie = req[r].cookie
              /\ (rec.kind = req[r].kind /\ stage = "handler") \/ rec.kind = "denied"
      BY <1>3, <1>4, ScreenSays
    <2>2. QED
      BY <1>1, <1>2, <1>3, <2>1, RequestStepKeepsSessions
  <1>5. CASE TurnAway(r, Keep)
    <2> DEFINE rec == [req[r] EXCEPT !.kind = "denied", !.sets = Keep]
    <2>1. req[r] \in RequestsWith(given \union {NoToken}) /\ "denied" \in RequestKinds
      BY DEF SessionSafe, SessionInv, SessionTypeOK, RequestKinds
    <2>2. /\ rec \in RequestsWith(given \union {NoToken}) /\ rec.sets = Keep
          /\ rec.kind = "denied" /\ rec.basic = req[r].basic /\ rec.cookie = req[r].cookie
      BY <2>1 DEF RequestsWith
    <2>3. req' = [req EXCEPT ![r] = rec] /\ at' = [at EXCEPT ![r] = "answer"]
      BY <1>5 DEF TurnAway, Answer
    <2> HIDE DEF rec
    <2>4. QED
      BY <1>1, <1>2, <1>3, <2>2, <2>3, RequestStepKeepsSessions
  <1>6. QED
    BY <1>1, <1>4, <1>5

\* Renewing makes a live session young again, in the store and in the cookie.
LEMMA RenewKeepsSessions ==
    ASSUME SessionSafe, NEW r \in Requests, Renew(r)
    PROVE  SessionSafe'
  <1> USE SessionAssumption DEF SessionSafe, SessionInv
  <1> DEFINE c == req[r].cookie
  <1>1. /\ Live(c) /\ Screen(r, c) /\ idle' = [idle EXCEPT ![c] = 0]
        /\ UNCHANGED <<jar, given, ended, untold, stale, overtaken>>
    BY DEF Renew
  <1>2. PICK gone \in SUBSET Dead : sessions' = [Without(gone) EXCEPT ![c] = Ttl]
    BY DEF Renew
  <1>3. c \in given /\ c \in Tokens /\ c \notin ended /\ c # NoToken /\ c \notin Dead
    <2>1. c \in DOMAIN sessions /\ sessions[c] > 0
      BY <1>1 DEF Live
    <2>2. QED
      BY <2>1 DEF SessionTypeOK, TimesAreRight, Dead
  <1>4. /\ DOMAIN sessions' = DOMAIN sessions \ gone
        /\ c \in DOMAIN sessions' /\ sessions'[c] = Ttl
        /\ \A t \in DOMAIN sessions' \ {c} : sessions'[t] = sessions[t]
    BY <1>1, <1>2, <1>3 DEF Without, Live
  <1>5. \A t \in gone : t \in DOMAIN sessions /\ sessions[t] = 0
    BY DEF Dead
  <1>6. /\ idle'[c] = 0 /\ \A t \in Tokens \ {c} : idle'[t] = idle[t]
        /\ idle' \in [Tokens -> 0..Ttl]
    BY <1>1, <1>3 DEF SessionTypeOK
  <1>7. PICK rec \in RequestsWith(given \union {NoToken}), stage \in {"handler", "answer"} :
            /\ at' = [at EXCEPT ![r] = stage]
            /\ req' = [req EXCEPT ![r] = rec]
            /\ rec.sets = c /\ rec.basic = req[r].basic /\ rec.cookie = c
            /\ (rec.kind = req[r].kind /\ stage = "handler") \/ rec.kind = "denied"
    BY <1>1, <1>3, ScreenSays
  <1> HIDE DEF c
  <1>8. SessionTypeOK'
    <2>1. sessions' \in [DOMAIN sessions' -> 0..Ttl] /\ DOMAIN sessions' \subseteq given
      BY <1>2, <1>4 DEF SessionTypeOK, Without
    <2>2. at' \in [Requests -> Stages] /\ req' \in [Requests -> RequestsWith(given \union {NoToken})]
      BY <1>7 DEF SessionTypeOK, Stages
    <2>3. QED
      BY <1>1, <1>6, <2>1, <2>2 DEF SessionTypeOK
  <1>9. \A t \in Tokens : Live(t)' <=> Live(t)
    BY <1>1, <1>4, <1>5 DEF Live, SessionTypeOK
  <1>10. SessionsAreRight'
    BY <1>1, <1>6, <1>9 DEF SessionsAreRight
  <1>11. TimesAreRight'
    BY <1>1, <1>3, <1>4, <1>5, <1>6 DEF TimesAreRight, SessionTypeOK
  <1>12. ASSUME NEW t \in Tokens, Good(t) PROVE Good(t)'
    BY <1>1, <1>6, <1>9, <1>12 DEF Good
  <1>13. AnswersAreGood'
    <2>1. ASSUME NEW q \in Requests, q # r PROVE at'[q] = at[q] /\ req'[q] = req[q]
      BY <1>7, <2>1 DEF SessionTypeOK
    <2>2. at'[r] = stage /\ req'[r] = rec
      BY <1>7 DEF SessionTypeOK
    <2>3. /\ stage # "idle" /\ stage # "sent"
          /\ ~(stage = "answer" /\ rec.kind = "logout")
          /\ rec.basic => rec.cookie = NoToken
          /\ Live(rec.sets)'
      <3>1. req[r].kind # "logout"
        BY DEF Renew
      <3>2. QED
        BY <1>1, <1>3, <1>7, <1>9, <3>1 DEF AnswersAreGood, c
    <2>4. QED
      BY <1>1, <1>12, <2>1, <2>2, <2>3 DEF AnswersAreGood, Good
  <1>14. CookieIsGood'
    BY <1>1, <1>12 DEF CookieIsGood, Good, SessionTypeOK
  <1>15. QED
    BY <1>8, <1>10, <1>11, <1>13, <1>14

LEMMA LoginKeepsSessions ==
    ASSUME SessionSafe, NEW r \in Requests, Login(r)
    PROVE  SessionSafe'
  <1> USE SessionAssumption DEF SessionSafe, SessionInv
  <1>1. PICK t \in Tokens \ given :
        /\ sessions' = [u \in DOMAIN sessions \union {t} |-> IF u = t THEN Ttl ELSE sessions[u]]
        /\ given' = given \union {t}
        /\ idle' = [idle EXCEPT ![t] = 0]
        /\ req' = [req EXCEPT ![r].sets = t]
        /\ at' = [at EXCEPT ![r] = "answer"]
        /\ UNCHANGED <<jar, ended, untold, stale, overtaken>>
    BY DEF Login, Answer
  <1>2. req[r].kind = "login"
    BY DEF Login
  <1> DEFINE rec == [req[r] EXCEPT !.sets = t]
  <1>3. /\ req' = [req EXCEPT ![r] = rec]
        /\ rec \in RequestsWith(given' \union {NoToken}) /\ rec.sets = t
        /\ rec.kind = req[r].kind /\ rec.basic = req[r].basic /\ rec.cookie = req[r].cookie
    BY <1>1 DEF SessionTypeOK, RequestsWith
  <1> HIDE DEF rec
  <1>4. /\ DOMAIN sessions' = DOMAIN sessions \union {t} /\ sessions'[t] = Ttl
        /\ t \notin DOMAIN sessions
        /\ \A u \in DOMAIN sessions : sessions'[u] = sessions[u]
    BY <1>1 DEF SessionTypeOK
  <1>5. idle'[t] = 0 /\ \A u \in Tokens \ {t} : idle'[u] = idle[u]
    BY <1>1 DEF SessionTypeOK
  <1>6. SessionTypeOK'
    <2>1. sessions' \in [DOMAIN sessions' -> 0..Ttl] /\ DOMAIN sessions' \subseteq given'
      BY <1>1, <1>4 DEF SessionTypeOK
    <2>2. RequestsWith(given \union {NoToken}) \subseteq RequestsWith(given' \union {NoToken})
      BY <1>1 DEF RequestsWith
    <2>3. req' \in [Requests -> RequestsWith(given' \union {NoToken})]
      BY <1>3, <2>2 DEF SessionTypeOK
    <2>4. at' \in [Requests -> Stages] /\ idle' \in [Tokens -> 0..Ttl]
      BY <1>1 DEF SessionTypeOK, Stages
    <2>5. QED
      BY <1>1, <2>1, <2>3, <2>4 DEF SessionTypeOK
  <1>7. \A u \in Tokens : Live(u)' <=> u = t \/ Live(u)
    BY <1>4 DEF Live
  <1>8. SessionsAreRight'
    BY <1>1, <1>5, <1>7 DEF SessionsAreRight, SessionTypeOK
  <1>9. TimesAreRight'
    BY <1>1, <1>4, <1>5 DEF TimesAreRight, SessionTypeOK
  <1>10. ASSUME NEW u \in Tokens, u = t \/ Good(u) PROVE Good(u)'
    BY <1>1, <1>5, <1>7, <1>10 DEF Good
  <1>11. AnswersAreGood'
    <2>1. ASSUME NEW q \in Requests, q # r PROVE at'[q] = at[q] /\ req'[q] = req[q]
      BY <1>1, <1>3, <2>1 DEF SessionTypeOK
    <2>2. at'[r] = "answer" /\ req'[r] = rec
      BY <1>1, <1>3 DEF SessionTypeOK
    <2>3. QED
      BY <1>1, <1>2, <1>3, <1>10, <2>1, <2>2 DEF AnswersAreGood, Good
  <1>12. CookieIsGood'
    BY <1>1, <1>10 DEF CookieIsGood, Good, SessionTypeOK
  <1>13. QED
    BY <1>6, <1>8, <1>9, <1>11, <1>12

LEMMA LogoutKeepsSessions ==
    ASSUME SessionSafe, NEW r \in Requests, Logout(r)
    PROVE  SessionSafe'
  <1> USE SessionAssumption DEF SessionSafe, SessionInv
  <1> DEFINE c == req[r].cookie
  <1> DEFINE rec == [req[r] EXCEPT !.sets = NoToken]
  <1>1. /\ sessions' = Without({c})
        /\ ended' = ended \union ({c} \ {NoToken})
        /\ untold' = untold \union ({c} \ (ended \union {NoToken}))
        /\ at' = [at EXCEPT ![r] = "answer"]
        /\ UNCHANGED <<jar, given, idle, stale, overtaken>>
    BY DEF Logout, Answer
  <1>2. c \in given \union {NoToken}
    BY DEF SessionTypeOK, RequestsWith
  <1>3. /\ req' = [req EXCEPT ![r] = rec]
        /\ rec \in RequestsWith(given \union {NoToken}) /\ rec.sets = NoToken
        /\ rec.basic = req[r].basic /\ rec.cookie = c
    BY DEF Logout, SessionTypeOK, RequestsWith
  <1> HIDE DEF c, rec
  <1>4. /\ DOMAIN sessions' = DOMAIN sessions \ {c}
        /\ \A t \in DOMAIN sessions' : sessions'[t] = sessions[t]
    BY <1>1 DEF Without
  <1>5. SessionTypeOK'
    <2>1. sessions' \in [DOMAIN sessions' -> 0..Ttl] /\ DOMAIN sessions' \subseteq given
      BY <1>1, <1>4 DEF SessionTypeOK, Without
    <2>2. at' \in [Requests -> Stages] /\ req' \in [Requests -> RequestsWith(given \union {NoToken})]
      BY <1>1, <1>3 DEF SessionTypeOK, Stages
    <2>3. ended' \subseteq given /\ untold' \subseteq ended'
      BY <1>1, <1>2 DEF SessionTypeOK
    <2>4. QED
      BY <1>1, <2>1, <2>2, <2>3 DEF SessionTypeOK
  <1>6. \A t \in Tokens : Live(t)' <=> Live(t) /\ t # c
    BY <1>4 DEF Live
  <1>7. SessionsAreRight'
    BY <1>1, <1>6 DEF SessionsAreRight
  <1>8. TimesAreRight'
    BY <1>1, <1>4 DEF TimesAreRight, SessionTypeOK
  <1>9. ASSUME NEW t \in Tokens, Good(t) PROVE Good(t)'
    BY <1>1, <1>6, <1>9 DEF Good, SessionsAreRight
  <1>10. AnswersAreGood'
    <2>1. ASSUME NEW q \in Requests, q # r PROVE at'[q] = at[q] /\ req'[q] = req[q]
      BY <1>1, <1>3, <2>1 DEF SessionTypeOK
    <2>2. at'[r] = "answer" /\ req'[r] = rec
      BY <1>1, <1>3 DEF SessionTypeOK
    <2>3. rec.basic => rec.cookie = NoToken
      BY <1>3 DEF AnswersAreGood, c
    <2>4. QED
      BY <1>1, <1>3, <1>9, <2>1, <2>2, <2>3 DEF AnswersAreGood, Good
  <1>11. CookieIsGood'
    BY <1>1, <1>9 DEF CookieIsGood, Good, SessionTypeOK
  <1>12. QED
    BY <1>5, <1>7, <1>8, <1>10, <1>11

\* An answer reaches the browser.
LEMMA DeliverKeepsSessions ==
    ASSUME SessionSafe, NEW r \in Requests, Deliver(r)
    PROVE  SessionSafe'
  <1> USE SessionAssumption
  <1> DEFINE c == req[r]
  <1> DEFINE onTheirWay == {q \in Requests \ {r} : at[q] # "idle" /\ ~req[q].basic}
  <1>1. /\ at[r] = "answer" /\ Forgotten(r)
        /\ untold' = IF c.kind = "logout" THEN untold \ {c.cookie} ELSE untold
        /\ UNCHANGED <<sessions, given, idle, ended>>
    BY DEF Deliver
  <1>2. c \in RequestsWith(given \union {NoToken}) /\ given \subseteq Tokens /\ untold \subseteq given
    BY DEF SessionSafe, SessionInv, SessionTypeOK
  <1>3. /\ c.basic => c.cookie = NoToken
        /\ c.kind = "logout" => c.sets = NoToken
    BY <1>1 DEF SessionSafe, SessionInv, AnswersAreGood
  <1>4. CASE c.basic \/ c.sets = Keep
    <2>1. stale' = stale \ {r} /\ UNCHANGED <<jar, overtaken>>
      BY <1>4 DEF Deliver
    <2>2. untold' = untold
      BY <1>1, <1>2, <1>3, <1>4 DEF Keep
    <2>3. QED
      BY <1>1, <2>1, <2>2, TrafficKeepsSessions
  <1>5. CASE ~c.basic /\ c.sets # Keep
    <2> USE DEF SessionSafe, SessionInv
    <2>1. /\ jar' = c.sets
          /\ overtaken' = (r \in stale)
          /\ stale' = IF c.sets = c.cookie THEN stale \ {r} ELSE onTheirWay
      BY <1>5 DEF Deliver
    <2>2. /\ req' = [req EXCEPT ![r] = NoRequest] /\ at' = [at EXCEPT ![r] = "idle"]
          /\ NoRequest \in RequestsWith(given \union {NoToken})
          /\ NoRequest.sets = Keep /\ NoRequest.cookie = NoToken
      BY <1>1 DEF Forgotten, NoRequest, RequestsWith, RequestKinds
    <2>3. c.sets \in given \union {NoToken}
      BY <1>2, <1>5 DEF RequestsWith
    <2>4. \A t \in Tokens : Live(t)' <=> Live(t)
      BY <1>1 DEF Live
    <2>5. SessionTypeOK'
      <3>1. at' \in [Requests -> Stages] /\ req' \in [Requests -> RequestsWith(given \union {NoToken})]
        BY <2>2 DEF SessionTypeOK, Stages
      <3>2. stale' \subseteq Requests /\ untold' \subseteq ended
        BY <1>1, <2>1 DEF SessionTypeOK
      <3>3. QED
        BY <1>1, <2>1, <2>3, <3>1, <3>2 DEF SessionTypeOK
    <2>6. SessionsAreRight' /\ TimesAreRight'
      BY <1>1, <2>4 DEF SessionsAreRight, TimesAreRight
    <2>7. ASSUME NEW q \in Requests, q # r, NEW t \in Tokens, req[q].sets = t, ~req[q].basic
          PROVE  Good(t)' \/ q \in stale'
      <3>1. q \in onTheirWay
        <4>1. at[q] # "idle"
          BY <2>7 DEF AnswersAreGood, NoRequest, Keep
        <4>2. QED
          BY <2>7, <4>1
      <3>2. CASE c.sets # c.cookie
        BY <2>1, <3>1, <3>2
      <3>3. CASE c.sets = c.cookie
        <4>1. untold' = untold /\ stale' = stale \ {r}
          BY <1>1, <1>2, <1>3, <2>1, <3>3
        <4>2. Good(t) \/ q \in stale
          BY <2>7 DEF AnswersAreGood, Good
        <4>3. QED
          BY <1>1, <2>4, <2>7, <4>1, <4>2 DEF Good
      <3>4. QED
        BY <3>2, <3>3
    <2>8. AnswersAreGood'
      <3>1. ASSUME NEW q \in Requests, q # r PROVE at'[q] = at[q] /\ req'[q] = req[q]
        BY <2>2, <3>1 DEF SessionTypeOK
      <3>2. at'[r] = "idle" /\ req'[r] = NoRequest
        BY <2>2 DEF SessionTypeOK
      <3>3. Keep \notin Tokens
        BY DEF Keep
      <3>4. QED
        BY <2>2, <2>7, <3>1, <3>2, <3>3 DEF AnswersAreGood, Good
    <2>9. CookieIsGood'
      <3>1. CASE c.sets = NoToken
        BY <2>1, <3>1 DEF CookieIsGood
      <3>2. CASE c.sets # NoToken
        <4>1. untold' = untold /\ c.sets \in Tokens
          BY <1>1, <1>2, <1>3, <2>3, <3>2
        <4>2. Good(c.sets) \/ r \in stale
          BY <1>5, <4>1 DEF AnswersAreGood, Good
        <4>3. QED
          BY <1>1, <2>1, <2>4, <4>1, <4>2 DEF CookieIsGood, Good
      <3>3. QED
        BY <3>1, <3>2
    <2>10. QED
      BY <2>5, <2>6, <2>8, <2>9
  <1>6. QED
    BY <1>4, <1>5

\* Time, and the end of the process.
LEMMA TimeKeepsSessions ==
    ASSUME SessionSafe, Tick \/ SessionsLost
    PROVE  SessionSafe'
  <1> USE SessionAssumption DEF SessionSafe, SessionInv
  <1>1. CASE Tick
    <2>1. /\ sessions' = [t \in DOMAIN sessions |-> IF sessions[t] = 0 THEN 0 ELSE sessions[t] - 1]
          /\ idle' = [t \in Tokens |-> IF t \notin given \/ idle[t] = Ttl THEN idle[t] ELSE idle[t] + 1]
          /\ UNCHANGED <<jar, at, req, given, ended, untold, stale, overtaken>>
      BY <1>1 DEF Tick
    <2>2. \A t \in DOMAIN sessions : t \in given /\ t \in Tokens /\ sessions[t] \in 0..Ttl
      BY DEF SessionTypeOK
    <2>3. \A t \in Tokens : idle[t] \in 0..Ttl
      BY DEF SessionTypeOK
    <2>4. sessions' \in [DOMAIN sessions' -> 0..Ttl] /\ DOMAIN sessions' = DOMAIN sessions
      BY <2>1, <2>2
    <2>5. idle' \in [Tokens -> 0..Ttl]
      BY <2>1, <2>3
    <2>6. SessionTypeOK'
      BY <2>1, <2>4, <2>5 DEF SessionTypeOK
    <2>7. TimesAreRight'
      BY <2>1, <2>2, <2>3, <2>4 DEF TimesAreRight, SessionTypeOK
    <2>8. SessionsAreRight'
      BY <2>1, <2>6, <2>7 DEF TimesAreRight, SessionsAreRight, SessionTypeOK, Live
    <2>9. ASSUME NEW t \in Tokens, Good(t) PROVE Good(t)'
      <3>1. CASE Live(t)
        <4>1. t \in given \ ended
          BY <3>1 DEF SessionsAreRight
        <4>2. QED
          BY <2>1, <2>5, <2>8, <4>1 DEF SessionsAreRight, Good
      <3>2. CASE idle[t] = Ttl \/ t \in untold
        BY <2>1, <3>2 DEF Good
      <3>3. QED
        BY <2>9, <3>1, <3>2 DEF Good
    <2>10. AnswersAreGood'
      BY <2>1, <2>9 DEF AnswersAreGood, Good
    <2>11. CookieIsGood'
      BY <2>1, <2>9 DEF CookieIsGood, Good, SessionTypeOK
    <2>12. QED
      BY <2>6, <2>7, <2>8, <2>10, <2>11
  <1>2. CASE SessionsLost
    <2>1. /\ sessions' = [t \in {} |-> 0]
          /\ at' = [r \in Requests |-> "idle"]
          /\ req' = [r \in Requests |-> NoRequest]
          /\ ended' = given /\ untold' = untold \union (given \ ended) /\ stale' = {}
          /\ UNCHANGED <<jar, given, idle, overtaken>>
      BY <1>2 DEF SessionsLost
    <2>2. /\ NoRequest \in RequestsWith(given \union {NoToken})
          /\ NoRequest.sets = Keep /\ NoRequest.cookie = NoToken /\ Keep \notin Tokens
      BY DEF NoRequest, RequestsWith, RequestKinds, Keep
    <2>3. SessionTypeOK'
      <3>1. at' \in [Requests -> Stages] /\ req' \in [Requests -> RequestsWith(given \union {NoToken})]
        BY <2>1, <2>2 DEF Stages
      <3>2. DOMAIN sessions' = {} /\ sessions' \in [{} -> 0..Ttl]
        BY <2>1
      <3>3. QED
        BY <2>1, <3>1, <3>2 DEF SessionTypeOK
    <2>4. TimesAreRight' /\ SessionsAreRight'
      BY <2>1 DEF TimesAreRight, SessionsAreRight, Live
    <2>5. AnswersAreGood'
      BY <2>1, <2>2 DEF AnswersAreGood
    <2>6. CookieIsGood'
      BY <2>1 DEF CookieIsGood, SessionsAreRight, SessionTypeOK
    <2>7. QED
      BY <2>3, <2>4, <2>5, <2>6
  <1>3. QED
    BY <1>1, <1>2

LEMMA NextKeepsSessions ==
    SessionSafe /\ mix \in Mixes /\ [Next]_vars => SessionSafe' /\ mix' \in Mixes
  <1> SUFFICES ASSUME SessionSafe, mix \in Mixes, [Next]_vars
               PROVE  SessionSafe' /\ mix' \in Mixes
    OBVIOUS
  <1> USE WorkbenchAssumption
  <1>1. ASSUME UNCHANGED sessionVars PROVE SessionSafe'
    BY <1>1 DEF sessionVars, sessionHistory, SessionSafe, SessionInv, SessionTypeOK, TimesAreRight,
       SessionsAreRight, AnswersAreGood, CookieIsGood, Live
  <1>2. ASSUME NEW r \in Requests, Ask(r) PROVE SessionSafe'
    <2>1. mix[r] \subseteq RequestKinds
      BY DEF Kinds, RequestKinds
    <2>2. QED
      BY <1>2, <2>1, TrafficKeepsSessions DEF Ask
  <1>3. ASSUME NEW r \in Requests, Front(r) PROVE SessionSafe'
    <2>1. CASE Gate(r)
      BY <2>1, GateKeepsSessions, RenewKeepsSessions DEF Gate
    <2>2. CASE NoLogin(r)
      BY <2>2, TrafficKeepsSessions DEF NoLogin, Respond, SessionsKept
    <2>3. CASE LoseAnswer(r)
      BY <2>3, TrafficKeepsSessions DEF LoseAnswer
    <2>4. CASE Login(r) \/ Logout(r) \/ Deliver(r)
      BY <2>4, LoginKeepsSessions, LogoutKeepsSessions, DeliverKeepsSessions
    <2>5. QED
      BY <1>3, <2>1, <2>2, <2>3, <2>4 DEF Front, Session
  <1>4. ASSUME NEW r \in Requests, NEW kind \in {"draw", "claim", "toggle", "put"},
               Serves(r, kind), Respond(r)
        PROVE  SessionSafe'
    BY <1>4, TrafficKeepsSessions DEF Serves
  <1>5. ASSUME NEW r \in Requests, StartPlan(r) PROVE SessionSafe'
    <2> DEFINE rec == [req[r] EXCEPT !.kind = "plan"]
    <2>1. /\ at[r] = "idle" /\ req[r] = NoRequest
          /\ req \in [Requests -> RequestsWith(given \union {NoToken})]
      BY <1>5 DEF StartPlan, SessionSafe, SessionInv, SessionTypeOK, AnswersAreGood
    <2>2. /\ rec \in RequestsWith(given \union {NoToken})
          /\ rec.sets = Keep /\ rec.cookie = NoToken
      <3>1. "plan" \in RequestKinds
        BY DEF RequestKinds
      <3>2. /\ rec \in RequestsWith(given \union {NoToken})
            /\ rec.sets = req[r].sets /\ rec.cookie = req[r].cookie
        BY <2>1, <3>1 DEF RequestsWith
      <3>3. NoRequest.sets = Keep /\ NoRequest.cookie = NoToken
        BY DEF NoRequest
      <3>4. QED
        BY <2>1, <3>2, <3>3
    <2>3. /\ req' = [req EXCEPT ![r] = rec] /\ at' = [at EXCEPT ![r] = "handler"]
          /\ UNCHANGED <<sessions, jar, sessionHistory>>
      BY <1>5 DEF StartPlan, SessionsKept
    <2>4. Keep \notin Tokens /\ "handler" \in Stages
      BY SessionAssumption DEF Keep, Stages
    <2> HIDE DEF rec
    <2>5. QED
      BY <2>2, <2>3, <2>4, RequestStepKeepsSessions DEF sessionHistory
  <1>6. ASSUME NEW r \in Requests, StartDraw(r) \/ Draw(r) PROVE SessionSafe'
    BY <1>1, <1>6 DEF StartDraw, Draw, OtherThanDraws
  <1>7. ASSUME NEW r \in Requests, EndDraw(r) PROVE SessionSafe'
    BY <1>4, <1>7 DEF EndDraw
  <1>8. ASSUME NEW r \in Requests, EndPlan(r) PROVE SessionSafe'
    BY <1>8, TrafficKeepsSessions DEF EndPlan, SessionsKept, sessionHistory
  <1>9. ASSUME NEW r \in Requests, Claim(r) \/ Put(r) \/ Switch(r) PROVE SessionSafe'
    BY <1>1, <1>4, <1>9 DEF Claim, Put, Switch
  <1>10. ASSUME Platform PROVE SessionSafe'
    BY <1>1, <1>10 DEF Platform, OtherThanClaims, OtherThanDraws
  <1>11. ASSUME TimePasses \/ Restart PROVE SessionSafe'
    <2>1. Tick \/ SessionsLost
      BY <1>11 DEF TimePasses, Restart
    <2>2. QED
      BY <2>1, TimeKeepsSessions
  <1>12. SessionSafe'
    <2>1. CASE UNCHANGED vars
      BY <1>1, <2>1 DEF vars
    <2>2. QED
      BY <1>2, <1>3, <1>5, <1>6, <1>7, <1>8, <1>9, <1>10, <1>11, <2>1 DEF Next, Serve
  <1>13. mix' = mix
    <2>1. ASSUME NEW r \in Requests, Serve(r) PROVE mix' = mix
      BY <2>1 DEF Serve, Ask, Front, StartDraw, EndDraw, StartPlan, EndPlan, Draw, Claim, Put, Switch,
         OtherThanSessions, OtherThanDraws, OtherThanTasks
    <2>2. CASE Platform \/ TimePasses \/ Restart
      BY <2>2 DEF Platform, TimePasses, Restart, OtherThanClaims, OtherThanDraws, OtherThanSessions
    <2>3. QED
      BY <2>1, <2>2 DEF Next, vars
  <1>14. QED
    BY <1>12, <1>13

\* The cookie of a browser that was told nothing else is that of a live session,
\* in any order of requests, answers, logouts and restarts.
THEOREM CookieStaysGood == Spec => []CookieIsGood
  <1>1. Init => SessionSafe /\ mix \in Mixes
    BY InitSessionSafe DEF Init
  <1>2. SessionSafe /\ mix \in Mixes /\ [Next]_vars => (SessionSafe /\ mix \in Mixes)'
    BY NextKeepsSessions
  <1>3. SessionSafe => CookieIsGood
    BY DEF SessionSafe
  <1>4. QED
    BY <1>1, <1>2, <1>3, PTL DEF Spec

------------------------------------------------------------------------------
(***************************************************************************)
(* The parts together.                                                     *)
(***************************************************************************)
Typed == SessionTypeOK /\ DrawTypeOK /\ ClaimTypeOK /\ EditTypeOK

\* The steps of the session handlers and of the gate.
LEMMA FrontAgrees ==
    ASSUME Typed, PartsAgree, NEW r \in Requests, Ask(r) \/ Front(r)
    PROVE  PartsAgree'
  <1> USE WorkbenchAssumption DEF Typed
  <1>1. UNCHANGED <<step, claimAt, draft>>
    BY DEF Ask, Front, OtherThanSessions, drawVars, claimVars, taskVars
  <1>2. step[r] = "none" /\ claimAt[r] = "idle" /\ draft[r] = NoDraft
    <2>1. CASE Ask(r) \/ Gate(r)
      BY <2>1 DEF Ask, SendRequest, Gate, Renew, CheckLogout, NoSession, PublicRoute, PartsAgree, Serves
    <2>2. CASE Session(r)
      BY <2>2 DEF Session, Login, NoLogin, Logout, Deliver, LoseAnswer, PartsAgree, Serves
    <2>3. QED
      BY <2>1, <2>2 DEF Front
  <1>3. ASSUME NEW q \in Requests, q # r PROVE at'[q] = at[q] /\ req'[q] = req[q]
    <2>1. CASE Ask(r)
      BY <1>3, <2>1 DEF Ask, SendRequest, SessionTypeOK
    <2>2. CASE Gate(r)
      <3>1. Screen(r, req[r].cookie) \/ Screen(r, Keep) \/ TurnAway(r, Keep)
        BY <2>2 DEF Gate, Renew, CheckLogout, NoSession, PublicRoute
      <3>2. QED
        BY <1>3, <3>1 DEF Screen, TurnAway, Answer, SessionTypeOK
    <2>3. CASE Session(r)
      BY <1>3, <2>3 DEF Session, Login, NoLogin, Logout, Deliver, LoseAnswer, Answer, Forgotten,
         SessionTypeOK
    <2>4. QED
      BY <2>1, <2>2, <2>3 DEF Front
  <1>4. QED
    BY <1>1, <1>2, <1>3 DEF PartsAgree, Serves

\* The steps of draws.
LEMMA DrawAgrees ==
    ASSUME Typed, PartsAgree, NEW r \in Requests,
           StartDraw(r) \/ EndDraw(r) \/ StartPlan(r) \/ EndPlan(r) \/ Draw(r)
    PROVE  PartsAgree'
  <1> USE WorkbenchAssumption DEF Typed
  <1>1. UNCHANGED draft
    BY DEF StartDraw, EndDraw, StartPlan, EndPlan, Draw, OtherThanDraws, taskVars
  <1>2. claimAt' = claimAt
    <2>1. CASE StartDraw(r) \/ StartPlan(r)
      BY <2>1 DEF StartDraw, StartPlan, BeginClick, BeginPlan, Begin, claimVars
    <2>2. CASE EndDraw(r) \/ EndPlan(r)
      BY <2>2 DEF EndDraw, EndPlan, WriteRow, NoRow, Finished, claimVars
    <2>3. CASE Draw(r)
      <3>1. DrawCall(r)
        BY <2>3 DEF Draw
      <3>2. UNCHANGED claimVars \/ DrawOne
        BY <3>1 DEF DrawCall, AskLock, TakeDrawLock, ReleaseDraw, GetSession, DashboardFails,
           Dashboard, DrawAnswered, DrawRefused, DrawUnauthorized, DrawLost, MakeDraw
      <3>3. QED
        BY <3>2 DEF claimVars, DrawOne
    <2>4. QED
      BY <2>1, <2>2, <2>3
  <1>3. CASE StartDraw(r)
    <2>1. /\ Serves(r, "draw") /\ UNCHANGED <<at, req>>
          /\ \A q \in Requests \ {r} : step'[q] = step[q]
      BY <1>3 DEF StartDraw, BeginClick, Begin, GoTo, OtherThanDraws, sessionVars, DrawTypeOK
    <2>2. QED
      BY <1>1, <1>2, <2>1 DEF PartsAgree, Serves
  <1>4. CASE StartPlan(r)
    <2>1. /\ at[r] = "idle" /\ at'[r] = "handler" /\ req'[r].kind = "plan"
          /\ \A q \in Requests \ {r} : step'[q] = step[q] /\ at'[q] = at[q] /\ req'[q] = req[q]
      BY <1>4 DEF StartPlan, BeginPlan, Begin, GoTo, SessionTypeOK, DrawTypeOK, RequestsWith
    <2>2. claimAt[r] = "idle" /\ draft[r] = NoDraft
      BY <2>1 DEF PartsAgree, Serves
    <2>3. QED
      BY <1>1, <1>2, <2>1, <2>2 DEF PartsAgree, Serves
  <1>5. CASE EndDraw(r) \/ EndPlan(r)
    <2>1. /\ Serves(r, "draw") \/ Serves(r, "plan")
          /\ step' = [step EXCEPT ![r] = "none"]
      BY <1>5 DEF EndDraw, EndPlan, WriteRow, NoRow, Finished, GoTo
    <2>2. \A q \in Requests \ {r} : at'[q] = at[q] /\ req'[q] = req[q]
      BY <1>5 DEF EndDraw, EndPlan, Respond, Answer, Forgotten, SessionTypeOK
    <2>3. claimAt[r] = "idle" /\ draft[r] = NoDraft
      BY <2>1 DEF PartsAgree, Serves
    <2>4. QED
      BY <1>1, <1>2, <2>1, <2>2, <2>3 DEF PartsAgree, Serves, DrawTypeOK
  <1>6. CASE Draw(r)
    <2>1. UNCHANGED <<at, req>>
      BY <1>6 DEF Draw, OtherThanDraws, sessionVars
    <2>2. step' = step \/ (step[r] # "none" /\ \A q \in Requests \ {r} : step'[q] = step[q])
      <3>1. DrawCall(r)
        BY <1>6 DEF Draw
      <3>2. CASE AskLock(r) \/ TakeDrawLock(r) \/ ReleaseDraw(r)
        BY <3>2 DEF AskLock, TakeDrawLock, ReleaseDraw, GoTo, drawVars, DrawTypeOK
      <3>3. CASE GetSession(r) \/ DashboardFails(r) \/ Dashboard(r)
        BY <3>3 DEF GetSession, DashboardFails, Dashboard, Locked, GoTo, Leave, FailsIn, DrawTypeOK
      <3>4. CASE DrawAnswered(r) \/ DrawRefused(r) \/ DrawUnauthorized(r) \/ DrawLost(r)
        BY <3>4 DEF DrawAnswered, DrawRefused, DrawUnauthorized, DrawLost, Posts, Locked, GoTo, Leave,
           FailsIn, Repost, DrawTypeOK
      <3>5. QED
        BY <3>1, <3>2, <3>3, <3>4 DEF DrawCall
    <2>3. QED
      BY <1>1, <1>2, <2>1, <2>2 DEF PartsAgree, Serves
  <1>7. QED
    BY <1>3, <1>4, <1>5, <1>6

\* The steps of claims and of the list of tasks.
LEMMA ClaimAndEditAgree ==
    ASSUME Typed, PartsAgree, NEW r \in Requests, Claim(r) \/ Put(r) \/ Switch(r)
    PROVE  PartsAgree'
  <1> USE WorkbenchAssumption, DrawAssumption DEF Typed
  <1>1. UNCHANGED step
    BY DEF Claim, Put, Switch, OtherThanTasks, drawVars
  <1>2. \/ UNCHANGED <<at, req>>
        \/ req' = req /\ at' = [at EXCEPT ![r] = "answer"]
    BY DEF Claim, Put, Switch, Respond, Answer, sessionVars
  <1>3. \A q \in Requests \ {r} : at'[q] = at[q] /\ req'[q] = req[q]
    BY <1>2 DEF SessionTypeOK
  <1>4. CASE Claim(r)
    <2>1. Serves(r, "claim") /\ UNCHANGED draft
      BY <1>4 DEF Claim, taskVars
    <2>2. ClaimCall(r)
      BY <1>4 DEF Claim
    <2>3. \A q \in Requests \ {r} : claimAt'[q] = claimAt[q]
      <3>1. CASE \/ TakeLock(r) \/ EnterNew(r) \/ EnterRecorded(r) \/ EnterReset(r)
                \/ EnterResume(r) \/ EnterReconcile(r)
        BY <3>1 DEF TakeLock, EnterNew, EnterRecorded, EnterReset, EnterResume, EnterReconcile,
           ClaimGoto, ClaimReturn, ClaimTypeOK
      <3>2. CASE \/ PreflightFails(r) \/ Preflight(r) \/ Start(r) \/ Post(r) \/ PostUnauthorized(r)
        BY <3>2 DEF PreflightFails, Preflight, Start, Post, PostUnauthorized,
           ClaimGoto, ClaimReturn, ClaimTypeOK
      <3>3. CASE \/ FinishSuccess(r) \/ FinishRefused(r) \/ FinishByCount(r)
                \/ Reconcile(r) \/ ReconcileBlind(r) \/ StoreFails(r)
        <4>1. ClaimReturn(r)
          BY <3>3 DEF FinishSuccess, FinishRefused, FinishByCount, Reconcile, ReconcileBlind, StoreFails
        <4>2. QED
          BY <4>1 DEF ClaimReturn, ClaimTypeOK
      <3>4. QED
        BY <2>2, <3>1, <3>2, <3>3 DEF ClaimCall
    <2>4. claimAt'[r] = "idle" \/ UNCHANGED <<at, req>>
      BY <1>4 DEF Claim, sessionVars
    <2>5. step[r] = "none" /\ draft[r] = NoDraft
      BY <2>1 DEF PartsAgree, Serves
    <2>6. QED
      BY <1>1, <1>3, <2>1, <2>3, <2>4, <2>5 DEF PartsAgree, Serves
  <1>5. CASE Put(r) \/ Switch(r)
    <2>1. Serves(r, "put") \/ Serves(r, "toggle")
      BY <1>5 DEF Put, Switch
    <2>2. UNCHANGED claimAt /\ step[r] = "none" /\ claimAt[r] = "idle"
      BY <1>5, <2>1 DEF Put, Switch, OtherThanTasks, claimVars, PartsAgree, Serves
    <2>3. \A q \in Requests \ {r} : draft'[q] = draft[q]
      <3>1. PutStep(r) \/ SwitchStep(r)
        BY <1>5 DEF Put, Switch
      <3>2. CASE PutStep(r)
        BY <3>2 DEF PutStep, PutTasks, PutRefused, SetDrawSchedules, taskVars, EditTypeOK
      <3>3. CASE SwitchStep(r)
        BY <3>3 DEF SwitchStep, ReadTasks, TaskMissing, WriteTasks, WriteFails, SetDrawSchedules,
           taskVars, EditTypeOK
      <3>4. QED
        BY <3>1, <3>2, <3>3
    <2>4. CASE Switch(r)
      <3>1. draft'[r] = NoDraft \/ UNCHANGED <<at, req>>
        BY <2>4 DEF Switch, sessionVars
      <3>2. QED
        BY <1>1, <1>3, <2>2, <2>3, <2>4, <3>1 DEF PartsAgree, Serves, Switch
    <2>5. CASE Put(r)
      <3>1. draft'[r] = NoDraft
        BY <2>5 DEF Put, PutStep, PutTasks, PutRefused, SetDrawSchedules, taskVars, EditTypeOK
      <3>2. QED
        BY <1>1, <1>3, <2>2, <2>3, <3>1 DEF PartsAgree, Serves
    <2>6. QED
      BY <1>5, <2>4, <2>5
  <1>6. QED
    BY <1>4, <1>5

LEMMA NextAgrees == Typed /\ PartsAgree /\ [Next]_vars => PartsAgree'
  <1> SUFFICES ASSUME Typed, PartsAgree, [Next]_vars PROVE PartsAgree'
    OBVIOUS
  <1> USE WorkbenchAssumption, DrawAssumption
  <1>1. ASSUME NEW r \in Requests, Serve(r) PROVE PartsAgree'
    BY <1>1, FrontAgrees, DrawAgrees, ClaimAndEditAgree DEF Serve
  <1>2. ASSUME UNCHANGED <<at, req, step, claimAt, draft>> PROVE PartsAgree'
    BY <1>2 DEF PartsAgree, Serves
  <1>3. CASE Platform
    <2>1. UNCHANGED <<at, req, draft>>
      BY <1>3 DEF Platform, OtherThanClaims, OtherThanDraws, sessionVars, taskVars
    <2>2. UNCHANGED <<step, claimAt>>
      <3>1. CASE (ArriveLate \/ NeverArrives \/ OtherGrant) /\ OtherThanClaims
        BY <3>1 DEF ArriveLate, NeverArrives, OtherGrant, OtherThanClaims, drawVars
      <3>2. CASE QueuedDraw \/ DrawElsewhere \/ Midnight
        BY <3>2 DEF QueuedDraw, DrawElsewhere, Midnight, MakeDraw, DrawOne, Outside, claimVars
      <3>3. QED
        BY <1>3, <3>1, <3>2 DEF Platform
    <2>3. QED
      BY <1>2, <2>1, <2>2
  <1>4. CASE TimePasses
    BY <1>2, <1>4 DEF TimePasses, Tick, OtherThanSessions, drawVars, claimVars, taskVars
  <1>5. CASE Restart
    BY <1>5 DEF Restart, SessionsLost, DrawsLost, ClaimCrash, EditsLost, PartsAgree
  <1>6. CASE UNCHANGED vars
    BY <1>2, <1>6 DEF vars, sessionVars, drawVars, claimVars, taskVars
  <1>7. QED
    BY <1>1, <1>3, <1>4, <1>5, <1>6 DEF Next

\* The invariants of the parts hold while they share the process.
THEOREM WorkbenchInvariant == Spec => []WorkbenchInv
  <1> DEFINE Parts == DrawSafe /\ LockInv /\ ClaimInv
  <1>1. Init => SessionSafe /\ mix \in Mixes /\ EditSafe /\ PartsAgree
    <2>1. Init => PartsAgree
      BY WorkbenchAssumption, DrawAssumption
      DEF Init, SessionInit, DrawInit, ClaimInit, EditInit, PartsAgree
    <2>2. QED
      BY <2>1, InitSessionSafe, InitEditSafe DEF Init
  <1>2. /\ SessionSafe /\ mix \in Mixes /\ EditSafe /\ PartsAgree /\ Parts /\ [Next]_vars
        => (SessionSafe /\ mix \in Mixes /\ EditSafe /\ PartsAgree)'
    <2>1. SessionSafe /\ EditSafe /\ Parts => Typed
      BY DEF SessionSafe, SessionInv, EditSafe, EditInv, DrawSafe, DrawInv, ClaimInv, Typed
    <2>2. QED
      BY <2>1, NextKeepsSessions, NextKeepsEdits, NextAgrees
  <1>3. SessionSafe /\ EditSafe /\ PartsAgree /\ Parts => WorkbenchInv
    BY DEF SessionSafe, EditSafe, DrawSafe, WorkbenchInv
  <1> HIDE DEF Parts
  <1>4. Spec => []Parts
    BY DrawsInvariant DEF Parts
  <1>5. QED
    BY <1>1, <1>2, <1>3, <1>4, PTL DEF Spec
==============================================================================
