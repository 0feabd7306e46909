-------------------------- MODULE PurchaseDrawProofs --------------------------
(***************************************************************************)
(* Theorems about PurchaseDraw, for any number of concurrent requests, any *)
(* supply of idempotency keys, with or without failing writes: the record  *)
(* tells the truth, an open purchase is always on record, and the key is   *)
(* replaced only when its purchase is settled.                             *)
(***************************************************************************)
EXTENDS PurchaseDraw, FiniteSetTheorems, TLAPS

\* No request, no record, nothing charged.
LEMMA InitPurchaseInv == Init => PurchaseInv
  <1> SUFFICES ASSUME Init PROVE PurchaseInv
    OBVIOUS
  <1>1. IsFiniteSet(applied)
    BY FS_EmptySet DEF Init
  <1>2. QED
    BY <1>1, LedgerAssumption, PurchaseAssumption
    DEF Init, PurchaseInv, TypeOK, LockHeld, RecordFollowsRequest, RecordShape,
        PlatformShape, BaselineCountsOthers, UnsettledIsOnRecord, RecordTellsTheTruth,
        NoAction, NoBase, Actions, Statuses, PCs, Replies

\* A dashboard past the baseline proves that the open purchase was charged:
\* without it the dashboard would still count what the baseline counts.
LEMMA ProofIsGenuine ==
    ASSUME PurchaseInv, act.started, NEW left \in {PurchasedLeft, NoCount}, ProvesSuccess(left)
    PROVE  act.idem \in applied
  <1> SUFFICES ASSUME act.idem \notin applied PROVE FALSE
    OBVIOUS
  <1>1. applied \ {act.idem} = applied
    OBVIOUS
  <1>2. Cardinality(applied) \in Nat
    BY FS_CardinalityType DEF PurchaseInv, PlatformShape
  <1>3. base.today = Cardinality(applied)
    BY <1>1 DEF PurchaseInv, BaselineCountsOthers
  <1>4. base.left # NoCount => Cardinality(applied) - used <= base.left
    BY <1>1 DEF PurchaseInv, BaselineCountsOthers
  <1>5. used \in Nat /\ base.left \in Int \union {NoCount}
    BY DEF PurchaseInv, TypeOK
  <1>6. QED
    BY <1>2, <1>3, <1>4, <1>5, PurchaseAssumption
    DEF ProvesSuccess, PurchasedToday, PurchasedLeft

\* A request that records a as its last write and returns.
LEMMA RecordAndReturn ==
    ASSUME PurchaseInv, NEW c \in Callers, lock = c, NEW a \in Actions,
           a.idem = act.idem, act.status # "none", a.status # "none",
           a.started => act.started /\ a.status \in {"pending", "unknown"},
           a.status = "unknown" => a.started,
           ~a.started /\ a.status # "completed" => act.idem \notin applied \union inflight,
           a.status = "completed" => act.idem \in applied,
           Write(a), Return(c), UNCHANGED <<base, posted, platform>>
    PROVE  PurchaseInv'
  <1>u. UNCHANGED <<base, posted, applied, inflight, used>> /\ act' = a
    BY DEF platform, Write
  <1>p. \A d \in Callers : pc'[d] \in {"idle", "queued"}
    BY DEF Return, PurchaseInv, TypeOK, LockHeld
  <1>1. TypeOK'
    BY <1>u, LedgerAssumption
    DEF PurchaseInv, TypeOK, Write, SeenByWaiting, Return, PCs, Replies, RecordShape, Actions
  <1>2. LockHeld'
    BY <1>p, PurchaseAssumption DEF LockHeld, Return
  <1>3. RecordFollowsRequest'
    BY <1>p DEF RecordFollowsRequest
  <1>4. RecordShape'
    BY <1>u DEF PurchaseInv, RecordShape
  <1>5. PlatformShape'
    BY <1>u DEF PurchaseInv, PlatformShape
  <1>6. BaselineCountsOthers'
    BY <1>u, <1>p DEF PurchaseInv, BaselineCountsOthers
  <1>7. UnsettledIsOnRecord' /\ RecordTellsTheTruth'
    BY <1>u DEF PurchaseInv, PlatformShape, UnsettledIsOnRecord, RecordTellsTheTruth
  <1>8. QED
    BY <1>1, <1>2, <1>3, <1>4, <1>5, <1>6, <1>7 DEF PurchaseInv

\* A request that returns without writing the record.
LEMMA JustReturn ==
    ASSUME PurchaseInv, NEW c \in Callers, lock = c, Return(c),
           recent' \in [Callers -> SUBSET IdemKeys],
           UNCHANGED <<store, updated, posted, platform>>
    PROVE  PurchaseInv'
  <1>u. UNCHANGED <<act, base, updated, posted, applied, inflight, used>>
    BY DEF platform, store
  <1>p. \A d \in Callers : pc'[d] \in {"idle", "queued"}
    BY DEF Return, PurchaseInv, TypeOK, LockHeld
  <1>1. TypeOK'
    BY <1>u DEF PurchaseInv, TypeOK, Return, PCs, Replies
  <1>2. LockHeld' /\ RecordFollowsRequest'
    BY <1>p, PurchaseAssumption DEF LockHeld, RecordFollowsRequest, Return
  <1>3. RecordShape' /\ PlatformShape' /\ UnsettledIsOnRecord' /\ RecordTellsTheTruth'
    BY <1>u DEF PurchaseInv, RecordShape, PlatformShape, UnsettledIsOnRecord, RecordTellsTheTruth
  <1>4. BaselineCountsOthers'
    BY <1>u, <1>p DEF PurchaseInv, BaselineCountsOthers
  <1>5. QED
    BY <1>1, <1>2, <1>3, <1>4 DEF PurchaseInv

\* Requests before the lock, and the branches that only move the owner.
LEMMA QueueInv ==
    ASSUME PurchaseInv, NEW c \in Callers, Call(c) \/ TakeLock(c)
    PROVE  PurchaseInv'
  <1> USE PurchaseAssumption DEF PurchaseInv, TypeOK, LockHeld, RecordFollowsRequest,
          RecordShape, PlatformShape, BaselineCountsOthers, UnsettledIsOnRecord,
          RecordTellsTheTruth, PCs, store, platform, Goto
  <1>1. CASE Call(c)
    BY <1>1 DEF Call
  <1>2. CASE TakeLock(c)
    BY <1>2 DEF TakeLock
  <1>3. QED
    BY <1>1, <1>2

\* The switch on the stored record.
LEMMA EnterInv ==
    ASSUME PurchaseInv, NEW c \in Callers,
           \/ EnterNew(c) \/ EnterReconcile(c) \/ EnterRepeat(c)
           \/ EnterDuplicate(c) \/ EnterResume(c) \/ EnterBlocked(c)
    PROVE  PurchaseInv'
  <1> USE LedgerAssumption, PurchaseAssumption
      DEF PurchaseInv, TypeOK, LockHeld, RecordFollowsRequest, RecordShape, PlatformShape,
          BaselineCountsOthers, UnsettledIsOnRecord, RecordTellsTheTruth,
          PCs, store, platform, Goto
  <1>1. CASE EnterNew(c)
    BY <1>1 DEF EnterNew, Write, SeenByWaiting, NewAction, Fresh, Actions, Statuses
  <1>2. CASE EnterReconcile(c)
    BY <1>2 DEF EnterReconcile
  <1>3. CASE EnterRepeat(c)
    BY <1>3 DEF EnterRepeat, Write, SeenByWaiting, RotateRepeatable, NewAction, MayRotate, Fresh,
                NoBase, Actions, Statuses
  <1>4. CASE EnterDuplicate(c) \/ EnterBlocked(c)
    BY <1>4, JustReturn DEF EnterDuplicate, EnterBlocked
  <1>5. CASE EnterResume(c)
    BY <1>5 DEF EnterResume, Actions, Statuses
  <1>6. QED
    BY <1>1, <1>2, <1>3, <1>4, <1>5

\* The preflight, its failure, and the write-ahead of "started".
LEMMA PreflightInv ==
    ASSUME PurchaseInv, NEW c \in Callers, PreflightFails(c) \/ Preflight(c) \/ Start(c)
    PROVE  PurchaseInv'
  <1>1. CASE PreflightFails(c)
    <2>1. PICK again \in BOOLEAN : Write(FailUnstarted(act, again))
      BY <1>1 DEF PreflightFails
    <2> DEFINE a == FailUnstarted(act, again)
    <2>2. lock = c /\ act.status = "pending" /\ ~act.started
      BY <1>1 DEF PreflightFails, PurchaseInv, LockHeld, RecordFollowsRequest
    <2>3. /\ a \in Actions /\ a.idem = act.idem /\ a.status = "failed" /\ ~a.started
      BY DEF FailUnstarted, Actions, Statuses, PurchaseInv, TypeOK
    <2>4. act.idem \notin applied \union inflight
      BY <2>2 DEF PurchaseInv, RecordShape
    <2> HIDE DEF a
    <2>5. QED
      BY <1>1, <2>1, <2>2, <2>3, <2>4, RecordAndReturn DEF PreflightFails, a
  <1>2. CASE Preflight(c)
    <2>1. PICK left \in {PurchasedLeft, NoCount} : base' = [today |-> PurchasedToday, left |-> left]
      BY <1>2 DEF Preflight
    <2>2. /\ act' = [act EXCEPT !.retryable = FALSE]
          /\ pc' = [pc EXCEPT ![c] = "start"]
          /\ UNCHANGED <<lock, reply, posted, applied, inflight, used>>
      BY <1>2 DEF Preflight, Write, Goto, platform
    <2>3. pc[c] = "preflight" /\ lock = c /\ act.status = "pending" /\ ~act.started
      BY <1>2 DEF Preflight, PurchaseInv, LockHeld, RecordFollowsRequest
    <2>4. act.idem \notin applied \union inflight
      BY <2>3 DEF PurchaseInv, RecordShape
    <2>5. Cardinality(applied) \in Nat /\ applied \ {act.idem} = applied
      BY <2>4, FS_CardinalityType DEF PurchaseInv, PlatformShape
    <2>6. /\ act' \in Actions /\ act'.idem = act.idem /\ act'.status = act.status
          /\ act'.started = act.started
      BY <2>2 DEF PurchaseInv, TypeOK, Actions
    <2>7. TypeOK'
      <3>1. act'.idem \in IdemKeys
        BY <2>3, <2>6, LedgerAssumption DEF PurchaseInv, TypeOK, Actions, RecordShape
      <3>2. base' \in [today : Nat, left : Int \union {NoCount}]
        BY <2>1, <2>5 DEF PurchasedToday, PurchasedLeft, PurchaseInv, TypeOK
      <3>3. updated' \in [Callers -> BOOLEAN] /\ recent' \in [Callers -> SUBSET IdemKeys]
        BY <1>2, <2>2, <3>1 DEF Preflight, Write, SeenByWaiting, PurchaseInv, TypeOK
      <3>4. QED
        BY <2>2, <2>6, <3>2, <3>3 DEF PurchaseInv, TypeOK, PCs
    <2>8. LockHeld' /\ RecordFollowsRequest'
      BY <2>2, <2>3, <2>6 DEF PurchaseInv, TypeOK, LockHeld, RecordFollowsRequest
    <2>9. RecordShape' /\ PlatformShape' /\ UnsettledIsOnRecord' /\ RecordTellsTheTruth'
      BY <2>2, <2>6 DEF PurchaseInv, RecordShape, PlatformShape, UnsettledIsOnRecord, RecordTellsTheTruth
    <2>10. BaselineCountsOthers'
      BY <2>1, <2>2, <2>5, <2>6
      DEF BaselineCountsOthers, PurchasedToday, PurchasedLeft, PurchaseInv, TypeOK
    <2>11. QED
      BY <2>7, <2>8, <2>9, <2>10 DEF PurchaseInv
  <1>3. CASE Start(c)
    BY <1>3, LedgerAssumption
    DEF Start, Write, SeenByWaiting, StartAction, Goto, store, platform, Actions, Statuses, PCs,
        PurchaseInv, TypeOK, LockHeld, RecordFollowsRequest, RecordShape, PlatformShape,
        BaselineCountsOthers, UnsettledIsOnRecord, RecordTellsTheTruth
  <1>4. QED
    BY <1>1, <1>2, <1>3

\* The post: only the key on record can become charged or open.
LEMMA PostInv ==
    ASSUME PurchaseInv, NEW c \in Callers, Post(c) \/ PostUnauthorized(c)
    PROVE  PurchaseInv'
  <1>1. CASE Post(c)
    <2> DEFINE k == act.idem
    <2>1. PICK a \in Outcomes, r \in Replies :
            Exchange(k, a, r) /\ reply' = [reply EXCEPT ![c] = r]
      BY <1>1 DEF Post
    <2>2. /\ act' = act /\ base' = base /\ lock' = lock /\ used' = used
          /\ pc' = [pc EXCEPT ![c] = "verify"]
      BY <1>1, <2>1 DEF Post, Exchange, store, Goto
    <2>3. /\ lock = c /\ pc[c] \in {"post", "repost"}
          /\ act.status = "pending" /\ act.started
          /\ k \in IdemKeys /\ k \notin applied \union inflight
      BY <1>1 DEF Post, PurchaseInv, TypeOK, Actions, LockHeld, RecordFollowsRequest, RecordShape
    <2>4. /\ applied' \in {applied, applied \union {k}}
          /\ inflight' \in {inflight, inflight \union {k}}
          /\ applied' # applied => inflight' = inflight
          /\ r = "insufficient" => applied' = applied /\ inflight' = inflight
          /\ posted' = posted \union {k}
      BY <2>1 DEF Exchange, Outcomes
    <2>5. applied' \ {k} = applied \ {k}
      BY <2>4
    <2>6. IsFiniteSet(applied')
      BY <2>4, FS_AddElement DEF PurchaseInv, PlatformShape
    <2>7. TypeOK'
      BY <1>1, <2>1, <2>2, <2>3, <2>4 DEF PurchaseInv, TypeOK, Post, SeenByWaiting, PCs, Replies
    <2>8. LockHeld'
      BY <2>2, <2>3 DEF PurchaseInv, TypeOK, LockHeld
    <2>9. RecordFollowsRequest'
      BY <2>1, <2>2, <2>3, <2>4 DEF PurchaseInv, TypeOK, LockHeld, RecordFollowsRequest
    <2>10. RecordShape' /\ RecordTellsTheTruth' /\ UnsettledIsOnRecord'
      BY <2>2, <2>3, <2>4 DEF PurchaseInv, RecordShape, RecordTellsTheTruth, UnsettledIsOnRecord
    <2>11. PlatformShape'
      BY <2>3, <2>4, <2>6 DEF PurchaseInv, PlatformShape
    <2>12. BaselineCountsOthers'
      BY <2>2, <2>3, <2>5 DEF PurchaseInv, BaselineCountsOthers
    <2>13. QED
      BY <2>7, <2>8, <2>9, <2>10, <2>11, <2>12 DEF PurchaseInv
  <1>2. CASE PostUnauthorized(c)
    BY <1>2, LedgerAssumption
    DEF PostUnauthorized, SeenByWaiting, Goto, store, platform, Actions, PCs, Replies,
        PurchaseInv, TypeOK, LockHeld, RecordFollowsRequest, RecordShape, PlatformShape,
        BaselineCountsOthers, UnsettledIsOnRecord, RecordTellsTheTruth
  <1>3. QED
    BY <1>1, <1>2

\* The outcomes after the post and after a reconciliation.
LEMMA OutcomeInv ==
    ASSUME PurchaseInv, NEW c \in Callers,
           \/ FinishWithoutProof(c) \/ FinishProved(c) \/ FinishInsufficient(c)
           \/ ReconcileProved(c) \/ ReconcileUnproved(c)
    PROVE  PurchaseInv'
  <1>1. /\ lock = c /\ act.started /\ act.status \in {"pending", "unknown"} /\ act \in Actions
        /\ Return(c) /\ UNCHANGED <<base, posted, platform>>
    BY DEF FinishWithoutProof, FinishProved, FinishInsufficient, ReconcileProved,
           ReconcileUnproved, PurchaseInv, TypeOK, LockHeld, RecordFollowsRequest, RecordShape
  <1>2. CASE FinishProved(c) \/ ReconcileProved(c)
    <2> DEFINE a == Complete(act)
    <2>1. act.idem \in applied /\ Write(a)
      BY <1>1, <1>2, ProofIsGenuine DEF FinishProved, ReconcileProved
    <2>2. a \in Actions /\ a.idem = act.idem /\ a.status = "completed" /\ ~a.started
      BY <1>1 DEF Complete, Actions, Statuses
    <2> HIDE DEF a
    <2>3. QED
      BY <1>1, <2>1, <2>2, RecordAndReturn
  <1>3. CASE FinishInsufficient(c)
    <2> DEFINE a == FailUnstarted(act, TRUE)
    <2>1. act.idem \notin applied \union inflight /\ Write(a)
      BY <1>3 DEF FinishInsufficient, PurchaseInv, RecordFollowsRequest
    <2>2. a \in Actions /\ a.idem = act.idem /\ a.status = "failed" /\ ~a.started
      BY <1>1 DEF FailUnstarted, Actions, Statuses
    <2> HIDE DEF a
    <2>3. QED
      BY <1>1, <2>1, <2>2, RecordAndReturn
  <1>4. CASE FinishWithoutProof(c) \/ ReconcileUnproved(c)
    <2>1. PICK a \in {LeavePending(act), LeaveUnknown(act)} : Write(a)
      BY <1>4 DEF FinishWithoutProof, ReconcileUnproved
    <2>2. a \in Actions /\ a.idem = act.idem /\ a.status \in {"pending", "unknown"} /\ a.started
      BY <1>1 DEF LeavePending, LeaveUnknown, Actions, Statuses
    <2>3. QED
      BY <1>1, <2>1, <2>2, RecordAndReturn
  <1>5. QED
    BY <1>2, <1>3, <1>4

\* Every step of a request.
LEMMA RequestInv ==
    ASSUME PurchaseInv, NEW c \in Callers, Request(c)
    PROVE  PurchaseInv'
  <1>1. CASE ReconcileFails(c) \/ StoreFails(c)
    <2>1. recent' \in [Callers -> SUBSET IdemKeys]
      BY <1>1 DEF ReconcileFails, StoreFails, PurchaseInv, TypeOK
    <2>2. QED
      BY <1>1, <2>1, JustReturn DEF ReconcileFails, StoreFails, PurchaseInv, LockHeld
  <1>2. QED
    BY <1>1, QueueInv, EnterInv, PreflightInv, PostInv, OutcomeInv DEF Request

\* A late charge of the open purchase, or none.
LEMMA ChargeLateInv ==
    ASSUME PurchaseInv, NEW k \in IdemKeys, ChargeLate(k) \/ GiveUp(k)
    PROVE  PurchaseInv'
  <1>u. UNCHANGED <<act, base, lock, pc, reply, updated, recent, posted, used>>
    BY DEF ChargeLate, GiveUp, store
  <1>k. k \in inflight /\ act.idem = k /\ act.started
    BY DEF ChargeLate, GiveUp, PurchaseInv, UnsettledIsOnRecord
  <1>a. applied' \in {applied, applied \union {k}} /\ inflight' = inflight \ {k}
    BY DEF ChargeLate, GiveUp
  <1>1. applied' \ {k} = applied \ {k}
    BY <1>a
  <1>2. IsFiniteSet(applied')
    BY <1>a, FS_AddElement DEF PurchaseInv, PlatformShape
  <1>3. TypeOK' /\ LockHeld'
    BY <1>u, <1>a DEF PurchaseInv, TypeOK, LockHeld
  <1>4. RecordFollowsRequest'
    BY <1>u, <1>a, <1>k DEF PurchaseInv, RecordFollowsRequest
  <1>5. RecordShape' /\ UnsettledIsOnRecord' /\ RecordTellsTheTruth'
    BY <1>u, <1>a, <1>k DEF PurchaseInv, RecordShape, UnsettledIsOnRecord, RecordTellsTheTruth
  <1>6. PlatformShape'
    BY <1>u, <1>a, <1>k, <1>2 DEF PurchaseInv, PlatformShape
  <1>7. BaselineCountsOthers'
    BY <1>u, <1>k, <1>1 DEF PurchaseInv, BaselineCountsOthers
  <1>8. QED
    BY <1>3, <1>4, <1>5, <1>6, <1>7 DEF PurchaseInv

\* Draws lower the purchased draws left, which is on the safe side.
LEMMA UseDrawInv ==
    ASSUME PurchaseInv, UseDraw
    PROVE  PurchaseInv'
  <1>1. Cardinality(applied \ {act.idem}) \in Nat
    BY FS_RemoveElement, FS_CardinalityType DEF PurchaseInv, PlatformShape
  <1>2. BaselineCountsOthers'
    BY <1>1, PurchaseAssumption DEF UseDraw, store, PurchaseInv, TypeOK, BaselineCountsOthers
  <1>3. QED
    BY <1>2 DEF UseDraw, store, PurchaseInv, TypeOK, LockHeld, RecordFollowsRequest, RecordShape,
                PlatformShape, UnsettledIsOnRecord, RecordTellsTheTruth

\* A crash forgets the requests, never the record.
LEMMA CrashInv ==
    ASSUME PurchaseInv, Crash
    PROVE  PurchaseInv'
  BY PurchaseAssumption
  DEF Crash, store, platform, PCs, Replies, PurchaseInv, TypeOK, LockHeld, RecordFollowsRequest,
      RecordShape, PlatformShape, BaselineCountsOthers, UnsettledIsOnRecord, RecordTellsTheTruth

LEMMA NextPurchaseInv == PurchaseInv /\ [Next]_vars => PurchaseInv'
  <1> SUFFICES ASSUME PurchaseInv, [Next]_vars PROVE PurchaseInv'
    OBVIOUS
  <1>1. CASE UNCHANGED vars
    BY <1>1 DEF vars, PurchaseInv, TypeOK, LockHeld, RecordFollowsRequest, RecordShape,
                PlatformShape, BaselineCountsOthers, UnsettledIsOnRecord, RecordTellsTheTruth
  <1>2. QED
    BY <1>1, RequestInv, ChargeLateInv, UseDrawInv, CrashInv DEF Next

(***************************************************************************)
(* PurchaseDraw keeps its invariant under concurrent requests, crashes,    *)
(* failed writes, lost replies and late charges.                           *)
(***************************************************************************)
THEOREM PurchaseInvariant == Spec => []PurchaseInv
  BY InitPurchaseInv, NextPurchaseInv, PTL DEF Spec

(***************************************************************************)
(* A purchase that may still be charged is on record as started, under its *)
(* own key, in every state, crashes included.                              *)
(***************************************************************************)
THEOREM OpenPurchaseIsOnRecord == Spec => []UnsettledIsOnRecord
  <1>1. PurchaseInv => UnsettledIsOnRecord
    BY DEF PurchaseInv
  <1>2. QED
    BY <1>1, PurchaseInvariant, PTL

(***************************************************************************)
(* "Completed" means charged and "failed" means not charged, for the       *)
(* record reconciled against the dashboard.                                *)
(***************************************************************************)
THEOREM PurchaseRecordIsTrue == Spec => []RecordTellsTheTruth
  <1>1. PurchaseInv => RecordTellsTheTruth
    BY DEF PurchaseInv
  <1>2. QED
    BY <1>1, PurchaseInvariant, PTL

(***************************************************************************)
(* The idempotency key is replaced only when its purchase is settled and   *)
(* the record said how: no second purchase while one is open.              *)
(***************************************************************************)
THEOREM PurchaseKeyDiscipline == Spec => KeyReplacedOnlyWhenSettled
  <1> DEFINE Settled == act'.idem # act.idem =>
                           /\ act.idem \notin inflight
                           /\ act.idem \in applied <=> act.status = "completed"
  <1>1. PurchaseInv /\ [Next]_vars => [Settled]_vars
    <2> SUFFICES ASSUME PurchaseInv, Next, act'.idem # act.idem PROVE Settled
      BY DEF vars
    <2>1. act \in Actions
      BY DEF PurchaseInv, TypeOK
    <2>2. PICK c \in Callers : Request(c)
      BY DEF Next, ChargeLate, GiveUp, UseDraw, Crash, store
    <2>3. EnterNew(c) \/ EnterRepeat(c)
      BY <2>1, <2>2 DEF Request, Call, TakeLock, EnterReconcile, EnterDuplicate, EnterResume,
         EnterBlocked, PreflightFails, Preflight, Start, Post, PostUnauthorized,
         FinishWithoutProof, FinishProved, FinishInsufficient, ReconcileProved,
         ReconcileUnproved, ReconcileFails, StoreFails, Write, store, Complete, FailUnstarted,
         LeaveUnknown, LeavePending, StartAction, Actions
    <2>4. CASE EnterNew(c)
      BY <2>4, LedgerAssumption DEF EnterNew, PurchaseInv, RecordShape, TypeOK
    <2>5. CASE EnterRepeat(c)
      BY <2>5 DEF EnterRepeat, MayRotate, PurchaseInv, RecordShape, PlatformShape,
                  RecordTellsTheTruth, UnsettledIsOnRecord
    <2>6. QED
      BY <2>3, <2>4, <2>5
  <1>2. QED
    BY <1>1, PurchaseInvariant, PTL DEF Spec, KeyReplacedOnlyWhenSettled

------------------------------------------------------------------------------
(***************************************************************************)
(* The double click: what a request missed while it waited.                *)
(***************************************************************************)
\* A request that writes the record and returns leaves a settled record, or
\* one that is open, and every request that waits knows of the write.
LEMMA RecentAfterReturn ==
    ASSUME PurchaseInv, RecentIsAccountedFor, NEW c \in Callers, lock = c, NEW a \in Actions,
           a.idem = act.idem, a.status # "none", a.status = "pending" => a.started,
           Write(a), Return(c)
    PROVE  RecentIsAccountedFor'
  <1>1. \A d \in Callers : pc'[d] # "idle" => updated'[d]
    BY DEF Write, Return, PurchaseInv, TypeOK
  <1>2. \A d \in Callers : pc'[d] \in {"idle", "queued"}
    BY DEF Return, PurchaseInv, TypeOK, LockHeld
  <1>3. act' = a
    BY DEF Write
  <1>4. QED
    BY <1>1, <1>2, <1>3 DEF RecentIsAccountedFor

\* A request that takes a new key has missed no other one.
LEMMA RecentNewKey ==
    ASSUME PurchaseInv, RecentIsAccountedFor, NEW c \in Callers, pc[c] = "enter",
           act.status = "none" \/ (~act.started /\ ~updated[c]),
           NEW k \in IdemKeys, Write(NewAction(k)), Goto(c, "preflight")
    PROVE  RecentIsAccountedFor'
  <1>1. recent[c] = {}
    BY DEF RecentIsAccountedFor
  <1>2. act'.idem = k /\ act'.status = "pending"
    BY DEF Write, NewAction
  <1>3. pc'[c] = "preflight" /\ recent'[c] = {k}
    BY <1>1 DEF Write, NewAction, SeenByWaiting, Goto, PurchaseInv, TypeOK
  <1>4. \A d \in Callers \ {c} : pc'[d] \in {"idle", "queued"}
    BY DEF Goto, PurchaseInv, TypeOK, LockHeld
  <1>5. \A d \in Callers : pc'[d] # "idle" => updated'[d]
    BY DEF Write, Goto, PurchaseInv, TypeOK
  <1>6. QED
    BY <1>2, <1>3, <1>4, <1>5 DEF RecentIsAccountedFor

\* Requests before the lock, and the switch on the stored record.
LEMMA RecentEnter ==
    ASSUME PurchaseInv, RecentIsAccountedFor, NEW c \in Callers,
           \/ Call(c) \/ TakeLock(c)
           \/ EnterNew(c) \/ EnterReconcile(c) \/ EnterRepeat(c)
           \/ EnterDuplicate(c) \/ EnterResume(c) \/ EnterBlocked(c)
    PROVE  RecentIsAccountedFor'
  <1> USE LedgerAssumption, PurchaseAssumption
      DEF PurchaseInv, TypeOK, LockHeld, RecordFollowsRequest, RecentIsAccountedFor,
          PCs, store, Goto
  <1>1. CASE Call(c)
    BY <1>1 DEF Call
  <1>2. CASE TakeLock(c)
    BY <1>2 DEF TakeLock
  <1>3. CASE EnterNew(c)
    BY <1>3, RecentNewKey DEF EnterNew
  <1>4. CASE EnterReconcile(c)
    BY <1>4 DEF EnterReconcile, Actions, Statuses
  <1>5. CASE EnterRepeat(c)
    BY <1>5, RecentNewKey DEF EnterRepeat, RotateRepeatable, MayRotate
  <1>6. CASE EnterDuplicate(c) \/ EnterBlocked(c)
    BY <1>6 DEF EnterDuplicate, EnterBlocked, Return, MayRotate
  <1>7. CASE EnterResume(c)
    BY <1>7 DEF EnterResume
  <1>8. QED
    BY <1>1, <1>2, <1>3, <1>4, <1>5, <1>6, <1>7

\* The owner from the preflight to the post: everything it writes or posts
\* carries the key on record.
LEMMA RecentPost ==
    ASSUME PurchaseInv, RecentIsAccountedFor, NEW c \in Callers,
           \/ PreflightFails(c) \/ Preflight(c) \/ Start(c)
           \/ Post(c) \/ PostUnauthorized(c)
    PROVE  RecentIsAccountedFor'
  <1> USE PurchaseAssumption
      DEF PurchaseInv, TypeOK, LockHeld, RecordFollowsRequest, RecentIsAccountedFor, Actions
  <1>1. CASE PreflightFails(c)
    <2>1. PICK again \in BOOLEAN : Write(FailUnstarted(act, again))
      BY <1>1 DEF PreflightFails
    <2>2. /\ FailUnstarted(act, again) \in Actions
          /\ FailUnstarted(act, again).idem = act.idem
          /\ FailUnstarted(act, again).status = "failed"
      BY DEF FailUnstarted, Statuses
    <2>3. QED
      BY <1>1, <2>1, <2>2, RecentAfterReturn DEF PreflightFails
  <1>2. CASE Preflight(c) \/ Start(c)
    <2>1. act'.idem = act.idem /\ act'.status = "pending"
      BY <1>2 DEF Preflight, Start, Write, StartAction
    <2>2. /\ lock = c /\ pc' \in {[pc EXCEPT ![c] = "start"], [pc EXCEPT ![c] = "post"]}
          /\ recent' = [d \in Callers |-> IF pc[d] # "idle" THEN recent[d] \union {act.idem} ELSE {}]
          /\ updated' = [d \in Callers |-> pc[d] # "idle"]
          /\ pc[c] \in {"preflight", "start"}
          /\ pc'[c] = "start" \/ act'.started
      BY <1>2 DEF Preflight, Start, Write, SeenByWaiting, StartAction, Goto
    <2>3. QED
      BY <2>1, <2>2
  <1>3. CASE Post(c) \/ PostUnauthorized(c)
    <2>1. /\ act' = act /\ updated' = updated /\ act.status = "pending" /\ act.started
          /\ lock = c /\ pc' \in {[pc EXCEPT ![c] = "verify"], [pc EXCEPT ![c] = "repost"]}
          /\ pc[c] \in {"post", "repost"}
          /\ recent' = [d \in Callers |-> IF pc[d] # "idle" THEN recent[d] \union {act.idem} ELSE {}]
      BY <1>3 DEF Post, PostUnauthorized, SeenByWaiting, Goto, store
    <2>2. QED
      BY <2>1
  <1>4. QED
    BY <1>1, <1>2, <1>3

\* The outcomes, and a write that failed.
LEMMA RecentOutcome ==
    ASSUME PurchaseInv, RecentIsAccountedFor, NEW c \in Callers,
           \/ FinishWithoutProof(c) \/ FinishProved(c) \/ FinishInsufficient(c)
           \/ ReconcileProved(c) \/ ReconcileUnproved(c) \/ ReconcileFails(c) \/ StoreFails(c)
    PROVE  RecentIsAccountedFor'
  <1>1. lock = c /\ act \in Actions /\ Return(c)
    BY DEF FinishWithoutProof, FinishProved, FinishInsufficient, ReconcileProved,
           ReconcileUnproved, ReconcileFails, StoreFails, PurchaseInv, TypeOK, LockHeld
  <1>2. CASE ReconcileFails(c)
    BY <1>1, <1>2 DEF ReconcileFails, Return, store, PurchaseInv, TypeOK, LockHeld,
                      RecordFollowsRequest, RecentIsAccountedFor
  <1>3. CASE StoreFails(c)
    BY <1>3 DEF StoreFails, RecentIsAccountedFor
  <1>4. CASE ~(ReconcileFails(c) \/ StoreFails(c))
    <2>1. PICK a \in {Complete(act), FailUnstarted(act, TRUE), LeavePending(act), LeaveUnknown(act)} :
            Write(a)
      BY <1>4 DEF FinishWithoutProof, FinishProved, FinishInsufficient, ReconcileProved,
                  ReconcileUnproved
    <2>2. /\ a \in Actions /\ a.idem = act.idem /\ a.status # "none"
          /\ a.status = "pending" => a.started
      BY <1>1 DEF Complete, FailUnstarted, LeavePending, LeaveUnknown, Actions, Statuses
    <2>3. QED
      BY <1>1, <2>1, <2>2, RecentAfterReturn
  <1>5. QED
    BY <1>2, <1>3, <1>4

LEMMA NextRecent ==
    PurchaseInv /\ RecentIsAccountedFor /\ [Next]_vars => RecentIsAccountedFor'
  <1> SUFFICES ASSUME PurchaseInv, RecentIsAccountedFor, [Next]_vars PROVE RecentIsAccountedFor'
    OBVIOUS
  <1>1. CASE UNCHANGED <<act, pc, updated, recent>>
    BY <1>1 DEF RecentIsAccountedFor
  <1>2. CASE Crash
    BY <1>2 DEF Crash, RecentIsAccountedFor
  <1>3. CASE \E c \in Callers : Request(c)
    BY <1>3, RecentEnter, RecentPost, RecentOutcome DEF Request
  <1>4. QED
    BY <1>1, <1>2, <1>3 DEF Next, vars, ChargeLate, GiveUp, UseDraw, store

(***************************************************************************)
(* A double click buys once: a request never posts a purchase of its own   *)
(* after another key was posted or recorded while it waited, for any       *)
(* number of requests, unless a write of the state file failed in between. *)
(***************************************************************************)
THEOREM DoubleClickIsOnePurchase == Spec => []DoubleClickBuysOnce
  <1>1. Init => RecentIsAccountedFor
    BY DEF Init, RecentIsAccountedFor
  <1>2. RecentIsAccountedFor => DoubleClickBuysOnce
    BY DEF RecentIsAccountedFor, DoubleClickBuysOnce
  <1>3. QED
    BY <1>1, <1>2, NextRecent, PurchaseInvariant, PTL DEF Spec
===============================================================================
