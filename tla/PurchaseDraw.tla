----------------------------- MODULE PurchaseDraw -----------------------------
(***************************************************************************)
(* Buying one draw: Runner.PurchaseDraw of internal/service/purchase.go,   *)
(* for one account and one day, run by any number of concurrent requests   *)
(* in a process that may crash and restart.                                *)
(*                                                                         *)
(* A request takes the action lock (module Mutex), reads or creates the    *)
(* action record, reads the dashboard as a baseline, persists "started",   *)
(* posts the purchase with the record's idempotency key and then believes  *)
(* only the dashboard.  Every step ends with a write of the state file or  *)
(* a reply of the platform; a crash may happen between any two of them.    *)
(*                                                                         *)
(* The platform (external).  A posted key is applied at once, applied      *)
(* later, or never; the reply may be lost in each case.  A key is charged  *)
(* at most once.  401/403 and "insufficient balance" mean not charged.     *)
(* The account buys draws only through this program.                       *)
(***************************************************************************)
EXTENDS ActionLedger, Integers, FiniteSets

CONSTANTS
    Callers,     \* concurrent purchase-draw requests
    Nobody,      \* the action lock is free
    NoCount      \* the dashboard does not report purchased draws left

ASSUME PurchaseAssumption ==
    /\ Nobody \notin Callers
    /\ NoCount \notin Int

VARIABLES
    act,         \* the persisted action record
    base,        \* PurchaseBeforeToday and PurchaseBeforeRemaining of the record
    lock,        \* owner of LockAction(account, day, draw_purchase)
    pc,          \* where the request is
    reply,       \* what the request knows from its POST
    updated,     \* UpdatedAt is not before the callStarted of the request
    recent,      \* history: keys posted or recorded since the request began
                 \* and since the last failed write
    posted,      \* history: keys that ever left the process
    applied,     \* platform: keys charged
    inflight,    \* platform: keys accepted, to be charged later or never
    used         \* platform: purchased draws already drawn

store == <<act, base>>
platform == <<applied, inflight, used>>
vars == <<act, base, lock, pc, reply, updated, recent, posted, applied, inflight, used>>

PCs == {"idle", "queued", "enter", "preflight", "start", "post", "repost", "verify", "reconcile"}
Replies == {"none", "ok", "processing", "insufficient", "error"}
NoBase == [today |-> 0, left |-> NoCount]

Init ==
    /\ act = NoAction
    /\ base = NoBase
    /\ lock = Nobody
    /\ pc = [c \in Callers |-> "idle"]
    /\ reply = [c \in Callers |-> "none"]
    /\ updated = [c \in Callers |-> FALSE]
    /\ recent = [c \in Callers |-> {}]
    /\ posted = {}
    /\ applied = {}
    /\ inflight = {}
    /\ used = 0

------------------------------------------------------------------------------
\* The dashboard: purchases charged today and purchased draws not yet used.
PurchasedToday == Cardinality(applied)
PurchasedLeft == Cardinality(applied) - used

\* purchaseDashboardProvesSuccess on a dashboard that reports `left`.
ProvesSuccess(left) ==
    \/ PurchasedToday > base.today
    \/ base.left # NoCount /\ left # NoCount /\ left > base.left

Goto(c, label) == pc' = [pc EXCEPT ![c] = label]

\* The history of every request that has begun takes note of key k.
SeenByWaiting(k) ==
    recent' = [c \in Callers |-> IF pc[c] # "idle" THEN recent[c] \union {k} ELSE {}]

\* A write of the action record: UpdatedAt moves past the start of every
\* request that has begun.
Write(a) ==
    /\ act' = a
    /\ updated' = [c \in Callers |-> pc[c] # "idle"]
    /\ SeenByWaiting(a.idem)

\* The request returns: defer release().
Return(c) ==
    /\ lock' = Nobody
    /\ pc' = [pc EXCEPT ![c] = "idle"]
    /\ reply' = [reply EXCEPT ![c] = "none"]

\* A random key never repeats.  A key that was never posted may come back in
\* the model, which makes no difference to anybody.
Fresh(k) == k \notin posted /\ k # act.idem

------------------------------------------------------------------------------
\* callStarted is read before the lock is asked for.
Call(c) ==
    /\ pc[c] = "idle"
    /\ Goto(c, "queued")
    /\ updated' = [updated EXCEPT ![c] = FALSE]
    /\ recent' = [recent EXCEPT ![c] = {}]
    /\ UNCHANGED <<store, lock, reply, posted, platform>>

TakeLock(c) ==
    /\ pc[c] = "queued"
    /\ lock = Nobody
    /\ lock' = c
    /\ Goto(c, "enter")
    /\ UNCHANGED <<store, reply, updated, recent, posted, platform>>

\* First purchase of the day.
EnterNew(c) ==
    /\ pc[c] = "enter"
    /\ act.status = "none"
    /\ \E k \in IdemKeys : Fresh(k) /\ Write(NewAction(k))
    /\ Goto(c, "preflight")
    /\ UNCHANGED <<base, lock, reply, posted, platform>>

\* The outcome of an earlier post is not settled: look, do not buy.
EnterReconcile(c) ==
    /\ pc[c] = "enter"
    /\ act.status = "unknown" \/ act.started
    /\ Goto(c, "reconcile")
    /\ UNCHANGED <<store, lock, reply, updated, recent, posted, platform>>

\* Mutant of EnterRepeat: no comparison of UpdatedAt with callStarted.
EnterRepeatAlways(c) ==
    /\ pc[c] = "enter"
    /\ MayRotate(act)
    /\ \E k \in IdemKeys : Fresh(k) /\ Write(RotateRepeatable(act, k))
    /\ base' = NoBase
    /\ Goto(c, "preflight")
    /\ UNCHANGED <<lock, reply, posted, platform>>

\* Settled before this request began: a new purchase under a new key.
EnterRepeat(c) ==
    /\ pc[c] = "enter"
    /\ MayRotate(act)
    /\ ~updated[c]
    /\ \E k \in IdemKeys : Fresh(k) /\ Write(RotateRepeatable(act, k))
    /\ base' = NoBase
    /\ Goto(c, "preflight")
    /\ UNCHANGED <<lock, reply, posted, platform>>

\* Settled while this request waited (double click): answer from the record.
EnterDuplicate(c) ==
    /\ pc[c] = "enter"
    /\ MayRotate(act)
    /\ updated[c]
    /\ Return(c)
    /\ UNCHANGED <<store, updated, recent, posted, platform>>

\* Created but never started: go on with the same key.
EnterResume(c) ==
    /\ pc[c] = "enter"
    /\ act.status = "pending"
    /\ ~act.started
    /\ Goto(c, "preflight")
    /\ UNCHANGED <<store, lock, reply, updated, recent, posted, platform>>

\* Failed for good: answer from the record.
EnterBlocked(c) ==
    /\ pc[c] = "enter"
    /\ act.status = "failed"
    /\ ~act.started
    /\ ~act.retryable
    /\ Return(c)
    /\ UNCHANGED <<store, updated, recent, posted, platform>>

\* acquireLotteryForAction or the first dashboard failed; the failure is
\* retryable unless the account must be re-authenticated (authRetryable).
PreflightFails(c) ==
    /\ pc[c] = "preflight"
    /\ \E again \in BOOLEAN : Write(FailUnstarted(act, again))
    /\ Return(c)
    /\ UNCHANGED <<base, posted, platform>>

\* Mutant of Preflight: the baseline of the last purchase is kept.
PreflightKeepsBase(c) ==
    /\ pc[c] = "preflight"
    /\ Write([act EXCEPT !.retryable = FALSE])
    /\ Goto(c, "start")
    /\ UNCHANGED <<base, lock, reply, posted, platform>>

\* The first dashboard is the baseline of the proof; it is persisted.
Preflight(c) ==
    /\ pc[c] = "preflight"
    /\ \E left \in {PurchasedLeft, NoCount} :
        base' = [today |-> PurchasedToday, left |-> left]
    /\ Write([act EXCEPT !.retryable = FALSE])
    /\ Goto(c, "start")
    /\ UNCHANGED <<lock, reply, posted, platform>>

\* Mutant of Start: the post leaves before SideEffectStarted is persisted.
StartUnpersisted(c) ==
    /\ pc[c] = "start"
    /\ Write(act)
    /\ Goto(c, "post")
    /\ UNCHANGED <<base, lock, reply, posted, platform>>

Start(c) ==
    /\ pc[c] = "start"
    /\ Write(StartAction(act))
    /\ Goto(c, "post")
    /\ UNCHANGED <<base, lock, reply, posted, platform>>

\* client.PurchaseDraw with the key of the record: what the platform does
\* with it (a) and what the caller hears (r).
Exchange(k, a, r) ==
    /\ r # "none"
    /\ r = "insufficient" => a = "never"
    /\ applied' = IF a = "charged" THEN applied \union {k} ELSE applied
    /\ inflight' = IF a = "later" THEN inflight \union {k} ELSE inflight
    /\ posted' = posted \union {k}
    /\ UNCHANGED used

Outcomes == {"charged", "later", "never"}

Post(c) ==
    /\ pc[c] \in {"post", "repost"}
    /\ \E a \in Outcomes, r \in Replies :
        /\ Exchange(act.idem, a, r)
        /\ reply' = [reply EXCEPT ![c] = r]
    /\ SeenByWaiting(act.idem)
    /\ Goto(c, "verify")
    /\ UNCHANGED <<store, lock, updated>>

\* 401/403 on the first attempt, lottery session renewed: once more, with
\* the same key.  A failed renewal counts as an error of the post.
PostUnauthorized(c) ==
    /\ pc[c] = "post"
    /\ posted' = posted \union {act.idem}
    /\ SeenByWaiting(act.idem)
    /\ \/ Goto(c, "repost") /\ UNCHANGED reply
       \/ Goto(c, "verify") /\ reply' = [reply EXCEPT ![c] = "error"]
    /\ UNCHANGED <<store, lock, updated, platform>>

\* Mutant of FinishWithoutProof: an error of the post counts as not charged.
FinishErrorAsFailure(c) ==
    /\ pc[c] = "verify"
    /\ reply[c] # "insufficient"
    /\ Write(IF reply[c] = "processing" THEN LeavePending(act)
             ELSE FailUnstarted(act, TRUE))
    /\ Return(c)
    /\ UNCHANGED <<base, posted, platform>>

\* finishPurchaseWithoutProof: the dashboard is unreachable, or shows no
\* purchase.  The key stays, and with it the obligation to reconcile.
FinishWithoutProof(c) ==
    /\ pc[c] = "verify"
    /\ reply[c] # "insufficient"
    /\ Write(IF reply[c] = "processing" THEN LeavePending(act) ELSE LeaveUnknown(act))
    /\ Return(c)
    /\ UNCHANGED <<base, posted, platform>>

\* finishPurchaseDrawFromDashboard: the dashboard moved past the baseline.
\* A dashboard without proof ends in FinishWithoutProof.
FinishProved(c) ==
    /\ pc[c] = "verify"
    /\ reply[c] # "insufficient"
    /\ \E left \in {PurchasedLeft, NoCount} : ProvesSuccess(left)
    /\ Write(Complete(act))
    /\ Return(c)
    /\ UNCHANGED <<base, posted, platform>>

\* isExplicitInsufficient: not charged, may be tried again.
FinishInsufficient(c) ==
    /\ pc[c] = "verify"
    /\ reply[c] = "insufficient"
    /\ Write(FailUnstarted(act, TRUE))
    /\ Return(c)
    /\ UNCHANGED <<base, posted, platform>>

\* reconcilePurchaseDraw, dashboard read.
ReconcileProved(c) ==
    /\ pc[c] = "reconcile"
    /\ \E left \in {PurchasedLeft, NoCount} : ProvesSuccess(left)
    /\ Write(Complete(act))
    /\ Return(c)
    /\ UNCHANGED <<base, posted, platform>>

ReconcileUnproved(c) ==
    /\ pc[c] = "reconcile"
    /\ \E left \in {PurchasedLeft, NoCount} : ~ProvesSuccess(left)
    /\ Write(IF act.status = "pending" THEN LeavePending(act) ELSE LeaveUnknown(act))
    /\ Return(c)
    /\ UNCHANGED <<base, posted, platform>>

\* Reconciliation could not reach the platform: the request returns an error
\* and the record stays as it was.
ReconcileFails(c) ==
    /\ pc[c] = "reconcile"
    /\ Return(c)
    /\ UNCHANGED <<store, updated, recent, posted, platform>>

\* persistLocked failed: the store rolls its memory back and the request
\* returns the error.  A record it leaves pending may be resumed by a request
\* that already waits: what that one has to answer for begins anew.
StoreFails(c) ==
    /\ pc[c] \in {"enter", "preflight", "start", "verify", "reconcile"}
    /\ Return(c)
    /\ recent' = [d \in Callers |-> {}]
    /\ UNCHANGED <<store, updated, posted, platform>>

\* The process dies and is started again: requests and locks are gone, the
\* state file and the platform are not.
Crash ==
    /\ lock' = Nobody
    /\ pc' = [c \in Callers |-> "idle"]
    /\ reply' = [c \in Callers |-> "none"]
    /\ updated' = [c \in Callers |-> FALSE]
    /\ recent' = [c \in Callers |-> {}]
    /\ UNCHANGED <<store, posted, platform>>

------------------------------------------------------------------------------
\* The platform charges an accepted purchase late, or gives it up.
ChargeLate(k) ==
    /\ k \in inflight
    /\ applied' = applied \union {k}
    /\ inflight' = inflight \ {k}
    /\ UNCHANGED <<store, lock, pc, reply, updated, recent, posted, used>>

GiveUp(k) ==
    /\ k \in inflight
    /\ inflight' = inflight \ {k}
    /\ UNCHANGED <<store, lock, pc, reply, updated, recent, posted, applied, used>>

\* A draw by another request or by the scheduler uses a purchased chance.
UseDraw ==
    /\ used < Cardinality(applied)
    /\ used' = used + 1
    /\ UNCHANGED <<store, lock, pc, reply, updated, recent, posted, applied, inflight>>

Request(c) ==
    \/ Call(c) \/ TakeLock(c)
    \/ EnterNew(c) \/ EnterReconcile(c) \/ EnterRepeat(c)
    \/ EnterDuplicate(c) \/ EnterResume(c) \/ EnterBlocked(c)
    \/ PreflightFails(c) \/ Preflight(c) \/ Start(c)
    \/ Post(c) \/ PostUnauthorized(c)
    \/ FinishWithoutProof(c) \/ FinishProved(c) \/ FinishInsufficient(c)
    \/ ReconcileProved(c) \/ ReconcileUnproved(c)
    \/ ReconcileFails(c) \/ StoreFails(c)

Next ==
    \/ \E c \in Callers : Request(c)
    \/ \E k \in IdemKeys : ChargeLate(k) \/ GiveUp(k)
    \/ UseDraw
    \/ Crash

Spec == Init /\ [][Next]_vars

------------------------------------------------------------------------------
TypeOK ==
    /\ act \in Actions
    /\ base \in [today : Nat, left : Int \union {NoCount}]
    /\ lock \in Callers \union {Nobody}
    /\ pc \in [Callers -> PCs]
    /\ reply \in [Callers -> Replies]
    /\ updated \in [Callers -> BOOLEAN]
    /\ recent \in [Callers -> SUBSET IdemKeys]
    /\ posted \in SUBSET IdemKeys
    /\ applied \in SUBSET IdemKeys
    /\ inflight \in SUBSET IdemKeys
    /\ used \in Nat

\* A purchase that may still be charged is the one the state file says has
\* started, under its own key: after a crash, a lost reply or a failed write
\* the program can still find out what became of it.
UnsettledIsOnRecord ==
    \A k \in inflight : act.idem = k /\ act.started

\* What the record says of a finished purchase is what the platform did:
\* completed means charged, a failure that may be retried means not charged
\* and never to be charged.
RecordTellsTheTruth ==
    /\ act.status = "completed" => act.idem \in applied
    /\ act.status = "failed" => act.idem \notin applied \union inflight

\* The key is replaced only when its purchase is settled, and it was charged
\* exactly if the record said so: no charge the user was not told about, no
\* second purchase while the first one is open.
KeyReplacedOnlyWhenSettled ==
    [][act'.idem # act.idem =>
        /\ act.idem \notin inflight
        /\ act.idem \in applied <=> act.status = "completed"]_vars

\* A request never posts a purchase of its own after another purchase was
\* posted or recorded while it waited: a double click buys once, unless a write
\* of the state file failed in between.
DoubleClickBuysOnce ==
    \A c \in Callers :
        pc[c] \in {"post", "repost", "verify"} => recent[c] \subseteq {act.idem}

------------------------------------------------------------------------------
(***************************************************************************)
(* The inductive invariant behind the properties above.                    *)
(***************************************************************************)
\* Only the owner of the lock is past the lock.
LockHeld == \A c \in Callers : pc[c] \notin {"idle", "queued"} <=> lock = c

\* Where the owner is, and what the record says there.
RecordFollowsRequest ==
    \A c \in Callers :
        /\ pc[c] \in {"preflight", "start"} => act.status = "pending" /\ ~act.started
        /\ pc[c] \in {"post", "repost", "verify"} => act.status = "pending" /\ act.started
        /\ pc[c] \in {"post", "repost"} => act.idem \notin applied \union inflight
        /\ pc[c] = "verify" /\ reply[c] = "insufficient" =>
               act.idem \notin applied \union inflight
        /\ pc[c] = "reconcile" => act.started

\* What each state of the record implies about its key.
RecordShape ==
    /\ act.status = "none" <=> act.idem = NoIdem
    /\ act.started => act.status \in {"pending", "unknown"}
    /\ act.status = "unknown" => act.started
    /\ act.status # "none" /\ ~act.started /\ act.status # "completed" =>
           act.idem \notin applied \union inflight

\* Only posted keys reach the platform, and none is both charged and open.
PlatformShape ==
    /\ applied \union inflight \subseteq posted
    /\ applied \intersect inflight = {}
    /\ IsFiniteSet(applied)

\* While a purchase is open its baseline counts all other purchases, and
\* draws can only have lowered the purchased draws left since.
BaselineCountsOthers ==
    act.started \/ (\E c \in Callers : pc[c] = "start") =>
        /\ base.today = Cardinality(applied \ {act.idem})
        /\ base.left # NoCount => Cardinality(applied \ {act.idem}) - used <= base.left

PurchaseInv ==
    /\ TypeOK
    /\ LockHeld
    /\ RecordFollowsRequest
    /\ RecordShape
    /\ PlatformShape
    /\ BaselineCountsOthers
    /\ UnsettledIsOnRecord
    /\ RecordTellsTheTruth

\* What a request may have missed since it began, which DoubleClickBuysOnce
\* rests on.  As long as UpdatedAt is older than a request, only the open
\* purchase was posted; the owner on its way to a post saw its own key only;
\* and a record left pending for somebody to resume hides no other key.
RecentIsAccountedFor ==
    /\ act.status = "none" => \A c \in Callers : recent[c] = {}
    /\ \A c \in Callers :
        pc[c] # "idle" /\ ~updated[c] /\ recent[c] # {} =>
            act.started /\ recent[c] = {act.idem}
    /\ \A c \in Callers :
        pc[c] \in {"preflight", "start", "post", "repost", "verify"} =>
            recent[c] \subseteq {act.idem}
    /\ act.status = "pending" /\ ~act.started
        /\ (\A c \in Callers : pc[c] \notin {"preflight", "start"}) =>
            \A c \in Callers : pc[c] # "idle" => recent[c] \subseteq {act.idem}
==============================================================================
