------------------------------ MODULE DailyPass ------------------------------
(***************************************************************************)
(* Unlocking the daily pass: Runner.UnlockDailyPass of                     *)
(* internal/service/purchase.go for one account, run by concurrent web     *)
(* requests in a process that may crash, while the day turns.              *)
(*                                                                         *)
(* Each request reads the date once, before it asks for the action lock of *)
(* that date; record, lock and key belong to the date, while the platform  *)
(* unlocks, and the dashboard shows, the pass of the day it is.  Requests  *)
(* of two dates therefore run side by side around midnight.                *)
(*                                                                         *)
(* The platform (external).  A posted key is charged at once, later or     *)
(* never, for the day of the post; the reply may be lost; a key is charged *)
(* at most once.  Its day turns when ours does.  401/403 and "insufficient *)
(* balance" mean not charged.  The pass may be unlocked elsewhere, too.    *)
(***************************************************************************)
EXTENDS ActionLedger, Naturals

CONSTANTS
    Callers,     \* concurrent unlock requests
    Nobody,      \* the action lock is free
    LastDay      \* bound on the days

ASSUME PassAssumption ==
    /\ Nobody \notin Callers
    /\ LastDay \in Nat

Days == 0 .. LastDay

VARIABLES
    today,       \* the Beijing date
    act,         \* act[d]: the persisted record of date d
    lock,        \* lock[d]: owner of LockAction(account, d, pass_unlock)
    pc,          \* where the request is
    date,        \* the date the request read when it began
    reply,       \* what the request knows from its POST
    late,        \* history: dates of which a request outlived the day
    posted,      \* history: keys that ever left the process
    charged,     \* platform: <<key, day>> charged
    inflight,    \* platform: <<key, day>> accepted, charged later or never
    unlocked     \* platform: days whose pass is unlocked

calls == <<lock, pc, date, reply>>
platform == <<charged, inflight, unlocked>>
vars == <<today, act, lock, pc, date, reply, late, posted, charged, inflight, unlocked>>

PCs == {"idle", "queued", "enter", "preflight", "already", "start", "post",
        "repost", "verify", "reconcile"}
Replies == {"none", "ok", "processing", "insufficient", "error"}

Init ==
    /\ today = 0
    /\ act = [d \in Days |-> NoAction]
    /\ lock = [d \in Days |-> Nobody]
    /\ pc = [c \in Callers |-> "idle"]
    /\ date = [c \in Callers |-> 0]
    /\ reply = [c \in Callers |-> "none"]
    /\ late = {}
    /\ posted = {}
    /\ charged = {}
    /\ inflight = {}
    /\ unlocked = {}

------------------------------------------------------------------------------
Goto(c, label) == pc' = [pc EXCEPT ![c] = label]

\* The record of the request, and a write of it.
Mine(c) == act[date[c]]
Write(c, a) == act' = [act EXCEPT ![date[c]] = a]

\* The request returns: defer release().
Return(c) ==
    /\ lock' = [lock EXCEPT ![date[c]] = Nobody]
    /\ pc' = [pc EXCEPT ![c] = "idle"]
    /\ reply' = [reply EXCEPT ![c] = "none"]
    /\ UNCHANGED date

\* dashboardPassUnlockedForToday: r.today() is read again for the comparison.
PassShown == today \in unlocked

Fresh(k) == k \notin posted /\ \A d \in Days : act[d].idem # k

\* The request begins; its date is read before the lock is asked for.
Call(c) ==
    /\ pc[c] = "idle"
    /\ Goto(c, "queued")
    /\ date' = [date EXCEPT ![c] = today]
    /\ UNCHANGED <<today, act, lock, reply, late, posted, platform>>

TakeLock(c) ==
    /\ pc[c] = "queued"
    /\ lock[date[c]] = Nobody
    /\ lock' = [lock EXCEPT ![date[c]] = c]
    /\ Goto(c, "enter")
    /\ UNCHANGED <<today, act, date, reply, late, posted, platform>>

EnterNew(c) ==
    /\ pc[c] = "enter"
    /\ Mine(c).status = "none"
    /\ \E k \in IdemKeys : Fresh(k) /\ Write(c, NewAction(k))
    /\ Goto(c, "preflight")
    /\ UNCHANGED <<today, lock, date, reply, late, posted, platform>>

\* Completed, or failed for good: answer from the record.
EnterRecorded(c) ==
    /\ pc[c] = "enter"
    /\ \/ Mine(c).status = "completed"
       \/ Mine(c).status = "failed" /\ ~Mine(c).retryable /\ ~Mine(c).started
    /\ Return(c)
    /\ UNCHANGED <<today, act, late, posted, platform>>

\* The outcome of an earlier post is open: look, do not unlock.
EnterReconcile(c) ==
    /\ pc[c] = "enter"
    /\ Mine(c).status # "completed"
    /\ Mine(c).status = "unknown" \/ Mine(c).started
    /\ Goto(c, "reconcile")
    /\ UNCHANGED <<today, act, lock, date, reply, late, posted, platform>>

\* Mutant of EnterResume: a pending record is resumed whether or not it started.
EnterResumeStarted(c) ==
    /\ pc[c] = "enter"
    /\ Mine(c).status = "pending"
    /\ Goto(c, "preflight")
    /\ UNCHANGED <<today, act, lock, date, reply, late, posted, platform>>

\* Created and never started: go on with the same key.
EnterResume(c) ==
    /\ pc[c] = "enter"
    /\ Mine(c).status = "pending" /\ ~Mine(c).started
    /\ Goto(c, "preflight")
    /\ UNCHANGED <<today, act, lock, date, reply, late, posted, platform>>

\* Failed before anything happened: a new key.  Other than PurchaseDraw, no
\* look at UpdatedAt: a second unlock of an unlocked pass ends in the preflight.
EnterRetry(c) ==
    /\ pc[c] = "enter"
    /\ Mine(c).status = "failed" /\ MayRotate(Mine(c))
    /\ \E k \in IdemKeys : Fresh(k) /\ Write(c, RotateRepeatable(Mine(c), k))
    /\ Goto(c, "preflight")
    /\ UNCHANGED <<today, lock, date, reply, late, posted, platform>>

\* No lottery session or no dashboard; retryable unless the account must be
\* re-authenticated.
PreflightFails(c) ==
    /\ pc[c] = "preflight"
    /\ \E again \in BOOLEAN : Write(c, FailUnstarted(Mine(c), again))
    /\ Return(c)
    /\ UNCHANGED <<today, late, posted, platform>>

\* The dashboard says whether there is anything to do; the record is written
\* in both cases before it is acted upon.
Preflight(c) ==
    /\ pc[c] = "preflight"
    /\ Write(c, [Mine(c) EXCEPT !.retryable = FALSE])
    /\ Goto(c, IF PassShown THEN "already" ELSE "start")
    /\ UNCHANGED <<today, lock, date, reply, late, posted, platform>>

AlreadyUnlocked(c) ==
    /\ pc[c] = "already"
    /\ Write(c, Complete(Mine(c)))
    /\ Return(c)
    /\ UNCHANGED <<today, late, posted, platform>>

\* Mutant of Start: the post leaves before SideEffectStarted is persisted.
StartUnpersisted(c) ==
    /\ pc[c] = "start"
    /\ Goto(c, "post")
    /\ UNCHANGED <<today, act, lock, date, reply, late, posted, platform>>

Start(c) ==
    /\ pc[c] = "start"
    /\ Write(c, StartAction(Mine(c)))
    /\ Goto(c, "post")
    /\ UNCHANGED <<today, lock, date, reply, late, posted, platform>>

\* client.UnlockDrawLimit: what the platform does and what the caller hears.
Post(c) ==
    /\ pc[c] \in {"post", "repost"}
    /\ \E r \in Replies \ {"none"} :
        /\ reply' = [reply EXCEPT ![c] = r]
        /\ \/ /\ r # "insufficient"
              /\ charged' = charged \union {<<Mine(c).idem, today>>}
              /\ unlocked' = unlocked \union {today}
              /\ UNCHANGED inflight
           \/ /\ r # "insufficient"
              /\ inflight' = inflight \union {<<Mine(c).idem, today>>}
              /\ UNCHANGED <<charged, unlocked>>
           \/ UNCHANGED platform
    /\ posted' = posted \union {Mine(c).idem}
    /\ Goto(c, "verify")
    /\ UNCHANGED <<today, act, lock, date, late>>

\* 401/403 on the first attempt: renew the lottery session and post the same
\* key once more; a failed renewal counts as an error of the post.
PostUnauthorized(c) ==
    /\ pc[c] = "post"
    /\ posted' = posted \union {Mine(c).idem}
    /\ \/ Goto(c, "repost") /\ UNCHANGED reply
       \/ Goto(c, "verify") /\ reply' = [reply EXCEPT ![c] = "error"]
    /\ UNCHANGED <<today, act, lock, date, late, platform>>

FinishInsufficient(c) ==
    /\ pc[c] = "verify"
    /\ reply[c] = "insufficient"
    /\ Write(c, FailUnstarted(Mine(c), TRUE))
    /\ Return(c)
    /\ UNCHANGED <<today, late, posted, platform>>

\* Mutant of FinishUnlocked: the accepted post alone completes the record.
FinishUnlockedUnseen(c) ==
    /\ pc[c] = "verify"
    /\ reply[c] = "ok" \/ PassShown
    /\ Write(c, Complete(Mine(c)))
    /\ Return(c)
    /\ UNCHANGED <<today, late, posted, platform>>

\* finishUnlockFromDashboard: the snapshot is stored, then the record.
FinishUnlocked(c) ==
    /\ pc[c] = "verify"
    /\ reply[c] # "insufficient"
    /\ PassShown
    /\ Write(c, Complete(Mine(c)))
    /\ Return(c)
    /\ UNCHANGED <<today, late, posted, platform>>

\* Mutant of FinishWithoutProof: no unlocked pass on the dashboard is a failure.
FinishWithoutProofAsFailure(c) ==
    /\ pc[c] = "verify"
    /\ reply[c] # "insufficient"
    /\ Write(c, FailUnstarted(Mine(c), TRUE))
    /\ Return(c)
    /\ UNCHANGED <<today, late, posted, platform>>

\* The dashboard is unreachable or does not show the pass as unlocked.
FinishWithoutProof(c) ==
    /\ pc[c] = "verify"
    /\ reply[c] # "insufficient"
    /\ Write(c, IF reply[c] = "processing" THEN LeavePending(Mine(c)) ELSE LeaveUnknown(Mine(c)))
    /\ Return(c)
    /\ UNCHANGED <<today, late, posted, platform>>

\* reconcileUnlockDailyPass with a dashboard.
Reconcile(c) ==
    /\ pc[c] = "reconcile"
    /\ Write(c, IF PassShown THEN Complete(Mine(c))
                ELSE IF Mine(c).status = "pending" THEN LeavePending(Mine(c))
                ELSE LeaveUnknown(Mine(c)))
    /\ Return(c)
    /\ UNCHANGED <<today, late, posted, platform>>

\* Reconciliation could not read the dashboard, or a write of the state file
\* failed (the activity snapshot included): the request returns the error.
GiveUpCall(c) ==
    /\ pc[c] \in {"enter", "preflight", "already", "start", "verify", "reconcile"}
    /\ Return(c)
    /\ UNCHANGED <<today, act, late, posted, platform>>

Crash ==
    /\ lock' = [d \in Days |-> Nobody]
    /\ pc' = [c \in Callers |-> "idle"]
    /\ reply' = [c \in Callers |-> "none"]
    /\ UNCHANGED <<today, act, date, late, posted, platform>>

------------------------------------------------------------------------------
Midnight ==
    /\ today < LastDay
    /\ today' = today + 1
    /\ late' = late \union {date[c] : c \in {c \in Callers : pc[c] # "idle"}}
    /\ UNCHANGED <<act, calls, posted, platform>>

\* An accepted unlock is charged late, or given up.
ChargeLate(x) ==
    /\ x \in inflight
    /\ inflight' = inflight \ {x}
    /\ charged' = charged \union {x}
    /\ unlocked' = unlocked \union {x[2]}
    /\ UNCHANGED <<today, act, calls, late, posted>>

GiveUp(x) ==
    /\ x \in inflight
    /\ inflight' = inflight \ {x}
    /\ UNCHANGED <<today, act, calls, late, posted, charged, unlocked>>

\* The user unlocks today's pass on the platform's own page.
UnlockElsewhere ==
    /\ today \notin unlocked
    /\ unlocked' = unlocked \union {today}
    /\ UNCHANGED <<today, act, calls, late, posted, charged, inflight>>

Request(c) ==
    \/ Call(c) \/ TakeLock(c)
    \/ EnterNew(c) \/ EnterRecorded(c) \/ EnterReconcile(c) \/ EnterResume(c) \/ EnterRetry(c)
    \/ PreflightFails(c) \/ Preflight(c) \/ AlreadyUnlocked(c) \/ Start(c)
    \/ Post(c) \/ PostUnauthorized(c)
    \/ FinishInsufficient(c) \/ FinishUnlocked(c) \/ FinishWithoutProof(c)
    \/ Reconcile(c) \/ GiveUpCall(c)

Next ==
    \/ \E c \in Callers : Request(c)
    \/ \E x \in inflight : ChargeLate(x) \/ GiveUp(x)
    \/ Midnight \/ Crash \/ UnlockElsewhere

Spec == Init /\ [][Next]_vars

------------------------------------------------------------------------------
TypeOK ==
    /\ today \in Days
    /\ act \in [Days -> Actions]
    /\ lock \in [Days -> Callers \union {Nobody}]
    /\ pc \in [Callers -> PCs]
    /\ date \in [Callers -> Days]
    /\ reply \in [Callers -> Replies]
    /\ late \in SUBSET Days
    /\ posted \in SUBSET IdemKeys
    /\ charged \in SUBSET (IdemKeys \X Days)
    /\ inflight \in SUBSET (IdemKeys \X Days)
    /\ unlocked \in SUBSET Days

\* Keys that reached the platform and were not refused.
Reached == {x[1] : x \in charged \union inflight}

\* The pass of a day is paid once: through lost replies, late charges, failed
\* writes, crashes and concurrent requests at most one key is charged for it.
\* (A request of an earlier date that runs past midnight may pay once more.)
OnePassADay ==
    \A x, y \in charged :
        x[2] = y[2] /\ (\A d \in late : d >= x[2]) => x = y

\* A completed record tells the truth about its day, unless a request of that
\* day outlived it and has taken the next day's pass for it.
CompletedIsUnlocked ==
    \A d \in Days : act[d].status = "completed" /\ d \notin late => d \in unlocked

\* An unlock that may still be charged is on record under its own key, started
\* or completed, whatever crashed, failed or was read on the other side of
\* midnight: no later request posts a second key beside it.  (Completed: the
\* pass may have been unlocked elsewhere while our own unlock is in flight.)
UnsettledIsOnRecord ==
    \A x \in inflight : \E d \in Days :
        act[d].idem = x[1] /\ (act[d].started \/ act[d].status = "completed")

\* The key of a record is replaced only when nothing was or will be charged
\* under the old one.
KeyReplacedOnlyUncharged ==
    [][\A d \in Days : act'[d].idem # act[d].idem => act[d].idem \notin Reached]_vars

------------------------------------------------------------------------------
(***************************************************************************)
(* The inductive invariant behind the properties above.                    *)
(***************************************************************************)
Running(c) == pc[c] \notin {"idle", "queued"}

LockHeld ==
    /\ \A c \in Callers : Running(c) => lock[date[c]] = c
    /\ \A d \in Days : lock[d] # Nobody => Running(lock[d]) /\ date[lock[d]] = d

\* Where a request is, and what its record says there.
RecordFollowsRequest ==
    \A c \in Callers :
        /\ pc[c] \in {"preflight", "already", "start"} =>
               Mine(c).status = "pending" /\ ~Mine(c).started
        /\ pc[c] \in {"post", "repost", "verify"} =>
               Mine(c).status = "pending" /\ Mine(c).started
        /\ pc[c] \in {"post", "repost"} => Mine(c).idem \notin Reached
        /\ pc[c] = "verify" /\ reply[c] = "insufficient" => Mine(c).idem \notin Reached
        /\ pc[c] = "reconcile" => Mine(c).started
        /\ pc[c] = "already" /\ date[c] \notin late => date[c] \in unlocked

RecordShape ==
    \A d \in Days :
        /\ act[d].status = "none" <=> act[d].idem = NoIdem
        /\ act[d].started => act[d].status \in {"pending", "unknown"}
        /\ act[d].status = "unknown" => act[d].started
        /\ act[d].status \in {"pending", "failed"} /\ ~act[d].started =>
               act[d].idem \notin Reached

\* No key is in two records, and only posted keys reach the platform.
KeysApart ==
    /\ \A d, e \in Days : act[d].idem = act[e].idem /\ act[d].idem # NoIdem => d = e
    /\ Reached \subseteq posted

\* A request that has not outlived its day works on today's record.
DatesAreRight ==
    /\ \A c \in Callers : pc[c] # "idle" /\ date[c] \notin late => date[c] = today
    /\ \A d \in late : d < today

\* What was or will be charged for a day is charged under the key on record,
\* unless an earlier request ran into it.
ChargeIsOnRecord ==
    \A x \in charged \union inflight :
        (\A d \in late : d >= x[2]) => act[x[2]].idem = x[1]

ChargedIsUnlocked == \A x \in charged : x[2] \in unlocked

PassInv ==
    /\ TypeOK
    /\ LockHeld
    /\ RecordFollowsRequest
    /\ RecordShape
    /\ KeysApart
    /\ DatesAreRight
    /\ ChargeIsOnRecord
    /\ ChargedIsUnlocked
    /\ UnsettledIsOnRecord
    /\ CompletedIsUnlocked
==============================================================================
