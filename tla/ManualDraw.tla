------------------------------ MODULE ManualDraw ------------------------------
(***************************************************************************)
(* One draw, asked for by a click or by a plan: DrawAvailable of           *)
(* internal/service/manual_draw.go with its two callers, handleDrawAction  *)
(* of internal/web/accounts.go and executePlan of auto_draw.go.            *)
(*                                                                         *)
(* The critical section is the real lock table (KeyedLock) with one key    *)
(* per day: the day is read before the lock is asked for.  The remaining   *)
(* draws are those of DailyClaim, which other calls change meanwhile.      *)
(*                                                                         *)
(* A click gets a fresh idempotency key; the plan has one for good, and is *)
(* executed again after a crash or a failed write.  The platform           *)
(* (external) makes at most one draw per key, at the post or later, and    *)
(* answers a repeated key with the draw it made; replies may be lost.      *)
(***************************************************************************)
EXTENDS KeyedLock, DailyClaim

CONSTANTS
    DrawKeys,    \* idempotency keys
    PlanKey,     \* the key of the one plan
    NoDrawKey    \* no call

ASSUME DrawAssumption ==
    /\ Callers = Threads
    /\ Keys \subseteq Nat \ {0}
    /\ Entries \subseteq Nat
    /\ PlanKey \in DrawKeys
    /\ NoDrawKey \notin DrawKeys

VARIABLES
    today,       \* the date: a key of the lock table
    step,        \* where the call of a thread is
    dayOf,       \* the date the call has read, or 0
    idem,        \* the idempotency key it posts
    outcome,     \* what DrawAvailable returns
    rows,        \* the runtime log of a click, the status of the plan
    click,       \* history: the call a key was made for, named by its first key
    posted,      \* history: the plan has sent a draw
    again,       \* history: and was begun again after that
    stolen,      \* history: threads whose chance went to somebody outside the lock
    drawn,       \* platform: keys a draw was made for
    queued       \* platform: keys accepted, to be drawn later or never

drawHistory == <<click, posted, again, stolen>>
drawPlatform == <<drawn, queued>>
drawVars == <<today, step, dayOf, idem, outcome, rows, drawHistory, drawPlatform>>

Steps == {"none", "enter", "session", "dashboard", "redash", "post", "repost", "release"}
Outcomes == {"none", "completed", "skipped", "reauth", "failed"}
Rows == {"none", "completed", "skipped", "failed"}

DrawInit ==
    /\ today \in Keys /\ \A k \in Keys : today <= k
    /\ step = [t \in Threads |-> "none"]
    /\ dayOf = [t \in Threads |-> 0]
    /\ idem = [t \in Threads |-> NoDrawKey]
    /\ outcome = [t \in Threads |-> "none"]
    /\ rows = [k \in DrawKeys |-> "none"]
    /\ click = [k \in {PlanKey} |-> PlanKey]
    /\ posted = FALSE /\ again = FALSE /\ stolen = {}
    /\ drawn = {} /\ queued = {}

------------------------------------------------------------------------------
Fresh(k) == k \in DrawKeys \ DOMAIN click
Named(k, c) == [j \in DOMAIN click \union {k} |-> IF j = k THEN c ELSE click[j]]
CallOf(t) == click[idem[t]]
GoTo(t, label) == step' = [step EXCEPT ![t] = label]

\* The call reads the date and is about to ask for the lock.
Begin(t, k) ==
    /\ step[t] = "none"
    /\ GoTo(t, "enter")
    /\ dayOf' = [dayOf EXCEPT ![t] = today]
    /\ idem' = [idem EXCEPT ![t] = k]
    /\ UNCHANGED <<today, outcome, rows, posted, stolen, drawPlatform, lockVars, claimVars>>

\* handleDrawAction with webDrawKey.
BeginClick(t) ==
    \E k \in DrawKeys :
        /\ Fresh(k)
        /\ Begin(t, k)
        /\ click' = Named(k, k)
        /\ UNCHANGED again

\* executePlan under LockAutoDrawPlan: a plan that is not settled is executed,
\* for the first time or again.
BeginPlan(t) ==
    /\ rows[PlanKey] = "none"
    /\ \A u \in Threads : idem[u] # PlanKey
    /\ Begin(t, PlanKey)
    /\ again' = posted
    /\ UNCHANGED click

\* Bound: heap cells differ in their numbers only, and the lowest one that is
\* free stands for any of them.
LowestFree(e) == \A c \in Entries : Unreachable(c) => e <= c

\* LockAction(account, date, manual_draw), first part.
AskLock(t) ==
    /\ step[t] = "enter"
    /\ \/ Reuse(t, dayOf[t])
       \/ Allocate(t, dayOf[t]) /\ LowestFree(entryOf'[t])
    /\ GoTo(t, "session")
    /\ UNCHANGED <<today, dayOf, idem, outcome, rows, drawHistory, drawPlatform, claimVars>>

TakeDrawLock(t) == Acquire(t) /\ UNCHANGED <<drawVars, claimVars>>

\* Inside the critical section.
Locked(t, label) == pc[t] = "holding" /\ step[t] = label
InLock(t) == UNCHANGED <<today, dayOf, rows, lockVars>>

Leave(t, result) ==
    /\ GoTo(t, "release")
    /\ outcome' = [outcome EXCEPT ![t] = result]

\* acquire for the lottery session, and its client.
GetSession(t) ==
    /\ Locked(t, "session")
    /\ \/ GoTo(t, "dashboard") /\ UNCHANGED outcome
       \/ \E result \in {"reauth", "failed"} : Leave(t, result)
    /\ InLock(t)
    /\ UNCHANGED <<idem, drawHistory, drawPlatform, claimVars>>

\* Mutant of FailsIn: the second try renews the session as well.
FailsInAnyTry(t, first) ==
    \/ Leave(t, "failed")
    \/ step[t] \in {"dashboard", "redash", "post", "repost"} /\ Leave(t, "reauth")

\* Only renewing a session reports that the owner has to log in again, and only
\* the first try renews.
FailsIn(t, first) ==
    \/ Leave(t, "failed")
    \/ step[t] = first /\ Leave(t, "reauth")

\* dashboardWithRecovery: after an authentication error with a renewed session,
\* after a transient one as it is, and only once.
DashboardFails(t) ==
    /\ Locked(t, "dashboard") \/ Locked(t, "redash")
    /\ \/ step[t] = "dashboard" /\ GoTo(t, "redash") /\ UNCHANGED outcome
       \/ FailsIn(t, "dashboard")
    /\ InLock(t)
    /\ UNCHANGED <<idem, drawHistory, drawPlatform, claimVars>>

\* A dashboard with remaining: without a chance the draw is skipped.
Dashboard(t) ==
    /\ Locked(t, "dashboard") \/ Locked(t, "redash")
    /\ IF left > 0 THEN GoTo(t, "post") /\ UNCHANGED outcome ELSE Leave(t, "skipped")
    /\ InLock(t)
    /\ UNCHANGED <<idem, drawHistory, drawPlatform, claimVars>>

\* The platform makes a draw for key k; Robbed lose a chance they have seen.
Robbed(S) == stolen' = stolen \union {u \in S : step[u] \in {"post", "repost"}}
MakeDraw(k, S) ==
    /\ DrawOne
    /\ drawn' = drawn \union {k}
    /\ queued' = queued \ {k}
    /\ Robbed(S)
OtherDay(t) == {u \in Threads : dayOf[u] # dayOf[t]}

Posts(t) ==
    /\ Locked(t, "post") \/ Locked(t, "repost")
    /\ posted' = (posted \/ idem[t] = PlanKey)
    /\ InLock(t)
    /\ UNCHANGED <<click, again>>

Repost(t) == step[t] = "post" /\ GoTo(t, "repost") /\ UNCHANGED <<idem, outcome>>

\* Draw with a reply: made now, or before under the same key.
DrawAnswered(t) ==
    /\ Posts(t)
    /\ \/ idem[t] \in drawn /\ UNCHANGED <<drawPlatform, stolen, claimVars>>
       \/ idem[t] \notin drawn /\ MakeDraw(idem[t], OtherDay(t))
    /\ Leave(t, "completed")
    /\ UNCHANGED idem

\* Refused, or renewing the session after a 401 failed: no draw.
DrawRefused(t) ==
    /\ Posts(t)
    /\ FailsIn(t, "post")
    /\ UNCHANGED <<idem, stolen, drawPlatform, claimVars>>

\* 401, and the session is renewed.
DrawUnauthorized(t) ==
    /\ Posts(t)
    /\ Repost(t)
    /\ UNCHANGED <<stolen, drawPlatform, claimVars>>

\* Mutant of DrawLost: the second post is a new draw.
DrawLostNewKey(t) ==
    /\ Locked(t, "post")
    /\ posted' = (posted \/ idem[t] = PlanKey)
    /\ MakeDraw(idem[t], OtherDay(t))
    /\ \E k \in DrawKeys :
        /\ Fresh(k)
        /\ idem' = [idem EXCEPT ![t] = k]
        /\ click' = Named(k, CallOf(t))
    /\ GoTo(t, "repost")
    /\ InLock(t)
    /\ UNCHANGED <<outcome, again>>

\* No reply: the draw is made, or will be, or not.  After a transient error it
\* is posted once more under the same key.
DrawLost(t) ==
    /\ Posts(t)
    /\ \/ idem[t] \notin drawn /\ MakeDraw(idem[t], OtherDay(t))
       \/ /\ queued' \in {queued, queued \union ({idem[t]} \ drawn)}
          /\ UNCHANGED <<drawn, stolen, claimVars>>
    /\ \/ Repost(t)
       \/ Leave(t, "failed") /\ UNCHANGED idem

\* The deferred release, in its two parts.
ReleaseDraw(t) ==
    /\ step[t] = "release"
    /\ Unlock(t) \/ Unref(t)
    /\ stolen' = stolen \ {t}
    /\ UNCHANGED <<today, step, dayOf, idem, outcome, rows, click, posted, again, drawPlatform, claimVars>>

\* appendDrawRuntimeLog, or autoTaskExecutionResult with FinishAutoDrawPlan.
Row(t) ==
    CASE outcome[t] = "reauth" -> IF idem[t] = PlanKey THEN "skipped" ELSE "failed"
      [] OTHER -> outcome[t]

Finished(t) ==
    /\ step[t] = "release" /\ pc[t] = "idle"
    /\ GoTo(t, "none")
    /\ idem' = [idem EXCEPT ![t] = NoDrawKey]
    /\ outcome' = [outcome EXCEPT ![t] = "none"]
    /\ dayOf' = [dayOf EXCEPT ![t] = 0]
    /\ UNCHANGED <<today, drawHistory, drawPlatform, lockVars, claimVars>>

WriteRow(t) == Finished(t) /\ rows' = [rows EXCEPT ![CallOf(t)] = Row(t)]

\* The write failed, or the service is stopping: a plan stays running.
NoRow(t) == Finished(t) /\ UNCHANGED rows

------------------------------------------------------------------------------
Outside == UNCHANGED <<step, dayOf, idem, outcome, rows, click, posted, again, lockVars>>

\* A queued draw is made, whoever still waits for it, or never will be.
QueuedDraw ==
    \E k \in queued :
        /\ \/ MakeDraw(k, Threads)
           \/ queued' = queued \ {k} /\ UNCHANGED <<drawn, stolen, claimVars>>
        /\ UNCHANGED today
        /\ Outside

\* A draw on the page of the platform.
DrawElsewhere ==
    /\ DrawOne
    /\ Robbed(Threads)
    /\ UNCHANGED <<today, drawPlatform>>
    /\ Outside

Midnight ==
    /\ \E k \in Keys : k = today + 1 /\ today' = k
    /\ UNCHANGED <<stolen, drawPlatform, claimVars>>
    /\ Outside

\* The process ends with the calls of DrawAvailable; rows and keys remain.
DrawsLost ==
    /\ LockTableLost
    /\ step' = [t \in Threads |-> "none"]
    /\ idem' = [t \in Threads |-> NoDrawKey]
    /\ outcome' = [t \in Threads |-> "none"]
    /\ dayOf' = [t \in Threads |-> 0]
    /\ stolen' = {}
    /\ UNCHANGED <<today, rows, click, posted, again, drawPlatform>>

DrawCall(t) ==
    \/ AskLock(t) \/ TakeDrawLock(t)
    \/ GetSession(t) \/ DashboardFails(t) \/ Dashboard(t)
    \/ DrawAnswered(t) \/ DrawRefused(t) \/ DrawUnauthorized(t) \/ DrawLost(t)
    \/ ReleaseDraw(t)

------------------------------------------------------------------------------
DrawTypeOK ==
    /\ today \in Keys
    /\ step \in [Threads -> Steps]
    /\ dayOf \in [Threads -> Keys \union {0}]
    /\ idem \in [Threads -> DrawKeys \union {NoDrawKey}]
    /\ outcome \in [Threads -> Outcomes]
    /\ rows \in [DrawKeys -> Rows]
    /\ DOMAIN click \subseteq DrawKeys
    /\ drawn \union queued \subseteq DOMAIN click
    /\ drawn \intersect queued = {}
    /\ posted \in BOOLEAN /\ again \in BOOLEAN
    /\ stolen \subseteq Threads

\* The lock is held exactly where the code holds it, for the date it has read.
LockFollowsCall ==
    \A t \in Threads :
        /\ step[t] \in {"none", "enter"} => pc[t] = "idle"
        /\ pc[t] # "idle" => keyOf[t] = dayOf[t]
        /\ step[t] \in {"dashboard", "redash", "post", "repost"} => pc[t] = "holding"

\* Keys and calls: a key is used by one call, a call has the key and the date it
\* began with, and what has a row is over.
KeysFollowCalls ==
    /\ PlanKey \in DOMAIN click
    /\ \A k \in DOMAIN click : click[k] = k
    /\ \A t \in Threads :
        IF step[t] = "none"
        THEN idem[t] = NoDrawKey
        ELSE idem[t] \in DOMAIN click /\ dayOf[t] \in Keys
    /\ \A s, t \in Threads : idem[s] = idem[t] => s = t \/ step[t] = "none"
    /\ \A k \in DrawKeys : rows[k] # "none" => k \in DOMAIN click
    /\ \A t \in Threads : idem[t] \in DrawKeys => rows[idem[t]] = "none"

\* The plan was begun again after it had posted.
Resumed(k) == k = PlanKey /\ again

\* A call knows what became of its key: nothing before the first post, and
\* what it returns.
ResultsAreTrue ==
    /\ PlanKey \in drawn \union queued => posted
    /\ \A t \in Threads :
        /\ step[t] # "release" => outcome[t] = "none"
        /\ outcome[t] = "completed" => idem[t] \in drawn
        /\ \/ step[t] \in {"enter", "session", "dashboard", "redash", "post"}
           \/ outcome[t] \in {"skipped", "reauth"}
           => Resumed(idem[t]) \/ idem[t] \notin drawn \union queued

DrawInv == DrawTypeOK /\ LockFollowsCall /\ KeysFollowCalls /\ ResultsAreTrue

\* However often one call posts its draw, after a 401, a lost reply or a crash
\* and in any order with the platform's own delays, it makes one draw.
RetriesDrawOnce ==
    \A j, k \in drawn : click[j] = click[k] => j = k

\* A draw is posted while there is a chance for it: the chance a call has seen
\* on the dashboard is not spent by another call of the day, and only somebody
\* who does not hold the lock of that day can have taken it: the platform page,
\* a late draw, or a call of the other day around midnight.
ChanceIsThere ==
    \A t \in Threads : step[t] = "post" /\ t \notin stolen => left > 0

\* What the log and the plan say is true, across lost replies, crashes and the
\* second execution of a plan: completed is drawn, and skipped is neither drawn
\* nor will be.  The exception is a plan executed again after it had posted:
\* when its own draw has used the last chance, the dashboard says 0 and the
\* plan is skipped before the platform could answer with the draw it made.
LogTellsTheTruth ==
    \A c \in DrawKeys :
        /\ rows[c] = "completed" => \E k \in drawn : click[k] = c
        /\ rows[c] = "skipped" /\ ~Resumed(c) =>
               \A k \in drawn \union queued : click[k] # c
==============================================================================
