------------------------------ MODULE DailyClaim ------------------------------
(***************************************************************************)
(* Claiming the daily draws: Runner.ClaimDaily of                          *)
(* internal/service/daily_claim.go, for one account and one day, run by    *)
(* web requests and by the scheduler in a process that may crash.          *)
(*                                                                         *)
(* The claim carries no idempotency key.  What keeps it from being posted  *)
(* again while its outcome is open is SideEffectStarted, persisted before  *)
(* the post and taken back only when the platform refused; what settles it *)
(* is the number of remaining draws growing past the number read before.   *)
(*                                                                         *)
(* The platform (external) grants the daily draws at most once, at the     *)
(* post or later; a reply may be lost.  Draws make the count fall,         *)
(* purchases and other grants make it grow.                                *)
(***************************************************************************)
EXTENDS ActionLedger, Integers

CONSTANTS
    Callers,     \* concurrent claims
    Nobody,      \* the action lock is free
    NoCount,     \* ClaimBeforeRemaining is nil
    Grant,       \* draws the daily claim grants
    MaxLeft      \* bound on the draws an account buys up to

ASSUME ClaimAssumption ==
    /\ Nobody \notin Callers
    /\ NoCount \notin Int
    /\ Grant \in Nat \ {0}
    /\ MaxLeft \in Nat

VARIABLES
    act,         \* the persisted action record
    before,      \* ClaimBeforeRemaining of the record
    claimLock,        \* owner of LockAction(account, day, daily_claim)
    claimAt,          \* where the call is
    claimReply,       \* what the call knows from its POST
    open,        \* history: a POST left and was not refused
    bought,      \* history: draws came from elsewhere since `before` was read
    claimed,     \* platform: the daily draws are granted
    late,        \* platform: a claim accepted, to be granted later or never
    left         \* platform: remaining draws

claimStore == <<act, before>>
claimPlatform == <<claimed, late, left>>
claimVars == <<act, before, claimLock, claimAt, claimReply, open, bought, claimed, late, left>>

ClaimPCs == {"idle", "enter", "preflight", "start", "post", "repost", "verify", "reconcile"}
ClaimReplies == {"none", "success", "refused", "error"}

ClaimInit ==
    /\ act = NoAction
    /\ before = NoCount
    /\ claimLock = Nobody
    /\ claimAt = [c \in Callers |-> "idle"]
    /\ claimReply = [c \in Callers |-> "none"]
    /\ open = FALSE
    /\ bought = FALSE
    /\ claimed = FALSE
    /\ late = FALSE
    /\ left \in 0 .. MaxLeft

------------------------------------------------------------------------------
ClaimGoto(c, label) == claimAt' = [claimAt EXCEPT ![c] = label]

ClaimReturn(c) ==
    /\ claimLock' = Nobody
    /\ claimAt' = [claimAt EXCEPT ![c] = "idle"]
    /\ claimReply' = [claimReply EXCEPT ![c] = "none"]

Grown == before # NoCount /\ left > before

\* The call waits for the action lock and gets it.
TakeLock(c) ==
    /\ claimAt[c] = "idle"
    /\ claimLock = Nobody
    /\ claimLock' = c
    /\ ClaimGoto(c, "enter")
    /\ UNCHANGED <<claimStore, claimReply, open, bought, claimPlatform>>

EnterNew(c) ==
    /\ claimAt[c] = "enter"
    /\ act.status = "none"
    /\ \E k \in IdemKeys : act' = NewAction(k)
    /\ ClaimGoto(c, "preflight")
    /\ UNCHANGED <<before, claimLock, claimReply, open, bought, claimPlatform>>

\* Claimed, or failed for good: answer from the record.
EnterRecorded(c) ==
    /\ claimAt[c] = "enter"
    /\ \/ act.status = "completed"
       \/ act.status = "failed" /\ ~act.retryable /\ ~act.started
    /\ ClaimReturn(c)
    /\ UNCHANGED <<claimStore, open, bought, claimPlatform>>

EnterReset(c) ==
    /\ claimAt[c] = "enter"
    /\ act.status = "failed"
    /\ MayReset(act)
    /\ act' = ResetRetryable(act)
    /\ ClaimGoto(c, "preflight")
    /\ UNCHANGED <<before, claimLock, claimReply, open, bought, claimPlatform>>

\* Mutant of EnterResume: a pending claim is resumed whether or not it started.
EnterResumeStarted(c) ==
    /\ claimAt[c] = "enter"
    /\ act.status = "pending"
    /\ ClaimGoto(c, "preflight")
    /\ UNCHANGED <<claimStore, claimLock, claimReply, open, bought, claimPlatform>>

\* Created and never started, in this process or an earlier one.
EnterResume(c) ==
    /\ claimAt[c] = "enter"
    /\ act.status = "pending"
    /\ ~act.started
    /\ ClaimGoto(c, "preflight")
    /\ UNCHANGED <<claimStore, claimLock, claimReply, open, bought, claimPlatform>>

EnterReconcile(c) ==
    /\ claimAt[c] = "enter"
    /\ act.status # "completed"
    /\ act.status = "unknown" \/ act.started
    /\ ClaimGoto(c, "reconcile")
    /\ UNCHANGED <<claimStore, claimLock, claimReply, open, bought, claimPlatform>>

\* recordDailyClaimPreflightError: no lottery session, no dashboard, or a
\* dashboard without remaining.  Only ErrReauthRequired is not retryable.
PreflightFails(c) ==
    /\ claimAt[c] = "preflight"
    /\ \E again \in BOOLEAN : act' = FailUnstarted(act, again)
    /\ ClaimReturn(c)
    /\ UNCHANGED <<before, open, bought, claimPlatform>>

\* Mutant of Preflight: the number read before is not persisted.
PreflightUnsaved(c) ==
    /\ claimAt[c] = "preflight"
    /\ before' = IF before = NoCount THEN 0 ELSE before
    /\ bought' = FALSE
    /\ act' = [act EXCEPT !.retryable = FALSE]
    /\ ClaimGoto(c, "start")
    /\ UNCHANGED <<claimLock, claimReply, open, claimPlatform>>

Preflight(c) ==
    /\ claimAt[c] = "preflight"
    /\ before' = left
    /\ bought' = FALSE
    /\ act' = [act EXCEPT !.retryable = FALSE]
    /\ ClaimGoto(c, "start")
    /\ UNCHANGED <<claimLock, claimReply, open, claimPlatform>>

Start(c) ==
    /\ claimAt[c] = "start"
    /\ act' = StartAction(act)
    /\ ClaimGoto(c, "post")
    /\ UNCHANGED <<before, claimLock, claimReply, open, bought, claimPlatform>>

\* The platform grants the draws now, later, or not at all.
GrantNow ==
    /\ ~claimed
    /\ claimed' = TRUE
    /\ left' = left + Grant
    /\ UNCHANGED late
GrantLater ==
    /\ ~claimed
    /\ late' = TRUE
    /\ UNCHANGED <<claimed, left>>

\* Success and refusal are what the platform did; an error says nothing.
Post(c) ==
    /\ claimAt[c] \in {"post", "repost"}
    /\ \/ GrantNow /\ open' = TRUE /\ claimReply' = [claimReply EXCEPT ![c] = "success"]
       \/ UNCHANGED <<claimPlatform, open>> /\ claimReply' = [claimReply EXCEPT ![c] = "refused"]
       \/ /\ GrantNow \/ GrantLater \/ UNCHANGED claimPlatform
          /\ open' = TRUE
          /\ claimReply' = [claimReply EXCEPT ![c] = "error"]
    /\ ClaimGoto(c, "verify")
    /\ UNCHANGED <<claimStore, claimLock, bought>>

\* 401: nothing granted.  Renew the lottery session and post once more; a
\* failed renewal is an error of the post.
PostUnauthorized(c) ==
    /\ claimAt[c] = "post"
    /\ \/ ClaimGoto(c, "repost") /\ UNCHANGED claimReply
       \/ ClaimGoto(c, "verify") /\ claimReply' = [claimReply EXCEPT ![c] = "error"]
    /\ UNCHANGED <<claimStore, claimLock, open, bought, claimPlatform>>

\* Mutant of FinishSuccess: the action is completed on an error as well.
FinishAnyReply(c) ==
    /\ claimAt[c] = "verify"
    /\ claimReply[c] \in {"success", "error"}
    /\ act' = Settle(act, "completed")
    /\ ClaimReturn(c)
    /\ UNCHANGED <<before, open, bought, claimPlatform>>

\* The reply, or a dashboard read after it, says what is left.
FinishSuccess(c) ==
    /\ claimAt[c] = "verify"
    /\ claimReply[c] = "success"
    /\ act' = Settle(act, "completed")
    /\ ClaimReturn(c)
    /\ UNCHANGED <<before, open, bought, claimPlatform>>

\* Only a refusal takes SideEffectStarted back.
FinishRefused(c) ==
    /\ claimAt[c] = "verify"
    /\ claimReply[c] = "refused"
    /\ act' = FailUnstarted(act, TRUE)
    /\ ClaimReturn(c)
    /\ UNCHANGED <<before, open, bought, claimPlatform>>

\* Mutant of FinishByCount: an open outcome may be tried again.
FinishByCountRetryable(c) ==
    /\ claimAt[c] = "verify"
    /\ claimReply[c] \in {"success", "error"}
    /\ \/ Grown /\ act' = Settle(act, "completed")
       \/ act' = FailUnstarted(act, TRUE)
    /\ ClaimReturn(c)
    /\ UNCHANGED <<before, open, bought, claimPlatform>>

\* reconcileClaimAfterPostError, after an error of the post or of the
\* dashboard that follows a success; that dashboard may fail too.
FinishByCount(c) ==
    /\ claimAt[c] = "verify"
    /\ claimReply[c] \in {"success", "error"}
    /\ \/ Grown /\ act' = Settle(act, "completed")
       \/ act' = Settle(act, "unknown")
    /\ ClaimReturn(c)
    /\ UNCHANGED <<before, open, bought, claimPlatform>>

\* reconcileDailyClaim with a dashboard.
Reconcile(c) ==
    /\ claimAt[c] = "reconcile"
    /\ act' = Settle(act, IF Grown THEN "completed" ELSE "unknown")
    /\ ClaimReturn(c)
    /\ UNCHANGED <<before, open, bought, claimPlatform>>

\* ... without one, or one that does not report what remains.
ReconcileBlind(c) ==
    /\ claimAt[c] = "reconcile"
    /\ act' \in {act, Settle(act, "unknown")}
    /\ ClaimReturn(c)
    /\ UNCHANGED <<before, open, bought, claimPlatform>>

\* persistLocked failed: memory rolled back, the call returns the error.
StoreFails(c) ==
    /\ claimAt[c] \in {"enter", "preflight", "start", "verify", "reconcile"}
    /\ ClaimReturn(c)
    /\ UNCHANGED <<claimStore, open, bought, claimPlatform>>

ClaimCrash ==
    /\ claimLock' = Nobody
    /\ claimAt' = [c \in Callers |-> "idle"]
    /\ claimReply' = [c \in Callers |-> "none"]
    /\ UNCHANGED <<claimStore, open, bought, claimPlatform>>

------------------------------------------------------------------------------
ArriveLate ==
    /\ late
    /\ late' = FALSE
    /\ IF claimed THEN UNCHANGED <<claimed, left>>
       ELSE claimed' = TRUE /\ left' = left + Grant
    /\ UNCHANGED <<claimStore, claimLock, claimAt, claimReply, open, bought>>

NeverArrives ==
    /\ late
    /\ late' = FALSE
    /\ UNCHANGED <<claimStore, claimLock, claimAt, claimReply, open, bought, claimed, left>>

\* DrawAvailable and the purchases hold other locks.
DrawOne ==
    /\ left > 0
    /\ left' = left - 1
    /\ UNCHANGED <<claimStore, claimLock, claimAt, claimReply, open, bought, claimed, late>>

OtherGrant ==
    /\ left < MaxLeft
    /\ left' = left + 1
    /\ bought' = TRUE
    /\ UNCHANGED <<claimStore, claimLock, claimAt, claimReply, open, claimed, late>>

ClaimCall(c) ==
    \/ TakeLock(c)
    \/ EnterNew(c) \/ EnterRecorded(c) \/ EnterReset(c)
    \/ EnterResume(c) \/ EnterReconcile(c)
    \/ PreflightFails(c) \/ Preflight(c) \/ Start(c)
    \/ Post(c) \/ PostUnauthorized(c)
    \/ FinishSuccess(c) \/ FinishRefused(c) \/ FinishByCount(c)
    \/ Reconcile(c) \/ ReconcileBlind(c) \/ StoreFails(c)

ClaimNext ==
    \/ \E c \in Callers : ClaimCall(c)
    \/ ClaimCrash \/ ArriveLate \/ NeverArrives \/ DrawOne \/ OtherGrant

ClaimSpec == ClaimInit /\ [][ClaimNext]_claimVars

------------------------------------------------------------------------------
ClaimTypeOK ==
    /\ act \in Actions
    /\ before \in Int \union {NoCount}
    /\ claimLock \in Callers \union {Nobody}
    /\ claimAt \in [Callers -> ClaimPCs]
    /\ claimReply \in [Callers -> ClaimReplies]
    /\ open \in BOOLEAN
    /\ bought \in BOOLEAN
    /\ claimed \in BOOLEAN
    /\ late \in BOOLEAN
    /\ left \in Int

\* A claim that left the process and was not refused is on record as started
\* until it is completed: neither a crash, a failed write nor a second caller
\* makes daily_claim.go forget it.
OpenClaimIsOnRecord == open => act.started \/ act.status = "completed"

\* A claim is never posted while an earlier one may have been granted, although
\* the platform is given no key to recognise it by.
OpenClaimIsNotReposted ==
    [][\A c \in Callers :
        claimAt[c] \in {"post", "repost"} /\ claimAt'[c] = "verify" => ~open]_claimVars

\* What reconciliation and success write is true as long as the number of
\* remaining draws grows by nothing but the claim: a completed claim was
\* granted, or something else (a purchase, say) added draws after the number
\* was read, which reconciliation cannot tell from the grant.
CompletedIsGranted == act.status = "completed" => claimed \/ bought

\* While a claim is open and ungranted its persisted baseline is at least what
\* is left, across crashes and draws: only a grant can push the count past it.
BaselineHolds ==
    ~bought /\ act.started /\ ~claimed => before # NoCount /\ left <= before

------------------------------------------------------------------------------
(***************************************************************************)
(* The inductive invariant behind the properties above.                    *)
(***************************************************************************)
LockHeld == \A c \in Callers : claimAt[c] # "idle" <=> claimLock = c

\* Where the owner is, and what the record and the reply say there.
RecordFollowsCall ==
    \A c \in Callers :
        /\ claimAt[c] \in {"preflight", "start"} => act.status = "pending" /\ ~act.started
        /\ claimAt[c] \in {"post", "repost", "verify"} => act.status = "pending" /\ act.started
        /\ claimAt[c] \in {"start", "post", "repost", "verify"} => before # NoCount
        /\ claimAt[c] \in {"post", "repost"} => ~open
        /\ claimAt[c] = "reconcile" => act.status \in {"pending", "unknown"} /\ act.started
        /\ claimAt[c] = "verify" => claimReply[c] # "none"
        /\ claimAt[c] = "verify" /\ claimReply[c] = "refused" => ~open
        /\ claimAt[c] = "verify" /\ claimReply[c] = "success" => claimed

RecordShape ==
    /\ act.status \in {"completed", "unknown"} => act.started
    /\ act.status \in {"none", "failed"} => ~act.started
    /\ act.started => before # NoCount

\* The draws are granted to this program's posts only, and while ungranted and
\* not even posted the baseline is at least what is left.
GrantsArePosted == claimed \/ late => open

BaselineIsFresh ==
    ~bought /\ ~claimed =>
        \A c \in Callers : claimAt[c] = "start" => left <= before

ClaimInv ==
    /\ ClaimTypeOK
    /\ LockHeld
    /\ RecordFollowsCall
    /\ RecordShape
    /\ GrantsArePosted
    /\ OpenClaimIsOnRecord
    /\ BaselineIsFresh
    /\ BaselineHolds
    /\ CompletedIsGranted
===============================================================================
