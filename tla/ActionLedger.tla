----------------------------- MODULE ActionLedger -----------------------------
(***************************************************************************)
(* The action record of internal/state/store.go and the updates that the   *)
(* store and internal/service/runner.go make to it.  One record exists per *)
(* account, day and kind; every update is one UpdateAction (or sibling)    *)
(* call, which runs under Store.mu and either persists the new record or   *)
(* leaves the old one in place.                                            *)
(*                                                                         *)
(* Messages, prices, rewards, attempt counts and time stamps are left out: *)
(* no decision of the program reads them, except UpdatedAt, which the      *)
(* modules that need it keep as "updated since this call began".           *)
(***************************************************************************)
CONSTANTS
    IdemKeys,    \* idempotency keys newIdempotencyKey can return
    NoIdem       \* the record does not exist, so it has no key

ASSUME LedgerAssumption == NoIdem \notin IdemKeys

\* "none": the store has no record for this account, day and kind.
Statuses == {"none", "pending", "completed", "failed", "unknown"}

Actions == [status : Statuses,
            idem : IdemKeys \union {NoIdem},
            started : BOOLEAN,       \* SideEffectStarted
            retryable : BOOLEAN]     \* Retryable

NoAction == [status |-> "none", idem |-> NoIdem, started |-> FALSE, retryable |-> FALSE]

\* GetOrCreateAction, no record yet.
NewAction(k) == [status |-> "pending", idem |-> k, started |-> FALSE, retryable |-> FALSE]

\* startAction: written before the request leaves the process.
StartAction(a) == [a EXCEPT !.started = TRUE]

\* ResetRetryableAction: same key, run again.
MayReset(a) == a.retryable /\ ~a.started
ResetRetryable(a) == [a EXCEPT !.status = "pending", !.retryable = FALSE]

\* Mutant of MayRotate: an outcome nobody knows counts as settled.
MayRotateUnknown(a) ==
    \/ a.status \in {"completed", "unknown"}
    \/ a.status = "failed" /\ a.retryable

\* RotateRepeatableAction: a new key for a new side effect.
MayRotate(a) ==
    /\ ~a.started
    /\ a.status = "completed" \/ (a.status = "failed" /\ a.retryable)
RotateRepeatable(a, k) == NewAction(k)

\* The outcomes the services write with finishAction.
Complete(a) == [a EXCEPT !.status = "completed", !.started = FALSE, !.retryable = FALSE]
FailUnstarted(a, again) == [a EXCEPT !.status = "failed", !.started = FALSE, !.retryable = again]
LeaveUnknown(a) == [a EXCEPT !.status = "unknown", !.started = TRUE, !.retryable = FALSE]
LeavePending(a) == [a EXCEPT !.status = "pending", !.started = TRUE, !.retryable = FALSE]

\* The daily claim and the check-in settle without touching SideEffectStarted.
Settle(a, status) == [a EXCEPT !.status = status, !.retryable = FALSE]

\* recordActionError: SideEffectStarted stays as it is.
RecordActionError(a, unknown, again) ==
    [a EXCEPT !.status = IF unknown /\ ~again THEN "unknown" ELSE "failed",
              !.retryable = again]
===============================================================================
