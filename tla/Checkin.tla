------------------------------- MODULE Checkin -------------------------------
(***************************************************************************)
(* The daily check-in: Runner.Checkin of internal/service/runner.go for    *)
(* one account and one day, and the account list of internal/web, which    *)
(* marks the check-in completed when the platform says so.                 *)
(*                                                                         *)
(* Unlike the claim and the purchases, Checkin takes no action lock: the   *)
(* record is read, looked up on the platform, reopened, started, posted    *)
(* and settled in separate store calls, and other calls run in between.    *)
(*                                                                         *)
(* The platform (external) checks an account in at most once a day, at the *)
(* post or later; replies may be lost.  The account may also be checked in *)
(* on the platform's own page.                                             *)
(***************************************************************************)
EXTENDS ActionLedger

CONSTANTS
    Callers,     \* concurrent Checkin calls: web requests and the scheduler
    Viewers      \* concurrent account-list requests

VARIABLES
    act,         \* the persisted action record
    pc,          \* where the call is
    mine,        \* the action as the call read it
    reply,       \* what the call knows from its POST
    view,        \* where the account-list request is
    open,        \* history: a POST left and its outcome is unknown
    faulty,      \* history: the process crashed or a write failed
    overlapped,  \* history: two calls of Checkin ran at the same time
    done,        \* platform: checked in today
    late         \* platform: a check-in accepted, to happen later or never

vars == <<act, pc, mine, reply, view, open, faulty, overlapped, done, late>>
history == <<faulty, overlapped>>

PCs == {"idle", "lookup", "complete", "reopen", "reset", "acquire", "start", "post", "repost", "finish"}
Replies == {"none", "success", "refused", "rejected", "lost"}

Init ==
    /\ act = NoAction
    /\ pc = [c \in Callers |-> "idle"]
    /\ mine = [c \in Callers |-> NoAction]
    /\ reply = [c \in Callers |-> "none"]
    /\ view = [v \in Viewers |-> "idle"]
    /\ open = FALSE
    /\ faulty = FALSE
    /\ overlapped = FALSE
    /\ done = FALSE
    /\ late = FALSE

------------------------------------------------------------------------------
Goto(c, label) == pc' = [pc EXCEPT ![c] = label]

Return(c) ==
    /\ pc' = [pc EXCEPT ![c] = "idle"]
    /\ mine' = [mine EXCEPT ![c] = NoAction]
    /\ reply' = [reply EXCEPT ![c] = "none"]

\* History: whether c begins while another call is on its way.
Overlaps(c) == overlapped \/ \E d \in Callers \ {c} : pc[d] # "idle"

\* First check-in of the day.
BeginNew(c) ==
    /\ pc[c] = "idle"
    /\ act.status = "none"
    /\ \E k \in IdemKeys : act' = NewAction(k)
    /\ Goto(c, "acquire")
    /\ overlapped' = Overlaps(c)
    /\ UNCHANGED <<mine, reply, view, open, faulty, done, late>>

\* A failed record: look at the platform before deciding.  A completed,
\* unknown or pending record is answered as it is and changes nothing.
BeginFailed(c) ==
    /\ pc[c] = "idle"
    /\ act.status = "failed"
    /\ mine' = [mine EXCEPT ![c] = act]
    /\ Goto(c, "lookup")
    /\ overlapped' = Overlaps(c)
    /\ UNCHANGED <<act, reply, view, open, faulty, done, late>>

\* reconcileFailedCheckin: what the platform shows, if it can be asked.
LookUp(c) ==
    /\ pc[c] = "lookup"
    /\ Goto(c, IF done THEN "complete" ELSE "reopen")
    /\ UNCHANGED <<act, mine, reply, view, open, history, done, late>>

LookUpFails(c) ==
    /\ pc[c] = "lookup"
    /\ \/ Goto(c, "reset") /\ MayReset(mine[c]) /\ UNCHANGED <<mine, reply>>
       \/ Return(c) /\ ~MayReset(mine[c])
    /\ UNCHANGED <<act, view, open, history, done, late>>

LookUpComplete(c) ==
    /\ pc[c] = "complete"
    /\ act' = Settle(act, "completed")
    /\ Return(c)
    /\ UNCHANGED <<view, open, history, done, late>>

\* resetFailedCheckinAction: whatever the record has become meanwhile.
Reopen(c) ==
    /\ pc[c] = "reopen"
    /\ act' = [act EXCEPT !.status = "pending", !.started = FALSE, !.retryable = FALSE]
    /\ Goto(c, "acquire")
    /\ UNCHANGED <<mine, reply, view, open, history, done, late>>

\* ResetRetryableAction looks at the record again and refuses if it moved.
Reset(c) ==
    /\ pc[c] = "reset"
    /\ MayReset(act)
    /\ act' = ResetRetryable(act)
    /\ Goto(c, "acquire")
    /\ UNCHANGED <<mine, reply, view, open, history, done, late>>

ResetRefused(c) ==
    /\ pc[c] = "reset"
    /\ ~MayReset(act)
    /\ Return(c)
    /\ UNCHANGED <<act, view, open, history, done, late>>

\* Mutant of AcquireFails: the error is returned and not recorded.
AcquireFailsUnrecorded(c) ==
    /\ pc[c] = "acquire"
    /\ Return(c)
    /\ UNCHANGED <<act, view, open, history, done, late>>

\* No parent session, the eligibility check rejected the session, or today's
\* activity does not allow a check-in yet.
AcquireFails(c) ==
    /\ pc[c] = "acquire"
    /\ \E again \in BOOLEAN : act' = RecordActionError(act, FALSE, again)
    /\ Return(c)
    /\ UNCHANGED <<view, open, history, done, late>>

Acquire(c) ==
    /\ pc[c] = "acquire"
    /\ Goto(c, "start")
    /\ UNCHANGED <<act, mine, reply, view, open, history, done, late>>

Start(c) ==
    /\ pc[c] = "start"
    /\ act' = StartAction(act)
    /\ Goto(c, "post")
    /\ UNCHANGED <<mine, reply, view, open, history, done, late>>

\* "refused" is a reply without success, "rejected" a status that is neither
\* 401/403 nor transient; both mean that nothing happened.
Post(c) ==
    /\ pc[c] \in {"post", "repost"}
    /\ \E r \in Replies \ {"none"} :
        /\ reply' = [reply EXCEPT ![c] = r]
        /\ open' = (open \/ r = "lost")
        /\ CASE r = "success" -> ~done /\ done' = TRUE /\ UNCHANGED late
             [] r \in {"refused", "rejected"} -> UNCHANGED <<done, late>>
             [] r = "lost" -> \/ ~done /\ done' = TRUE /\ UNCHANGED late
                              \/ ~done /\ late' = TRUE /\ UNCHANGED done
                              \/ UNCHANGED <<done, late>>
    /\ Goto(c, "finish")
    /\ UNCHANGED <<act, mine, view, history>>

\* 401/403: renew the parent session and post once more; a failed renewal is
\* no API status, which isUnknown takes for a lost reply.
PostUnauthorized(c) ==
    /\ pc[c] = "post"
    /\ \/ Goto(c, "repost") /\ UNCHANGED reply
       \/ Goto(c, "finish") /\ reply' = [reply EXCEPT ![c] = "lost"]
    /\ UNCHANGED <<act, mine, view, open, history, done, late>>

\* Mutant of Outcome: the reply is kept as the status of the record.
OutcomeRaw(a, r) == Settle(a, r)

Outcome(a, r) ==
    CASE r = "success" -> Settle(a, "completed")
      [] r = "refused" -> FailUnstarted(a, TRUE)
      [] r = "rejected" -> RecordActionError(a, FALSE, FALSE)
      [] r = "lost" -> RecordActionError(a, TRUE, FALSE)

\* Mutant of Finish: a lost reply counts as a failure like any other.
FinishLostAsFailed(c) ==
    /\ pc[c] = "finish"
    /\ act' = Outcome(act, IF reply[c] = "lost" THEN "rejected" ELSE reply[c])
    /\ Return(c)
    /\ UNCHANGED <<view, open, history, done, late>>

Finish(c) ==
    /\ pc[c] = "finish"
    /\ act' = Outcome(act, reply[c])
    /\ Return(c)
    /\ UNCHANGED <<view, open, history, done, late>>

\* persistLocked failed: the call returns the error.
StoreFails(c) ==
    /\ pc[c] \in {"complete", "reopen", "reset", "acquire", "start", "finish"}
    /\ Return(c)
    /\ faulty' = TRUE
    /\ UNCHANGED <<act, view, open, overlapped, done, late>>

------------------------------------------------------------------------------
\* Mutant of ViewSeesCheckin: the list believes any answer of the platform.
ViewSeesAnything(v) ==
    /\ view[v] = "idle"
    /\ view' = [view EXCEPT ![v] = "create"]
    /\ UNCHANGED <<act, pc, mine, reply, open, history, done, late>>

\* GET /api/accounts reads CheckinStatus and finds the account checked in.
ViewSeesCheckin(v) ==
    /\ view[v] = "idle"
    /\ done
    /\ view' = [view EXCEPT ![v] = "create"]
    /\ UNCHANGED <<act, pc, mine, reply, open, history, done, late>>

\* markCheckinCompleted: GetOrCreateAction, then UpdateAction.
MarkCreate(v) ==
    /\ view[v] = "create"
    /\ IF act.status = "none" THEN \E k \in IdemKeys : act' = NewAction(k) ELSE UNCHANGED act
    /\ view' = [view EXCEPT ![v] = "mark"]
    /\ UNCHANGED <<pc, mine, reply, open, history, done, late>>

Mark(v) ==
    /\ view[v] = "mark"
    /\ act' = [act EXCEPT !.status = "completed", !.retryable = FALSE, !.started = TRUE]
    /\ view' = [view EXCEPT ![v] = "idle"]
    /\ UNCHANGED <<pc, mine, reply, open, history, done, late>>

Crash ==
    /\ pc' = [c \in Callers |-> "idle"]
    /\ mine' = [c \in Callers |-> NoAction]
    /\ reply' = [c \in Callers |-> "none"]
    /\ view' = [v \in Viewers |-> "idle"]
    /\ faulty' = TRUE
    /\ UNCHANGED <<act, open, overlapped, done, late>>

\* The platform: a late check-in, one that never happens, and one made on
\* the platform's own page.
ArriveLate == late /\ late' = FALSE /\ done' = TRUE /\ UNCHANGED <<act, pc, mine, reply, view, open, history>>
NeverArrives == late /\ late' = FALSE /\ UNCHANGED <<act, pc, mine, reply, view, open, history, done>>
CheckedInElsewhere == ~done /\ done' = TRUE /\ UNCHANGED <<act, pc, mine, reply, view, open, history, late>>

Call(c) ==
    \/ BeginNew(c) \/ BeginFailed(c)
    \/ LookUp(c) \/ LookUpFails(c) \/ LookUpComplete(c) \/ Reopen(c)
    \/ Reset(c) \/ ResetRefused(c)
    \/ AcquireFails(c) \/ Acquire(c) \/ Start(c)
    \/ Post(c) \/ PostUnauthorized(c) \/ Finish(c) \/ StoreFails(c)

View(v) == ViewSeesCheckin(v) \/ MarkCreate(v) \/ Mark(v)

Next ==
    \/ \E c \in Callers : Call(c)
    \/ \E v \in Viewers : View(v)
    \/ Crash \/ ArriveLate \/ NeverArrives \/ CheckedInElsewhere

Spec == Init /\ [][Next]_vars

------------------------------------------------------------------------------
Posting(c) == pc[c] \in {"post", "repost"}

TypeOK ==
    /\ act \in Actions
    /\ pc \in [Callers -> PCs]
    /\ mine \in [Callers -> Actions]
    /\ reply \in [Callers -> Replies]
    /\ view \in [Viewers -> {"idle", "create", "mark"}]
    /\ open \in BOOLEAN /\ faulty \in BOOLEAN /\ overlapped \in BOOLEAN
    /\ done \in BOOLEAN /\ late \in BOOLEAN

\* Whoever writes "completed", and however the writes of concurrent calls and
\* account-list requests fall, the account is checked in on the platform.
CompletedIsCheckedIn == act.status = "completed" => done

\* A pending check-in has a call that is still working on it: as long as the
\* process lives and its writes succeed no path leaves a record behind that
\* Checkin, which answers "pending" from the record, would never touch again.
PendingHasACall ==
    ~faulty /\ act.status = "pending" =>
        \/ \E c \in Callers : pc[c] \in {"acquire", "start", "post", "repost", "finish"}
        \/ \E v \in Viewers : view[v] = "mark"

\* Whatever calls and account lists do to the one record without a lock, it is
\* a record that the store can hold, and one that somebody will still settle.
CheckinInv == TypeOK /\ PendingHasACall

\* A check-in whose reply was lost is not posted again by later calls, across
\* crashes: the record stays unknown or pending, and Checkin leaves both alone.
\* Calls that overlap have no such promise: each may post what it reopened.
LostCheckinIsNotReposted ==
    [][\A c \in Callers :
        Posting(c) /\ pc'[c] = "finish" /\ ~overlapped => ~open]_vars

------------------------------------------------------------------------------
(***************************************************************************)
(* The inductive invariants behind the properties above.                   *)
(***************************************************************************)
\* A call that settles the record has heard something from its POST.
FinishHasReply == \A c \in Callers : pc[c] = "finish" => reply[c] # "none"

\* Everyone about to write "completed" has seen the check-in on the platform.
WritersSawCheckin ==
    /\ \A c \in Callers : pc[c] = "complete" \/ reply[c] = "success" => done
    /\ \A v \in Viewers : view[v] # "idle" => done

\* As long as calls do not overlap there is one at a time, its record can only
\* be pending or marked completed by an account list, and after a lost reply
\* the record is none that a later call would open again.
LostIsNotReopened ==
    ~overlapped =>
        /\ \A c, d \in Callers : pc[c] # "idle" /\ pc[d] # "idle" => c = d
        /\ \A c \in Callers :
               pc[c] \in {"acquire", "start", "post", "repost", "finish"} =>
                   act.status \in {"pending", "completed"}
        /\ open =>
               /\ act.status \in {"pending", "unknown", "completed"}
               /\ \A c \in Callers : pc[c] # "idle" => pc[c] = "finish" /\ reply[c] = "lost"

CheckinIInv ==
    /\ CheckinInv
    /\ CompletedIsCheckedIn
    /\ FinishHasReply
    /\ WritersSawCheckin
    /\ LostIsNotReopened
===============================================================================
