----------------------------- MODULE CheckinProofs -----------------------------
(***************************************************************************)
(* Theorems about Checkin, for any number of check-in calls and account    *)
(* lists that share the record without a lock: "completed" means checked   *)
(* in, a pending record has somebody who settles it, and a check-in whose  *)
(* reply was lost is not posted again by a later call.                     *)
(***************************************************************************)
EXTENDS Checkin, TLAPS

\* The updates of the ledger return records with the status they are named
\* for.
LEMMA NewRecord ==
    ASSUME NEW k \in IdemKeys
    PROVE  NewAction(k) \in Actions /\ NewAction(k).status = "pending"
  BY DEF Actions, Statuses, NewAction

LEMMA StartedRecord ==
    ASSUME NEW a \in Actions
    PROVE  StartAction(a) \in Actions /\ StartAction(a).status = a.status
  BY DEF Actions, Statuses, StartAction

LEMMA ResetRecord ==
    ASSUME NEW a \in Actions
    PROVE  ResetRetryable(a) \in Actions /\ ResetRetryable(a).status = "pending"
  BY DEF Actions, Statuses, ResetRetryable

LEMMA SettledRecord ==
    ASSUME NEW a \in Actions, NEW s \in Statuses
    PROVE  Settle(a, s) \in Actions /\ Settle(a, s).status = s
  BY DEF Actions, Settle

LEMMA FailedRecord ==
    ASSUME NEW a \in Actions, NEW again \in BOOLEAN
    PROVE  /\ FailUnstarted(a, again) \in Actions
           /\ FailUnstarted(a, again).status = "failed"
           /\ RecordActionError(a, FALSE, again) \in Actions
           /\ RecordActionError(a, FALSE, again).status = "failed"
  BY DEF Actions, Statuses, FailUnstarted, RecordActionError

LEMMA UnknownRecord ==
    ASSUME NEW a \in Actions
    PROVE  /\ RecordActionError(a, TRUE, FALSE) \in Actions
           /\ RecordActionError(a, TRUE, FALSE).status = "unknown"
  BY DEF Actions, Statuses, RecordActionError

\* What the call records of its POST, by what it heard of it.
LEMMA OutcomeOfReply ==
    ASSUME NEW a \in Actions, NEW r \in Replies, r # "none"
    PROVE  /\ Outcome(a, r) \in Actions
           /\ Outcome(a, r).status \in {"completed", "failed", "unknown"}
           /\ Outcome(a, r).status = "completed" <=> r = "success"
           /\ r = "lost" => Outcome(a, r).status = "unknown"
  <1>1. CASE r = "success"
    BY <1>1, SettledRecord DEF Outcome, Statuses
  <1>2. CASE r = "refused"
    BY <1>2, FailedRecord DEF Outcome
  <1>3. CASE r = "rejected"
    BY <1>3, FailedRecord DEF Outcome
  <1>4. CASE r = "lost"
    BY <1>4, UnknownRecord DEF Outcome
  <1>5. QED
    BY <1>1, <1>2, <1>3, <1>4 DEF Replies

LEMMA NoRecord == NoAction \in Actions /\ NoAction.status = "none"
  BY DEF NoAction, Actions, Statuses

LEMMA InitCheckinIInv == Init => CheckinIInv
  <1> SUFFICES ASSUME Init PROVE CheckinIInv
    OBVIOUS
  <1>1. TypeOK
    BY NoRecord DEF Init, TypeOK, PCs, Replies
  <1>2. PendingHasACall /\ CompletedIsCheckedIn
    BY NoRecord DEF Init, PendingHasACall, CompletedIsCheckedIn
  <1>3. FinishHasReply /\ WritersSawCheckin /\ LostIsNotReopened
    BY DEF Init, FinishHasReply, WritersSawCheckin, LostIsNotReopened
  <1>4. QED
    BY <1>1, <1>2, <1>3 DEF CheckinIInv, CheckinInv

\* The start of a call: a new record, or a failed one.
LEMMA BeginInv ==
    ASSUME CheckinIInv, NEW c \in Callers, BeginNew(c) \/ BeginFailed(c)
    PROVE  CheckinIInv'
  <1>1. BeginNew(c) => act' \in Actions /\ act'.status = "pending"
    BY NewRecord DEF BeginNew
  <1> USE DEF CheckinIInv, CheckinInv, TypeOK, PendingHasACall, CompletedIsCheckedIn,
              FinishHasReply, WritersSawCheckin, LostIsNotReopened, PCs, Goto, Overlaps
  <1>2. CASE BeginNew(c)
    BY <1>1, <1>2 DEF BeginNew
  <1>3. CASE BeginFailed(c)
    BY <1>3 DEF BeginFailed
  <1>4. QED
    BY <1>2, <1>3

\* The look at the platform and the steps that do not touch the record.
LEMMA LookUpInv ==
    ASSUME CheckinIInv, NEW c \in Callers,
           \/ LookUp(c) \/ LookUpFails(c) \/ ResetRefused(c) \/ Acquire(c)
    PROVE  CheckinIInv'
  <1> USE DEF CheckinIInv, CheckinInv, TypeOK, PendingHasACall, CompletedIsCheckedIn,
              FinishHasReply, WritersSawCheckin, LostIsNotReopened, PCs, Goto, history
  <1>0. NoAction \in Actions /\ "none" \in Replies
    BY NoRecord DEF Replies
  <1>1. CASE LookUp(c)
    BY <1>1 DEF LookUp
  <1>2. CASE LookUpFails(c)
    BY <1>0, <1>2 DEF LookUpFails, Return
  <1>3. CASE ResetRefused(c)
    BY <1>0, <1>3 DEF ResetRefused, Return
  <1>4. CASE Acquire(c)
    BY <1>4 DEF Acquire
  <1>5. QED
    BY <1>1, <1>2, <1>3, <1>4

\* The record becomes pending again, with the call that will settle it.
LEMMA ReopenInv ==
    ASSUME CheckinIInv, NEW c \in Callers, Reopen(c) \/ Reset(c) \/ Start(c)
    PROVE  CheckinIInv'
  <1>1. act \in Actions
    BY DEF CheckinIInv, CheckinInv, TypeOK
  <1>2. Reopen(c) => act' \in Actions /\ act'.status = "pending"
    BY <1>1 DEF Reopen, Actions, Statuses
  <1>3. Reset(c) => act' \in Actions /\ act'.status = "pending"
    BY <1>1, ResetRecord DEF Reset
  <1>4. Start(c) => act' \in Actions /\ act'.status = act.status
    BY <1>1, StartedRecord DEF Start
  <1> USE DEF CheckinIInv, CheckinInv, TypeOK, PendingHasACall, CompletedIsCheckedIn,
              FinishHasReply, WritersSawCheckin, LostIsNotReopened, PCs, Goto, history
  <1>5. CASE Reopen(c)
    BY <1>2, <1>5 DEF Reopen
  <1>6. CASE Reset(c)
    BY <1>3, <1>6 DEF Reset
  <1>7. CASE Start(c)
    BY <1>4, <1>7 DEF Start
  <1>8. QED
    BY <1>5, <1>6, <1>7

\* The POST and what becomes of it.
LEMMA PostInv ==
    ASSUME CheckinIInv, NEW c \in Callers, Post(c) \/ PostUnauthorized(c)
    PROVE  CheckinIInv'
  <1> USE DEF CheckinIInv, CheckinInv, TypeOK, PendingHasACall, CompletedIsCheckedIn,
              FinishHasReply, WritersSawCheckin, LostIsNotReopened, PCs, Goto, history
  <1>1. CASE Post(c)
    <2>1. PICK r \in Replies \ {"none"} :
            /\ reply' = [reply EXCEPT ![c] = r]
            /\ open' = (open \/ r = "lost")
            /\ done' \in BOOLEAN /\ late' \in BOOLEAN
            /\ done => done'
            /\ r = "success" => done'
      BY <1>1 DEF Post, Replies
    <2>2. UNCHANGED <<act, mine, view, faulty, overlapped>> /\ pc' = [pc EXCEPT ![c] = "finish"]
          /\ pc[c] \in {"post", "repost"}
      BY <1>1 DEF Post
    <2>3. QED
      BY <2>1, <2>2
  <1>2. CASE PostUnauthorized(c)
    BY <1>2 DEF PostUnauthorized, Replies
  <1>3. QED
    BY <1>1, <1>2

\* The last write of a call.
LEMMA SettleInv ==
    ASSUME CheckinIInv, NEW c \in Callers,
           LookUpComplete(c) \/ AcquireFails(c) \/ Finish(c) \/ StoreFails(c)
    PROVE  CheckinIInv'
  <1>1. NoAction \in Actions /\ "none" \in Replies
    BY NoRecord DEF Replies
  <1>2. act \in Actions
    BY DEF CheckinIInv, CheckinInv, TypeOK
  <1>3. LookUpComplete(c) => act' \in Actions /\ act'.status = "completed"
    BY <1>2, SettledRecord DEF LookUpComplete, Statuses
  <1>4. AcquireFails(c) => act' \in Actions /\ act'.status = "failed"
    <2>1. \A again \in BOOLEAN : LET failed == RecordActionError(act, FALSE, again)
                                IN  failed \in Actions /\ failed.status = "failed"
      BY <1>2, FailedRecord
    <2>2. QED
      BY <2>1 DEF AcquireFails
  <1>5. Finish(c) =>
            /\ act' \in Actions /\ act'.status \in {"completed", "failed", "unknown"}
            /\ act'.status = "completed" <=> reply[c] = "success"
            /\ reply[c] = "lost" => act'.status = "unknown"
    <2>1. Finish(c) => reply[c] \in Replies /\ reply[c] # "none"
      BY DEF Finish, CheckinIInv, CheckinInv, TypeOK, FinishHasReply
    <2>2. QED
      BY <1>2, <2>1, OutcomeOfReply DEF Finish
  <1> USE DEF CheckinIInv, CheckinInv, TypeOK, PendingHasACall, CompletedIsCheckedIn,
              FinishHasReply, WritersSawCheckin, LostIsNotReopened, PCs, Return, history
  <1>6. CASE LookUpComplete(c)
    BY <1>1, <1>3, <1>6 DEF LookUpComplete
  <1>7. CASE AcquireFails(c)
    <2>1. pc[c] = "acquire" /\ Return(c) /\ UNCHANGED <<view, open, faulty, overlapped, done, late>>
      BY <1>7 DEF AcquireFails
    <2>2. QED
      BY <1>1, <1>4, <1>7, <2>1
  <1>8. CASE Finish(c)
    BY <1>1, <1>5, <1>8 DEF Finish
  <1>9. CASE StoreFails(c)
    BY <1>1, <1>9 DEF StoreFails
  <1>10. QED
    BY <1>6, <1>7, <1>8, <1>9

\* The account list marks what it saw, on whatever the record has become.
LEMMA ViewInv ==
    ASSUME CheckinIInv, NEW v \in Viewers, View(v)
    PROVE  CheckinIInv'
  <1>1. act \in Actions
    BY DEF CheckinIInv, CheckinInv, TypeOK
  <1>2. MarkCreate(v) =>
            /\ act' \in Actions
            /\ IF act.status = "none" THEN act'.status = "pending" ELSE act' = act
    BY <1>1, NewRecord DEF MarkCreate
  <1>3. Mark(v) => act' \in Actions /\ act'.status = "completed"
    BY <1>1 DEF Mark, Actions, Statuses
  <1> USE DEF CheckinIInv, CheckinInv, TypeOK, PendingHasACall, CompletedIsCheckedIn,
              FinishHasReply, WritersSawCheckin, LostIsNotReopened, history
  <1>4. CASE ViewSeesCheckin(v)
    BY <1>4 DEF ViewSeesCheckin
  <1>5. CASE MarkCreate(v)
    <2>1. CASE act.status = "none"
      BY <1>2, <1>5, <2>1 DEF MarkCreate
    <2>2. CASE act.status # "none"
      BY <1>2, <1>5, <2>2 DEF MarkCreate
    <2>3. QED
      BY <2>1, <2>2
  <1>6. CASE Mark(v)
    BY <1>3, <1>6 DEF Mark
  <1>7. QED
    BY <1>4, <1>5, <1>6 DEF View

\* Crashes and the platform.
LEMMA OutsideInv ==
    ASSUME CheckinIInv, Crash \/ ArriveLate \/ NeverArrives \/ CheckedInElsewhere
    PROVE  CheckinIInv'
  <1> USE DEF CheckinIInv, CheckinInv, TypeOK, PendingHasACall, CompletedIsCheckedIn,
              FinishHasReply, WritersSawCheckin, LostIsNotReopened, history
  <1>1. CASE Crash
    <2>1. TypeOK'
      BY <1>1, NoRecord DEF Crash, PCs, Replies
    <2>2. QED
      BY <1>1, <2>1 DEF Crash
  <1>2. CASE ArriveLate \/ NeverArrives \/ CheckedInElsewhere
    <2>1. UNCHANGED <<act, pc, mine, reply, view, open, faulty, overlapped>>
      BY <1>2 DEF ArriveLate, NeverArrives, CheckedInElsewhere
    <2>2. done' \in BOOLEAN /\ late' \in BOOLEAN /\ (done => done')
      BY <1>2 DEF ArriveLate, NeverArrives, CheckedInElsewhere
    <2>3. QED
      BY <2>1, <2>2
  <1>3. QED
    BY <1>1, <1>2

LEMMA NextCheckinIInv == CheckinIInv /\ [Next]_vars => CheckinIInv'
  <1> SUFFICES ASSUME CheckinIInv, [Next]_vars PROVE CheckinIInv'
    OBVIOUS
  <1>1. CASE UNCHANGED vars
    BY <1>1 DEF vars, CheckinIInv, CheckinInv, TypeOK, PendingHasACall, CompletedIsCheckedIn,
                FinishHasReply, WritersSawCheckin, LostIsNotReopened
  <1>2. QED
    BY <1>1, BeginInv, LookUpInv, ReopenInv, PostInv, SettleInv, ViewInv, OutsideInv DEF Next, Call

LEMMA CheckinIInvariant == Spec => []CheckinIInv
  BY InitCheckinIInv, NextCheckinIInv, PTL DEF Spec

(***************************************************************************)
(* Whatever the calls and account lists do to the one record, it stays one *)
(* that the store can hold, and a pending one has somebody at work on it   *)
(* as long as the process lives and its writes succeed.                    *)
(***************************************************************************)
THEOREM CheckinInvariant == Spec => []CheckinInv
  <1>1. CheckinIInv => CheckinInv
    BY DEF CheckinIInv
  <1>2. QED
    BY <1>1, CheckinIInvariant, PTL

(***************************************************************************)
(* "Completed" on the record means checked in on the platform, whoever     *)
(* wrote it and in whatever order the writes of concurrent calls fall.     *)
(***************************************************************************)
THEOREM CompletedMeansCheckedIn == Spec => []CompletedIsCheckedIn
  <1>1. CheckinIInv => CompletedIsCheckedIn
    BY DEF CheckinIInv
  <1>2. QED
    BY <1>1, CheckinIInvariant, PTL

(***************************************************************************)
(* Calls that do not overlap never post a check-in again whose reply was   *)
(* lost, crashes and failed writes included.                               *)
(***************************************************************************)
THEOREM LostCheckinStaysPut == Spec => LostCheckinIsNotReposted
  <1> DEFINE Once == \A c \in Callers :
                        Posting(c) /\ pc'[c] = "finish" /\ ~overlapped => ~open
  <1>1. CheckinIInv => Once
    BY DEF CheckinIInv, LostIsNotReopened, Posting
  <1>2. CheckinIInv /\ [Next]_vars => [Once]_vars
    BY <1>1
  <1>3. QED
    BY <1>2, CheckinIInvariant, PTL DEF Spec, LostCheckinIsNotReposted
================================================================================
