---------------------------- MODULE DailyPassProofs ----------------------------
(***************************************************************************)
(* Theorems about DailyPass, for any number of concurrent requests, any    *)
(* number of days and any supply of keys: a pass is paid once a day, an    *)
(* open unlock is always on record, and a key is replaced only while       *)
(* nothing can be charged under it.                                        *)
(***************************************************************************)
EXTENDS DailyPass, TLAPS

LEMMA InitPassInv == Init => PassInv
  BY LedgerAssumption, PassAssumption
  DEF Init, PassInv, TypeOK, LockHeld, Running, RecordFollowsRequest, RecordShape, KeysApart,
      DatesAreRight, ChargeIsOnRecord, ChargedIsUnlocked, UnsettledIsOnRecord,
      CompletedIsUnlocked, Reached, Mine, Days, NoAction, Actions, Statuses, PCs, Replies

\* No update of a record but a rotation touches its key.
LEMMA UpdatesKeepTheKey ==
    ASSUME NEW a \in Actions
    PROVE  /\ Complete(a).idem = a.idem
           /\ LeaveUnknown(a).idem = a.idem /\ LeavePending(a).idem = a.idem
           /\ StartAction(a).idem = a.idem /\ [a EXCEPT !.retryable = FALSE].idem = a.idem
           /\ \A again \in BOOLEAN : FailUnstarted(a, again).idem = a.idem
  BY DEF Complete, LeaveUnknown, LeavePending, StartAction, FailUnstarted, Actions

\* A running request owns the lock of its date, alone.
LEMMA RunningAlone ==
    ASSUME PassInv, NEW c \in Callers, Running(c),
           NEW d \in Callers, Running(d), date[d] = date[c]
    PROVE  d = c
  BY DEF PassInv, LockHeld

\* A request that records a as its last write and returns.
LEMMA RecordAndReturn ==
    ASSUME PassInv, NEW c \in Callers, Running(c), NEW a \in Actions,
           a.idem = Mine(c).idem, Mine(c).status # "none", a.status # "none",
           a.started => a.status \in {"pending", "unknown"},
           a.status = "unknown" => a.started,
           a.status \in {"pending", "failed"} /\ ~a.started => Mine(c).idem \notin Reached,
           a.status = "completed" /\ date[c] \notin late => date[c] \in unlocked,
           Write(c, a), Return(c), UNCHANGED <<today, late, posted, platform>>
    PROVE  PassInv'
  <1>u. UNCHANGED <<today, date, late, posted, charged, inflight, unlocked>>
    BY DEF platform, Return
  <1>r. Reached' = Reached
    BY <1>u DEF Reached
  <1>t. date[c] \in Days /\ lock[date[c]] = c
    BY DEF PassInv, TypeOK, LockHeld
  <1>a. /\ act' = [act EXCEPT ![date[c]] = a]
        /\ act \in [Days -> Actions] /\ act' \in [Days -> Actions]
    BY <1>t DEF PassInv, TypeOK, Write
  <1>i. \A d \in Days : act'[d].idem = act[d].idem
    BY <1>a DEF Mine
  <1>1. TypeOK'
    BY <1>u, <1>a DEF PassInv, TypeOK, Return, PCs, Replies
  <1>2. LockHeld'
    BY <1>u, <1>t, PassAssumption DEF PassInv, TypeOK, LockHeld, Running, Return
  <1>3. RecordFollowsRequest'
    <2> SUFFICES ASSUME NEW d \in Callers, Running(d)'
                 PROVE  /\ d # c /\ pc'[d] = pc[d] /\ reply'[d] = reply[d]
                        /\ Running(d) /\ Mine(d)' = Mine(d)
      BY <1>u, <1>r DEF PassInv, RecordFollowsRequest, Running
    <2>1. d # c /\ pc'[d] = pc[d] /\ reply'[d] = reply[d]
      BY DEF Running, Return, PassInv, TypeOK
    <2>2. Running(d)
      BY <2>1 DEF Running
    <2>3. date[d] # date[c] /\ date[d] \in Days
      BY <2>1, <2>2, RunningAlone DEF PassInv, TypeOK
    <2>4. QED
      BY <1>a, <1>u, <2>1, <2>2, <2>3 DEF Mine
  <1>4. RecordShape'
    BY <1>a, <1>t, <1>r DEF PassInv, RecordShape, Mine
  <1>5. KeysApart' /\ ChargeIsOnRecord'
    BY <1>i, <1>u, <1>r DEF PassInv, TypeOK, KeysApart, ChargeIsOnRecord
  <1>6. DatesAreRight' /\ ChargedIsUnlocked'
    BY <1>u DEF PassInv, TypeOK, DatesAreRight, ChargedIsUnlocked, Return
  <1>7. UnsettledIsOnRecord'
    <2> SUFFICES ASSUME NEW x \in inflight
                 PROVE  \E d \in Days : /\ act'[d].idem = x[1]
                                        /\ act'[d].started \/ act'[d].status = "completed"
      BY <1>u DEF UnsettledIsOnRecord
    <2>1. PICK d \in Days : /\ act[d].idem = x[1]
                            /\ act[d].started \/ act[d].status = "completed"
      BY DEF PassInv, UnsettledIsOnRecord
    <2>2. x[1] \in Reached
      BY DEF Reached
    <2>3. a.status \in {"pending", "failed", "unknown", "completed"} /\ a.started \in BOOLEAN
      BY DEF Actions, Statuses
    <2>4. QED
      BY <1>a, <2>1, <2>2, <2>3 DEF Mine
  <1>8. CompletedIsUnlocked'
    BY <1>a, <1>u DEF PassInv, CompletedIsUnlocked
  <1>9. QED
    BY <1>1, <1>2, <1>3, <1>4, <1>5, <1>6, <1>7, <1>8 DEF PassInv

\* A request that returns without writing its record.
LEMMA JustReturn ==
    ASSUME PassInv, NEW c \in Callers, Running(c), Return(c),
           UNCHANGED <<today, act, late, posted, platform>>
    PROVE  PassInv'
  <1>u. UNCHANGED <<today, act, date, late, posted, charged, inflight, unlocked>>
    BY DEF platform, Return
  <1>1. TypeOK'
    BY <1>u DEF PassInv, TypeOK, Return, PCs, Replies
  <1>2. LockHeld'
    BY <1>u, PassAssumption DEF PassInv, TypeOK, LockHeld, Running, Return
  <1>3. RecordFollowsRequest' /\ DatesAreRight'
    BY <1>u DEF PassInv, TypeOK, RecordFollowsRequest, DatesAreRight, Return, Mine, Reached
  <1>4. RecordShape' /\ KeysApart' /\ ChargeIsOnRecord' /\ ChargedIsUnlocked'
        /\ UnsettledIsOnRecord' /\ CompletedIsUnlocked'
    BY <1>u DEF PassInv, RecordShape, KeysApart, ChargeIsOnRecord, ChargedIsUnlocked,
                UnsettledIsOnRecord, CompletedIsUnlocked, Reached
  <1>5. QED
    BY <1>1, <1>2, <1>3, <1>4 DEF PassInv

\* A request waits for the lock of its date, and gets it.
LEMMA QueueInv ==
    ASSUME PassInv, NEW c \in Callers, Call(c) \/ TakeLock(c)
    PROVE  PassInv'
  <1> USE PassAssumption
      DEF PassInv, TypeOK, LockHeld, Running, RecordFollowsRequest, RecordShape, KeysApart,
          DatesAreRight, ChargeIsOnRecord, ChargedIsUnlocked, UnsettledIsOnRecord,
          CompletedIsUnlocked, Reached, Mine, PCs, platform, Goto
  <1>1. CASE Call(c)
    BY <1>1 DEF Call
  <1>2. CASE TakeLock(c)
    BY <1>2 DEF TakeLock
  <1>3. QED
    BY <1>1, <1>2

\* A request that puts a on record and goes on to a label where a pending record
\* is expected; a new key in a is a fresh one, put in for a key never charged.
LEMMA RecordAndGoOn ==
    ASSUME PassInv, NEW c \in Callers, Running(c), NEW a \in Actions,
           NEW label \in {"preflight", "already", "start", "post"},
           a.status = "pending", a.idem # NoIdem, a.started <=> label = "post",
           Mine(c).idem \notin Reached,
           a.idem = Mine(c).idem \/ Fresh(a.idem),
           label = "already" /\ date[c] \notin late => date[c] \in unlocked,
           Write(c, a), Goto(c, label),
           UNCHANGED <<today, lock, date, reply, late, posted, platform>>
    PROVE  PassInv'
  <1>u. UNCHANGED <<today, lock, date, reply, late, posted, charged, inflight, unlocked>>
    BY DEF platform
  <1>r. Reached' = Reached
    BY <1>u DEF Reached
  <1>t. date[c] \in Days /\ lock[date[c]] = c
    BY DEF PassInv, TypeOK, LockHeld
  <1>a. /\ act' = [act EXCEPT ![date[c]] = a]
        /\ act \in [Days -> Actions] /\ act' \in [Days -> Actions]
    BY <1>t DEF PassInv, TypeOK, Write
  <1>p. pc' = [pc EXCEPT ![c] = label] /\ pc \in [Callers -> PCs]
    BY DEF Goto, PassInv, TypeOK
  <1>n. a.idem \notin Reached
    BY DEF Fresh, PassInv, KeysApart
  <1>1. TypeOK'
    BY <1>u, <1>a, <1>p DEF PassInv, TypeOK, PCs
  <1>2. LockHeld'
    BY <1>u, <1>t, <1>p DEF PassInv, TypeOK, LockHeld, Running
  <1>3. RecordFollowsRequest'
    <2> SUFFICES ASSUME NEW d \in Callers, Running(d)'
                 PROVE  RecordFollowsRequest!(d)'
      BY <1>u, <1>r DEF RecordFollowsRequest, Running
    <2>1. CASE d = c
      BY <2>1, <1>a, <1>p, <1>u, <1>t, <1>n, <1>r DEF Mine
    <2>2. CASE d # c
      <3>1. Running(d) /\ pc'[d] = pc[d]
        BY <2>2, <1>p DEF Running
      <3>2. date[d] # date[c] /\ date[d] \in Days
        BY <2>2, <3>1, RunningAlone DEF PassInv, TypeOK
      <3>3. Mine(d)' = Mine(d)
        BY <1>a, <1>u, <3>2 DEF Mine
      <3>4. RecordFollowsRequest!(d)
        BY DEF PassInv, RecordFollowsRequest
      <3>5. QED
        BY <1>u, <1>r, <3>1, <3>3, <3>4
    <2>3. QED
      BY <2>1, <2>2
  <1>4. RecordShape'
    BY <1>a, <1>t, <1>r, <1>n DEF PassInv, RecordShape
  <1>5. KeysApart'
    BY <1>a, <1>u, <1>r, <1>t DEF PassInv, KeysApart, Mine, Fresh
  <1>6. DatesAreRight'
    BY <1>u, <1>p, <1>t DEF PassInv, DatesAreRight, Running
  <1>7. ChargeIsOnRecord' /\ UnsettledIsOnRecord'
    <2>1. \A x \in charged \union inflight : x[1] # Mine(c).idem
      BY DEF Reached
    <2>2. QED
      BY <1>a, <1>u, <2>1 DEF PassInv, TypeOK, ChargeIsOnRecord, UnsettledIsOnRecord, Mine
  <1>8. ChargedIsUnlocked' /\ CompletedIsUnlocked'
    BY <1>a, <1>u DEF PassInv, ChargedIsUnlocked, CompletedIsUnlocked
  <1>9. QED
    BY <1>1, <1>2, <1>3, <1>4, <1>5, <1>6, <1>7, <1>8 DEF PassInv

\* The switch on the stored record.
LEMMA EnterInv ==
    ASSUME PassInv, NEW c \in Callers,
           \/ EnterNew(c) \/ EnterRecorded(c) \/ EnterReconcile(c)
           \/ EnterResume(c) \/ EnterRetry(c)
    PROVE  PassInv'
  <1>1. Running(c) /\ date[c] \in Days /\ Mine(c) \in Actions /\ pc[c] = "enter"
    BY DEF EnterNew, EnterRecorded, EnterReconcile, EnterResume, EnterRetry, Running,
           PassInv, TypeOK, Mine
  <1>2. CASE EnterNew(c) \/ EnterRetry(c)
    <2>1. Mine(c).idem \notin Reached
      BY <1>1, <1>2, LedgerAssumption
      DEF EnterNew, EnterRetry, MayRotate, PassInv, TypeOK, RecordShape, KeysApart, Mine
    <2>2. PICK k \in IdemKeys : Fresh(k) /\ Write(c, NewAction(k))
      BY <1>2 DEF EnterNew, EnterRetry, RotateRepeatable
    <2> DEFINE a == NewAction(k)
    <2>3. a \in Actions /\ a.status = "pending" /\ a.idem = k /\ ~a.started /\ k # NoIdem
      BY LedgerAssumption DEF NewAction, Actions, Statuses
    <2> HIDE DEF a
    <2>4. QED
      BY <1>1, <1>2, <2>1, <2>2, <2>3, RecordAndGoOn DEF EnterNew, EnterRetry, a
  <1>3. CASE EnterRecorded(c)
    BY <1>1, <1>3, JustReturn DEF EnterRecorded
  <1>4. CASE EnterReconcile(c)
    <2>1. /\ Mine(c).started /\ pc' = [pc EXCEPT ![c] = "reconcile"]
          /\ UNCHANGED <<today, act, lock, date, reply, late, posted, charged, inflight, unlocked>>
      BY <1>1, <1>4 DEF EnterReconcile, Goto, platform, PassInv, RecordShape, Mine
    <2>2. TypeOK' /\ LockHeld'
      BY <1>1, <2>1 DEF PassInv, TypeOK, LockHeld, Running, PCs
    <2>3. RecordFollowsRequest' /\ DatesAreRight'
      BY <1>1, <2>1 DEF PassInv, TypeOK, RecordFollowsRequest, DatesAreRight, Mine, Reached
    <2>4. RecordShape' /\ KeysApart' /\ ChargeIsOnRecord' /\ ChargedIsUnlocked'
          /\ UnsettledIsOnRecord' /\ CompletedIsUnlocked'
      BY <2>1 DEF PassInv, RecordShape, KeysApart, ChargeIsOnRecord, ChargedIsUnlocked,
                  UnsettledIsOnRecord, CompletedIsUnlocked, Reached
    <2>5. QED
      BY <2>2, <2>3, <2>4 DEF PassInv
  <1>5. CASE EnterResume(c)
    <2>1. Mine(c).status = "pending" /\ ~Mine(c).started
      BY <1>5 DEF EnterResume
    <2>2. Mine(c).idem # NoIdem /\ Mine(c).idem \notin Reached
      BY <1>1, <2>1 DEF PassInv, RecordShape, Mine
    <2>3. Write(c, Mine(c))
      BY <1>1, <1>5 DEF EnterResume, Write, Mine, PassInv, TypeOK
    <2>4. QED
      BY <1>1, <1>5, <2>1, <2>2, <2>3, RecordAndGoOn DEF EnterResume
  <1>6. QED
    BY <1>2, <1>3, <1>4, <1>5

\* The preflight, its failure, the pass that was unlocked already, and the
\* write-ahead of "started".
LEMMA PreflightInv ==
    ASSUME PassInv, NEW c \in Callers,
           PreflightFails(c) \/ Preflight(c) \/ AlreadyUnlocked(c) \/ Start(c)
    PROVE  PassInv'
  <1>1. /\ Running(c) /\ date[c] \in Days /\ Mine(c) \in Actions
        /\ Mine(c).status = "pending" /\ ~Mine(c).started
    BY DEF PreflightFails, Preflight, AlreadyUnlocked, Start, Running,
           PassInv, TypeOK, RecordFollowsRequest, Mine
  <1>2. Mine(c).idem # NoIdem /\ Mine(c).idem \notin Reached
    BY <1>1 DEF PassInv, RecordShape, Mine
  <1>3. CASE PreflightFails(c)
    <2>1. PICK again \in BOOLEAN : Write(c, FailUnstarted(Mine(c), again))
      BY <1>3 DEF PreflightFails
    <2> DEFINE a == FailUnstarted(Mine(c), again)
    <2>2. a \in Actions /\ a.idem = Mine(c).idem /\ a.status = "failed" /\ ~a.started
      BY <1>1 DEF FailUnstarted, Actions, Statuses
    <2> HIDE DEF a
    <2>3. QED
      BY <1>1, <1>2, <1>3, <2>1, <2>2, RecordAndReturn DEF PreflightFails, a
  <1>4. CASE Preflight(c)
    <2> DEFINE a == [Mine(c) EXCEPT !.retryable = FALSE]
    <2>1. /\ a \in Actions /\ a.idem = Mine(c).idem /\ a.status = "pending" /\ ~a.started
      BY <1>1 DEF Actions
    <2>2. Write(c, a) /\ Goto(c, IF PassShown THEN "already" ELSE "start")
          /\ UNCHANGED <<today, lock, date, reply, late, posted, platform>>
      BY <1>4 DEF Preflight
    <2>3. PassShown /\ date[c] \notin late => date[c] \in unlocked
      BY <1>4 DEF Preflight, PassShown, PassInv, DatesAreRight
    <2> HIDE DEF a
    <2>4. CASE PassShown
      BY <1>1, <1>2, <2>1, <2>2, <2>3, <2>4, RecordAndGoOn
    <2>5. CASE ~PassShown
      BY <1>1, <1>2, <2>1, <2>2, <2>5, RecordAndGoOn
    <2>6. QED
      BY <2>4, <2>5
  <1>5. CASE AlreadyUnlocked(c)
    <2> DEFINE a == Complete(Mine(c))
    <2>1. a \in Actions /\ a.idem = Mine(c).idem /\ a.status = "completed" /\ ~a.started
      BY <1>1 DEF Complete, Actions, Statuses
    <2>2. date[c] \notin late => date[c] \in unlocked
      BY <1>5 DEF AlreadyUnlocked, PassInv, RecordFollowsRequest
    <2>3. Write(c, a) /\ Return(c) /\ UNCHANGED <<today, late, posted, platform>>
      BY <1>5 DEF AlreadyUnlocked
    <2> HIDE DEF a
    <2>4. QED
      BY <1>1, <2>1, <2>2, <2>3, RecordAndReturn
  <1>6. CASE Start(c)
    <2> DEFINE a == StartAction(Mine(c))
    <2>1. a \in Actions /\ a.idem = Mine(c).idem /\ a.status = "pending" /\ a.started
      BY <1>1 DEF StartAction, Actions
    <2>2. Write(c, a) /\ Goto(c, "post")
          /\ UNCHANGED <<today, lock, date, reply, late, posted, platform>>
      BY <1>6 DEF Start
    <2> HIDE DEF a
    <2>3. QED
      BY <1>1, <1>2, <2>1, <2>2, RecordAndGoOn
  <1>7. QED
    BY <1>3, <1>4, <1>5, <1>6

\* The outcomes after the post and after a reconciliation.
LEMMA OutcomeInv ==
    ASSUME PassInv, NEW c \in Callers,
           \/ FinishInsufficient(c) \/ FinishUnlocked(c) \/ FinishWithoutProof(c)
           \/ Reconcile(c)
    PROVE  PassInv'
  <1>1. /\ Running(c) /\ date[c] \in Days /\ Mine(c) \in Actions /\ Mine(c).started
        /\ Mine(c).status \in {"pending", "unknown"}
        /\ Return(c) /\ UNCHANGED <<today, late, posted, platform>>
    BY DEF FinishInsufficient, FinishUnlocked, FinishWithoutProof, Reconcile, Running,
           PassInv, TypeOK, RecordFollowsRequest, RecordShape, Mine
  <1>2. PassShown /\ date[c] \notin late => date[c] \in unlocked
    BY <1>1 DEF Running, PassShown, PassInv, DatesAreRight
  <1>3. CASE Write(c, Complete(Mine(c))) /\ PassShown
    <2> DEFINE a == Complete(Mine(c))
    <2>1. a \in Actions /\ a.idem = Mine(c).idem /\ a.status = "completed" /\ ~a.started
      BY <1>1 DEF Complete, Actions, Statuses
    <2> HIDE DEF a
    <2>2. QED
      BY <1>1, <1>2, <1>3, <2>1, RecordAndReturn DEF a
  <1>4. CASE Write(c, LeavePending(Mine(c))) \/ Write(c, LeaveUnknown(Mine(c)))
    <2>1. PICK a \in {LeavePending(Mine(c)), LeaveUnknown(Mine(c))} : Write(c, a)
      BY <1>4
    <2>2. /\ a \in Actions /\ a.idem = Mine(c).idem /\ a.started
          /\ a.status \in {"pending", "unknown"}
      BY <1>1 DEF LeavePending, LeaveUnknown, Actions, Statuses
    <2>3. QED
      BY <1>1, <2>1, <2>2, RecordAndReturn
  <1>5. CASE FinishInsufficient(c)
    <2> DEFINE a == FailUnstarted(Mine(c), TRUE)
    <2>1. Mine(c).idem \notin Reached /\ Write(c, a)
      BY <1>5 DEF FinishInsufficient, PassInv, RecordFollowsRequest
    <2>2. a \in Actions /\ a.idem = Mine(c).idem /\ a.status = "failed" /\ ~a.started
      BY <1>1 DEF FailUnstarted, Actions, Statuses
    <2> HIDE DEF a
    <2>3. QED
      BY <1>1, <2>1, <2>2, RecordAndReturn
  <1>6. QED
    BY <1>3, <1>4, <1>5 DEF FinishUnlocked, FinishWithoutProof, Reconcile

\* The post: only the key on record can become charged or open, and for a
\* request that has not outlived its day the record is the one of today.
LEMMA PostInv ==
    ASSUME PassInv, NEW c \in Callers, Post(c) \/ PostUnauthorized(c)
    PROVE  PassInv'
  <1> DEFINE k == Mine(c).idem
             x == <<k, today>>
  <1>1. /\ Running(c) /\ date[c] \in Days /\ today \in Days
        /\ Mine(c).status = "pending" /\ Mine(c).started
        /\ k \in IdemKeys /\ k \notin Reached
        /\ pc[c] \in {"post", "repost"}
    BY DEF Post, PostUnauthorized, Running, PassInv, TypeOK, RecordFollowsRequest, RecordShape,
           Actions, Mine
  <1>2. /\ UNCHANGED <<today, act, lock, date, late>> /\ posted' = posted \union {k}
        /\ charged' \in {charged, charged \union {x}}
        /\ inflight' \in {inflight, inflight \union {x}}
        /\ unlocked' \in {unlocked, unlocked \union {today}}
        /\ charged' # charged => today \in unlocked'
    BY DEF Post, PostUnauthorized, platform
  <1>3. /\ \E label \in {"repost", "verify"} : pc' = [pc EXCEPT ![c] = label]
        /\ \E r \in Replies : reply' = [reply EXCEPT ![c] = r]
        /\ pc'[c] = "repost" \/ reply'[c] = "insufficient" =>
               charged' = charged /\ inflight' = inflight
    BY DEF Post, PostUnauthorized, platform, Goto, Replies, PassInv, TypeOK
  <1>r. Reached \subseteq Reached' /\ Reached' \subseteq Reached \union {k}
    BY <1>2 DEF Reached
  <1>s. charged' = charged /\ inflight' = inflight => Reached' = Reached
    BY DEF Reached
  <1> HIDE DEF k
  <1>4. TypeOK'
    BY <1>1, <1>2, <1>3 DEF PassInv, TypeOK, PCs
  <1>5. LockHeld'
    BY <1>1, <1>2, <1>3 DEF PassInv, TypeOK, LockHeld, Running
  <1>6. RecordFollowsRequest'
    <2> SUFFICES ASSUME NEW d \in Callers, Running(d)'
                 PROVE  RecordFollowsRequest!(d)'
      BY <1>2 DEF RecordFollowsRequest, Running
    <2>1. CASE d = c
      BY <1>1, <1>2, <1>3, <1>s, <2>1 DEF k, Mine, PassInv, TypeOK
    <2>2. CASE d # c
      <3>1. Running(d) /\ pc'[d] = pc[d] /\ reply'[d] = reply[d]
        BY <2>2, <1>3 DEF Running
      <3>2. date[d] # date[c] /\ date[d] \in Days
        BY <2>2, <3>1, <1>1, RunningAlone DEF PassInv, TypeOK
      <3>3. Mine(d)' = Mine(d) /\ Mine(d).idem # k
        BY <1>1, <1>2, <3>2, LedgerAssumption DEF k, Mine, PassInv, KeysApart
      <3>4. RecordFollowsRequest!(d)
        BY DEF PassInv, RecordFollowsRequest
      <3>5. date[d] \in unlocked => date'[d] \in unlocked'
        BY <1>2
      <3>6. QED
        BY <1>2, <1>r, <3>1, <3>3, <3>4, <3>5
    <2>3. QED
      BY <2>1, <2>2
  <1>7. RecordShape'
    <2> SUFFICES ASSUME NEW d \in Days, act[d].status \in {"pending", "failed"}, ~act[d].started
                 PROVE  act[d].idem \notin Reached'
      BY <1>2 DEF PassInv, RecordShape
    <2>1. d # date[c] /\ act[d].idem # k
      BY <1>1, LedgerAssumption DEF k, Mine, PassInv, KeysApart
    <2>2. QED
      BY <2>1, <1>r DEF PassInv, RecordShape
  <1>8. KeysApart'
    BY <1>2, <1>r DEF PassInv, KeysApart
  <1>9. DatesAreRight'
    BY <1>1, <1>2, <1>3 DEF PassInv, TypeOK, DatesAreRight
  <1>10. ChargeIsOnRecord'
    <2>1. (\A d \in late : d >= today) => act[today].idem = k
      BY <1>1 DEF k, Mine, PassInv, TypeOK, DatesAreRight, Days, Running
    <2>2. QED
      BY <1>2, <2>1 DEF PassInv, ChargeIsOnRecord
  <1>11. ChargedIsUnlocked' /\ CompletedIsUnlocked'
    BY <1>2 DEF PassInv, ChargedIsUnlocked, CompletedIsUnlocked
  <1>12. UnsettledIsOnRecord'
    BY <1>1, <1>2 DEF k, Mine, PassInv, UnsettledIsOnRecord
  <1>13. QED
    BY <1>4, <1>5, <1>6, <1>7, <1>8, <1>9, <1>10, <1>11, <1>12 DEF PassInv

\* Every step of a request.
LEMMA RequestInv ==
    ASSUME PassInv, NEW c \in Callers, Request(c)
    PROVE  PassInv'
  <1>1. CASE GiveUpCall(c)
    BY <1>1, JustReturn DEF GiveUpCall, Running
  <1>2. QED
    BY <1>1, QueueInv, EnterInv, PreflightInv, PostInv, OutcomeInv DEF Request

\* A late charge of an open unlock, or none: the pass of its day is unlocked.
LEMMA ChargeLateInv ==
    ASSUME PassInv, NEW x \in inflight, ChargeLate(x) \/ GiveUp(x)
    PROVE  PassInv'
  <1>1. /\ UNCHANGED <<today, act, lock, pc, date, reply, late, posted>>
        /\ inflight' = inflight \ {x} /\ charged' \in {charged, charged \union {x}}
        /\ unlocked' \in {unlocked, unlocked \union {x[2]}}
        /\ charged' # charged => x[2] \in unlocked'
    BY DEF ChargeLate, GiveUp, calls
  <1>2. Reached' \subseteq Reached /\ x[1] \in IdemKeys /\ x[2] \in Days
    BY <1>1 DEF Reached, PassInv, TypeOK
  <1>3. TypeOK' /\ LockHeld' /\ DatesAreRight'
    BY <1>1, <1>2 DEF PassInv, TypeOK, LockHeld, DatesAreRight, Running
  <1>4. RecordFollowsRequest' /\ RecordShape' /\ KeysApart'
    BY <1>1, <1>2 DEF PassInv, RecordFollowsRequest, RecordShape, KeysApart, Mine
  <1>5. ChargeIsOnRecord' /\ ChargedIsUnlocked' /\ UnsettledIsOnRecord' /\ CompletedIsUnlocked'
    BY <1>1 DEF PassInv, ChargeIsOnRecord, ChargedIsUnlocked, UnsettledIsOnRecord, CompletedIsUnlocked
  <1>6. QED
    BY <1>3, <1>4, <1>5 DEF PassInv

\* Midnight, a crash, and the user unlocking the pass elsewhere.
LEMMA EnvironmentInv ==
    ASSUME PassInv, Midnight \/ Crash \/ UnlockElsewhere
    PROVE  PassInv'
  <1>1. CASE Midnight
    <2>1. /\ today < LastDay /\ today' = today + 1
          /\ UNCHANGED <<act, lock, pc, date, reply, posted, charged, inflight, unlocked>>
          /\ late' = late \union {date[c] : c \in {c \in Callers : pc[c] # "idle"}}
      BY <1>1 DEF Midnight, calls, platform
    <2>2. Reached' = Reached
      BY <2>1 DEF Reached
    <2>l. /\ \A c \in Callers : pc[c] # "idle" => date[c] \in late'
          /\ \A d \in late' : d \in Days /\ d <= today
          /\ late \subseteq late'
      <3>1. \A c \in Callers : date[c] \in Days /\ (pc[c] # "idle" => date[c] <= today)
        BY DEF PassInv, TypeOK, DatesAreRight, Days
      <3>2. late \subseteq Days /\ \A d \in late : d <= today
        BY DEF PassInv, TypeOK, DatesAreRight, Days
      <3>3. QED
        BY <2>1, <3>1, <3>2
    <2>t. today' \in Days
      BY <2>1, PassAssumption DEF PassInv, TypeOK, Days
    <2>3. TypeOK' /\ LockHeld'
      BY <2>1, <2>l, <2>t DEF PassInv, TypeOK, LockHeld, Running
    <2>4. DatesAreRight'
      BY <2>1, <2>l DEF PassInv, TypeOK, DatesAreRight, Days
    <2>5. RecordFollowsRequest' /\ RecordShape' /\ KeysApart'
      BY <2>1, <2>2 DEF PassInv, RecordFollowsRequest, RecordShape, KeysApart, Mine
    <2>6. ChargeIsOnRecord' /\ ChargedIsUnlocked' /\ UnsettledIsOnRecord' /\ CompletedIsUnlocked'
      BY <2>1 DEF PassInv, ChargeIsOnRecord, ChargedIsUnlocked, UnsettledIsOnRecord, CompletedIsUnlocked
    <2>7. QED
      BY <2>3, <2>4, <2>5, <2>6 DEF PassInv
  <1>2. CASE Crash
    BY <1>2, PassAssumption
    DEF Crash, platform, PCs, Replies, PassInv, TypeOK, LockHeld, Running, RecordFollowsRequest,
        RecordShape, KeysApart, DatesAreRight, ChargeIsOnRecord, ChargedIsUnlocked,
        UnsettledIsOnRecord, CompletedIsUnlocked, Reached
  <1>3. CASE UnlockElsewhere
    BY <1>3
    DEF UnlockElsewhere, calls, PassInv, TypeOK, LockHeld, Running, RecordFollowsRequest, Mine,
        RecordShape, KeysApart, DatesAreRight, ChargeIsOnRecord, ChargedIsUnlocked,
        UnsettledIsOnRecord, CompletedIsUnlocked, Reached
  <1>4. QED
    BY <1>1, <1>2, <1>3

LEMMA NextPassInv == PassInv /\ [Next]_vars => PassInv'
  <1> SUFFICES ASSUME PassInv, [Next]_vars PROVE PassInv'
    OBVIOUS
  <1>1. CASE UNCHANGED vars
    BY <1>1 DEF vars, PassInv, TypeOK, LockHeld, Running, RecordFollowsRequest, Mine,
                RecordShape, KeysApart, DatesAreRight, ChargeIsOnRecord, ChargedIsUnlocked,
                UnsettledIsOnRecord, CompletedIsUnlocked, Reached
  <1>2. QED
    BY <1>1, RequestInv, ChargeLateInv, EnvironmentInv DEF Next

(***************************************************************************)
(* DailyPass keeps its invariant under concurrent requests, midnight,      *)
(* crashes, failed writes, lost replies and late charges.                  *)
(***************************************************************************)
THEOREM PassInvariant == Spec => []PassInv
  BY InitPassInv, NextPassInv, PTL DEF Spec

(***************************************************************************)
(* At most one key is charged for the pass of a day, unless a request of   *)
(* an earlier date runs into that day: the record of the day names the one *)
(* key that can be charged for it.                                         *)
(***************************************************************************)
THEOREM PassPaidOnceADay == Spec => []OnePassADay
  <1>1. PassInv => OnePassADay
    <2> SUFFICES ASSUME PassInv, NEW x \in charged, NEW y \in charged, x[2] = y[2],
                        \A d \in late : d >= x[2]
                 PROVE  x = y
      BY DEF OnePassADay
    <2>1. x[1] = y[1]
      BY DEF PassInv, ChargeIsOnRecord
    <2>2. x \in IdemKeys \X Days /\ y \in IdemKeys \X Days
      BY DEF PassInv, TypeOK
    <2>3. QED
      BY <2>1, <2>2
  <1>2. QED
    BY <1>1, PassInvariant, PTL

(***************************************************************************)
(* An unlock that may still be charged is on record under its own key,     *)
(* started or completed, in every state, crashes included.                 *)
(***************************************************************************)
THEOREM OpenUnlockIsOnRecord == Spec => []UnsettledIsOnRecord
  <1>1. PassInv => UnsettledIsOnRecord
    BY DEF PassInv
  <1>2. QED
    BY <1>1, PassInvariant, PTL

(***************************************************************************)
(* A record whose requests stayed within its day says "completed" only of  *)
(* an unlocked pass.                                                       *)
(***************************************************************************)
THEOREM CompletedPassIsUnlocked == Spec => []CompletedIsUnlocked
  <1>1. PassInv => CompletedIsUnlocked
    BY DEF PassInv
  <1>2. QED
    BY <1>1, PassInvariant, PTL

(***************************************************************************)
(* The key of a record is replaced only by EnterNew and EnterRetry, and    *)
(* both find a record under which nothing was or will be charged.          *)
(***************************************************************************)
THEOREM PassKeyDiscipline == Spec => KeyReplacedOnlyUncharged
  <1> DEFINE Discipline == \A d \in Days : act'[d].idem # act[d].idem => act[d].idem \notin Reached
  <1>1. PassInv /\ [Next]_vars => [Discipline]_vars
    <2> SUFFICES ASSUME PassInv, Next, NEW d \in Days, act'[d].idem # act[d].idem
                 PROVE  act[d].idem \notin Reached
      BY DEF vars
    <2>1. act \in [Days -> Actions] /\ date \in [Callers -> Days]
      BY DEF PassInv, TypeOK
    <2>2. PICK c \in Callers : Request(c)
      BY DEF Next, ChargeLate, GiveUp, Midnight, Crash, UnlockElsewhere
    <2>3. EnterNew(c) \/ EnterRetry(c)
      <3>1. act' # act
        OBVIOUS
      <3>2. \A a : Write(c, a) => a.idem # Mine(c).idem
        BY <2>1 DEF Write, Mine
      <3>m. Mine(c) \in Actions
        BY <2>1 DEF Mine
      <3>3. CASE PreflightFails(c) \/ Preflight(c) \/ AlreadyUnlocked(c) \/ Start(c)
        BY <3>m, <3>2, <3>3, UpdatesKeepTheKey
        DEF PreflightFails, Preflight, AlreadyUnlocked, Start
      <3>4. CASE \/ FinishInsufficient(c) \/ FinishUnlocked(c) \/ FinishWithoutProof(c)
                 \/ Reconcile(c)
        BY <3>m, <3>2, <3>4, UpdatesKeepTheKey
        DEF FinishInsufficient, FinishUnlocked, FinishWithoutProof, Reconcile
      <3>5. QED
        BY <2>2, <3>1, <3>3, <3>4
        DEF Request, Call, TakeLock, EnterRecorded, EnterReconcile, EnterResume, Post,
            PostUnauthorized, GiveUpCall
    <2>4. d = date[c]
      BY <2>1, <2>3 DEF EnterNew, EnterRetry, Write
    <2>5. CASE EnterNew(c)
      BY <2>4, <2>5, LedgerAssumption
      DEF EnterNew, Mine, PassInv, TypeOK, RecordShape, KeysApart
    <2>6. CASE EnterRetry(c)
      BY <2>4, <2>6 DEF EnterRetry, MayRotate, Mine, PassInv, RecordShape
    <2>7. QED
      BY <2>3, <2>5, <2>6
  <1>2. QED
    BY <1>1, PassInvariant, PTL DEF Spec, KeyReplacedOnlyUncharged
===============================================================================
