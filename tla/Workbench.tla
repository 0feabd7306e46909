------------------------------ MODULE Workbench ------------------------------
(***************************************************************************)
(* The process: requests that pass the gate (AdminSessions) into the       *)
(* handlers of one account, beside the scheduler.                          *)
(*                                                                         *)
(*   draw     handleDrawAction    ManualDraw, under the lock table         *)
(*   plan     executePlan         the same without a request               *)
(*   claim    handleClaimAction   DailyClaim, under its own action lock    *)
(*   toggle   handleAutoTaskToggle, put   handleAutoTasksPut: ScheduleEdits *)
(*   login, logout, page          the handlers of the sessions, and a page *)
(*                                                                         *)
(* The draws a claim adds are those a draw uses: DailyClaim and ManualDraw *)
(* share `left`.  Every goroutine of a handler and every lock ends with    *)
(* the process; the record, the plan, the list of tasks and the log stay.  *)
(***************************************************************************)
EXTENDS AdminSessions, ManualDraw, ScheduleEdits

CONSTANTS Mixes      \* bound: which kinds each goroutine serves in a behaviour

Kinds == {"draw", "plan", "claim", "toggle", "put", "login", "logout", "page"}

ASSUME WorkbenchAssumption ==
    /\ Requests = Threads
    /\ Editors = Threads
    /\ Mixes \subseteq [Threads -> SUBSET Kinds]

VARIABLE mix         \* the member of Mixes this behaviour is about

vars == <<mix, sessionVars, lockVars, claimVars, drawVars, taskVars>>

\* Bound: what no request of the behaviour is about stays as it is.
About(kinds) == \E r \in Requests : mix[r] \intersect kinds # {}

Init ==
    /\ mix \in Mixes
    /\ SessionInit /\ LockInit /\ ClaimInit /\ DrawInit /\ EditInit
    /\ About({"draw", "plan", "claim"}) \/ left = 0
    /\ About({"toggle", "put"}) \/ DOMAIN tasks = {}

------------------------------------------------------------------------------
\* What stays as it is while one part takes a step.
OtherThanSessions == UNCHANGED <<mix, lockVars, claimVars, drawVars, taskVars>>
OtherThanDraws == UNCHANGED <<mix, sessionVars, taskVars>>
OtherThanClaims == UNCHANGED <<mix, sessionVars, lockVars, drawVars, taskVars>>
OtherThanTasks == UNCHANGED <<mix, lockVars, claimVars, drawVars>>

Serves(r, kind) == at[r] = "handler" /\ req[r].kind = kind
SessionsKept == UNCHANGED <<sessions, jar, sessionHistory>>

\* The handler writes its answer; what the gate has put into it stays.
Respond(r) == Answer(r) /\ UNCHANGED req /\ SessionsKept

\* A request reaches the process, passes the gate or does not, and is answered.
\* Bound: where nobody logs in, only scripts ask, and a draw is asked for while
\* there is a key for it.
Ask(r) ==
    /\ \E kind \in mix[r] \ {"plan"}, basic \in BOOLEAN :
        /\ About({"login"}) \/ basic
        /\ kind = "draw" => \E k \in DrawKeys : Fresh(k)
        /\ SendRequest(r, kind, basic)
    /\ OtherThanSessions
Front(r) == (Gate(r) \/ Session(r)) /\ OtherThanSessions

\* handleDrawAction.
StartDraw(r) ==
    /\ Serves(r, "draw") /\ BeginClick(r)
    /\ OtherThanDraws
EndDraw(r) ==
    /\ Serves(r, "draw") /\ (WriteRow(r) \/ NoRow(r))
    /\ Respond(r)
    /\ UNCHANGED <<mix, taskVars>>

\* A tick of the scheduler, in a goroutine of its own.
StartPlan(r) ==
    /\ "plan" \in mix[r] /\ at[r] = "idle" /\ BeginPlan(r)
    /\ at' = [at EXCEPT ![r] = "handler"]
    /\ req' = [req EXCEPT ![r].kind = "plan"]
    /\ SessionsKept /\ UNCHANGED <<mix, taskVars>>
EndPlan(r) ==
    /\ Serves(r, "plan") /\ (WriteRow(r) \/ NoRow(r))
    /\ Forgotten(r)
    /\ SessionsKept /\ UNCHANGED <<mix, taskVars>>

Draw(r) == DrawCall(r) /\ OtherThanDraws

\* handleClaimAction: the call takes the lock, runs and returns.
Claim(r) ==
    /\ Serves(r, "claim") /\ ClaimCall(r)
    /\ IF claimAt'[r] = "idle" THEN Respond(r) ELSE UNCHANGED sessionVars
    /\ UNCHANGED <<mix, lockVars, drawVars, taskVars>>

\* handleAutoTasksPut and handleAutoTaskToggle.
Put(r) == Serves(r, "put") /\ PutStep(r) /\ Respond(r) /\ OtherThanTasks
Switch(r) ==
    /\ Serves(r, "toggle") /\ SwitchStep(r)
    /\ IF draft'[r] = NoDraft THEN Respond(r) ELSE UNCHANGED sessionVars
    /\ OtherThanTasks

Serve(r) ==
    \/ Ask(r) \/ Front(r)
    \/ StartDraw(r) \/ EndDraw(r) \/ StartPlan(r) \/ EndPlan(r) \/ Draw(r)
    \/ Claim(r) \/ Put(r) \/ Switch(r)

\* The platform and the clock.  DailyClaim is about one day.
Platform ==
    /\ About({"draw", "plan", "claim"})
    /\ \/ (ArriveLate \/ NeverArrives \/ OtherGrant) /\ OtherThanClaims
       \/ (QueuedDraw \/ DrawElsewhere) /\ OtherThanDraws
       \/ ~About({"claim"}) /\ Midnight /\ OtherThanDraws
TimePasses == About({"login", "page"}) /\ Tick /\ OtherThanSessions

\* The process ends and is started again.
Restart ==
    /\ SessionsLost /\ DrawsLost /\ ClaimCrash /\ EditsLost
    /\ UNCHANGED mix

Next == (\E r \in Requests : Serve(r)) \/ Platform \/ TimePasses \/ Restart

Spec == Init /\ [][Next]_vars

------------------------------------------------------------------------------
(***************************************************************************)
(* Fairness.  A goroutine inside DrawAvailable goes on: its requests to    *)
(* the platform have deadlines, so that each of its steps is taken, with   *)
(* some result.  sync.Mutex hands the lock over to a waiter that has       *)
(* waited for a millisecond: a waiter that finds it free again and again   *)
(* gets it.  Nothing is assumed of clients, the platform or the clock.     *)
(***************************************************************************)
Fairness ==
    \A r \in Requests :
        /\ WF_<<step, pc>>(step[r] # "none" /\ pc[r] # "waiting" /\ DrawCall(r))
        /\ SF_pc(TakeDrawLock(r))

FairSpec == Spec /\ Fairness

------------------------------------------------------------------------------
\* The parts agree on who does what: a draw, a claim or a switch under way
\* belongs to a request of its kind that waits for the handler.
PartsAgree ==
    \A r \in Requests :
        /\ step[r] # "none" => Serves(r, "draw") \/ Serves(r, "plan")
        /\ claimAt[r] # "idle" => Serves(r, "claim")
        /\ draft[r] # NoDraft => Serves(r, "toggle")

\* The invariants of the parts hold while they share the process, the request
\* goroutines and the remaining draws.
WorkbenchInv ==
    /\ SessionInv /\ DrawInv /\ EditInv
    /\ LockInv /\ ClaimInv
    /\ PartsAgree
==============================================================================
