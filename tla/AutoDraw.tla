------------------------------- MODULE AutoDraw -------------------------------
(***************************************************************************)
(* The auto-task scheduler: AutoDrawScheduler of internal/service/         *)
(* auto_draw.go with the plans of internal/state/store.go, for one account *)
(* whose owner switches entries and the account on and off, in a service   *)
(* that stops, crashes and restarts while the clock runs.                  *)
(*                                                                         *)
(* A tick prunes old plans, makes today's missing plans with a fresh       *)
(* idempotency key each, and runs the due ones in the order of their       *)
(* times: begin (persisted), check that account and entry are still on,    *)
(* run the task, finish (persisted).  The date and the time of a tick are  *)
(* read once, at its start.  The runtime log, written last, is left out.   *)
(*                                                                         *)
(* The tasks themselves are abstracted to the outcomes that DrawAvailable, *)
(* ClaimDaily and Checkin return to the scheduler.                         *)
(***************************************************************************)
EXTENDS ScheduleTime

CONSTANTS
    Entries,     \* the account's schedule entries
    Task,        \* [Entries -> {"draw", "claim", "checkin"}]
    Kind,        \* [Entries -> {"fixed", "random"}]
    StartAt,     \* [Entries -> 0 .. Day - 1]
    EndAt,       \* [Entries -> 0 .. Day - 1], for random entries
    RetentionDays, \* autoDrawRetentionDays, seven in the code
    Horizon,     \* bound on the clock
    MaxTick,     \* bound on the time a tick takes
    MaxEvents    \* bound on crashes, failed writes, stops and switches

ASSUME AutoDrawAssumption ==
    /\ Task \in [Entries -> {"draw", "claim", "checkin"}]
    /\ Kind \in [Entries -> {"fixed", "random"}]
    /\ StartAt \in [Entries -> 0 .. Day - 1]
    /\ EndAt \in [Entries -> 0 .. Day - 1]
    /\ RetentionDays \in Nat \ {0}
    /\ {Horizon, MaxTick, MaxEvents} \subseteq Nat

Days == 0 .. DayOf(Horizon)
Plans == Days \X Entries

VARIABLES
    now,         \* the clock
    up,          \* "down", "up", or "stopping": the context is cancelled
    account,     \* the account is enabled
    on,          \* entries present and enabled
    plan,        \* the persisted plans
    pc,          \* where the scheduler is
    tickAt,      \* `now` of the current tick
    todo,        \* entries whose plan this tick has still to execute
    cur,         \* the plan being executed
    posted,      \* history: keys the draws of a plan left the process with
    outcome,     \* history: what the execution of a completed plan came to,
                 \* "done", a dead session ("reauth"), or "other"
    events,      \* crashes, failed writes, stops and switches so far
    steady       \* history: a tick in every unit of time and none of these

owner == <<account, on>>
history == <<posted, outcome, events, steady>>
tick == <<pc, tickAt, todo, cur>>
vars == <<now, up, account, on, plan, pc, tickAt, todo, cur, posted, outcome, events, steady>>

Terminal == {"completed", "skipped", "failed"}
NoPlan == [status |-> "none", at |-> 0, key |-> 0]
Nowhere == <<0, CHOOSE e \in Entries : TRUE>>
Today == DayOf(tickAt)

Init ==
    /\ now = 0
    /\ up = "up"
    /\ account = TRUE
    /\ on = Entries
    /\ plan = [p \in Plans |-> NoPlan]
    /\ pc = "idle"
    /\ tickAt = -1
    /\ todo = {}
    /\ cur = Nowhere
    /\ posted = {}
    /\ outcome = [p \in Plans |-> "none"]
    /\ events = 0
    /\ steady = TRUE

------------------------------------------------------------------------------
\* A write of the state file fails, the process crashes, somebody intervenes.
Event == events < MaxEvents /\ events' = events + 1 /\ steady' = FALSE

\* Tick: nothing starts once the context is cancelled.  PruneAutoDrawData
\* drops plans by date and by planned time.
Old(p) ==
    \/ plan[p].status # "none" /\ p[1] < DayOf(now - RetentionDays * Day)
    \/ plan[p].status # "none" /\ plan[p].at < now - RetentionDays * Day

Pruned(p) == [NoPlan EXCEPT !.key = plan[p].key]

Tick ==
    /\ up = "up"
    /\ pc = "idle"
    /\ pc' = "ensure"
    /\ tickAt' = now
    /\ plan' = [p \in Plans |-> IF Old(p) THEN Pruned(p) ELSE plan[p]]
    /\ UNCHANGED <<now, up, owner, todo, cur, history>>

Times(e) ==
    IF Kind[e] = "fixed" THEN FixedTimes(Today, StartAt[e], tickAt)
    ELSE RandomTimes(Today, StartAt[e], EndAt[e], tickAt)

Claims == {e \in Entries : Task[e] = "claim"}
ClaimPlanned == \E e \in Claims : plan[<<Today, e>>].status # "none"

Missing ==
    {e \in on : account /\ plan[<<Today, e>>].status = "none" /\ Times(e) # {}}

\* Mutant of NewPlans: claimScheduled is not consulted.
NewPlansAllClaims == {Missing}

\* The entries that get a plan now; of the claims only the first one, in the
\* order of their start, and none if today has a claim plan already.
NewPlans ==
    LET claims == IF ClaimPlanned THEN {} ELSE Missing \intersect Claims
        first == {e \in claims : \A f \in claims : StartAt[e] <= StartAt[f]}
    IN  IF first = {} THEN {Missing \ Claims}
        ELSE {(Missing \ Claims) \union {e} : e \in first}

\* Mutant of Due: a plan whose retry time has come is due, finished or not.
DueAgain(r) == r.status # "none" /\ r.at <= tickAt

\* Mutant of Due: a plan left running is nobody's any more.
DueOnlyPending(r) == r.status = "pending" /\ r.at <= tickAt

\* The plans a tick executes.  It reads them once; nobody but the tick itself
\* changes a plan afterwards.
Due(r) == r.status \in {"pending", "running"} /\ r.at <= tickAt

\* ensurePlans: EnsureAutoDrawPlans inserts the missing plans, all or none.
\* Keys are random; here they number the keys that were made for the plan.
Ensure ==
    /\ pc = "ensure"
    /\ \E new \in NewPlans :
        /\ \E at \in [new -> Today * Day .. (Today + 1) * Day] :
            /\ \A e \in new : at[e] \in Times(e)
            /\ plan' = [p \in Plans |->
                    IF p[1] = Today /\ p[2] \in new
                    THEN [status |-> "pending", at |-> at[p[2]], key |-> plan[p].key + 1]
                    ELSE plan[p]]
    /\ todo' = {e \in Entries : Due(plan'[<<Today, e>>])}
    /\ pc' = "loop"
    /\ UNCHANGED <<now, up, owner, tickAt, cur, history>>

\* The insertion could not be written: the tick ends.
EnsureFails ==
    /\ Event
    /\ pc = "ensure"
    /\ pc' = "idle"
    /\ UNCHANGED <<now, up, owner, plan, tickAt, todo, cur, posted, outcome>>

\* AutoDrawPlans sorts by planned time.
Earliest(e) == e \in todo /\ \A f \in todo : plan[<<Today, e>>].at <= plan[<<Today, f>>].at

\* Mutant of Begin: every execution gets a key of its own.
BeginNewKey(e) ==
    /\ up = "up"
    /\ pc = "loop"
    /\ Earliest(e)
    /\ cur' = <<Today, e>>
    /\ plan' = [plan EXCEPT ![<<Today, e>>].status = "running", ![<<Today, e>>].key = @ + 1]
    /\ todo' = todo \ {e}
    /\ pc' = "gate"
    /\ UNCHANGED <<now, up, owner, tickAt, history>>

\* executePlan: take the plan lock and BeginAutoDrawPlan.  A plan left running
\* by an earlier process begins again, with its key.
Begin(e) ==
    /\ up = "up"
    /\ pc = "loop"
    /\ Earliest(e)
    /\ cur' = <<Today, e>>
    /\ plan' = [plan EXCEPT ![<<Today, e>>].status = "running"]
    /\ todo' = todo \ {e}
    /\ pc' = "gate"
    /\ UNCHANGED <<now, up, owner, tickAt, history>>

BeginFails(e) ==
    /\ Event
    /\ up = "up"
    /\ pc = "loop"
    /\ Earliest(e)
    /\ todo' = todo \ {e}
    /\ UNCHANGED <<now, up, owner, plan, pc, tickAt, cur, posted, outcome>>

EndTick ==
    /\ pc = "loop"
    /\ todo = {}
    /\ pc' = "idle"
    /\ cur' = Nowhere
    /\ UNCHANGED <<now, up, owner, plan, tickAt, todo, history>>

------------------------------------------------------------------------------
Class(what) ==
    CASE what = "done" -> "done"
      [] what \in {"reauth", "reauthNoted"} -> "reauth"
      [] OTHER -> "other"

\* FinishAutoDrawPlan does not look at the status it replaces.
FinishPlan(status, what) ==
    /\ plan' = [plan EXCEPT ![cur].status = status]
    /\ outcome' = [outcome EXCEPT ![cur] = IF status = "completed" THEN Class(what) ELSE "none"]
    /\ pc' = "loop"

On == account /\ cur[2] \in on

\* The account or the entry was switched off after planning.
FinishOff ==
    /\ pc = "gate"
    /\ ~On
    /\ FinishPlan("skipped", "off")
    /\ UNCHANGED <<now, up, owner, tickAt, todo, cur, posted, events, steady>>

Pass ==
    /\ pc = "gate"
    /\ On
    /\ pc' = "run"
    /\ posted' = IF Task[cur[2]] = "draw" THEN posted \union {<<cur, plan[cur].key>>} ELSE posted
    /\ UNCHANGED <<now, up, owner, plan, tickAt, todo, cur, outcome, events, steady>>

\* What the tasks return.  "reauth" is ErrReauthRequired as an error,
\* "reauthNoted" the same on the returned action; "inactive" is a check-in
\* refused for want of activity; "cancelledInBroker" is a cancelled context
\* that the broker reports as ErrAuthUnavailable (broker.go, %v).
DrawOutcomes == {"done", "nothingToDraw", "reauth", "error"}
ClaimOutcomes == {"done", "reauth", "error", "reauthNoted", "failed", "unknown"}
CheckinOutcomes == {"done", "error", "reauthNoted", "failed", "unknown"}

Outcomes(task) ==
    CASE task = "draw" -> DrawOutcomes
      [] task = "claim" -> ClaimOutcomes
      [] task = "checkin" -> CheckinOutcomes

\* Mutant of TaskResult: a draw that reports an error counts as done.
TaskResultErrorDone(task, what) ==
    IF task = "draw" /\ what = "error" THEN "completed" ELSE "failed"

\* Mutant of TaskResult: the status is not normalized to a terminal one.
TaskResultRaw(task, what) == what

\* autoTaskExecutionResult and executeCheckinPlan.  A claim is completed
\* unless it returned an error: its action is not looked at.
TaskResult(task, what) ==
    CASE what = "done" -> "completed"
      [] what \in {"nothingToDraw", "reauth"} -> "skipped"
      [] what \in {"error", "cancelledInBroker"} -> "failed"
      [] task = "claim" -> "completed"
      [] task = "checkin" /\ what = "reauthNoted" -> "skipped"
      [] task = "checkin" -> "failed"

Finish ==
    /\ pc = "run"
    /\ \E what \in Outcomes(Task[cur[2]]) : FinishPlan(TaskResult(Task[cur[2]], what), what)
    /\ UNCHANGED <<now, up, owner, tickAt, todo, cur, posted, events, steady>>

\* The service is stopping and the draw, or the reconciliation of an open claim,
\* returns context.Canceled: the plan stays running.  A new claim and a check-in
\* note the error on their action instead.
Interrupted ==
    /\ pc = "run"
    /\ up = "stopping"
    /\ Task[cur[2]] \in {"draw", "claim"}
    /\ pc' = "loop"
    /\ UNCHANGED <<now, up, owner, plan, tickAt, todo, cur, history>>

InterruptedInBroker ==
    /\ pc = "run"
    /\ up = "stopping"
    /\ Task[cur[2]] = "draw"
    /\ FinishPlan(TaskResult("draw", "cancelledInBroker"), "cancelledInBroker")
    /\ UNCHANGED <<now, up, owner, tickAt, todo, cur, posted, events, steady>>

\* postponeCheckinPlan: skip for today, or retry in an hour.
FinishInactive ==
    /\ pc = "run"
    /\ Task[cur[2]] = "checkin"
    /\ GivesUp(now)
    /\ FinishPlan("skipped", "gaveUp")
    /\ UNCHANGED <<now, up, owner, tickAt, todo, cur, posted, events, steady>>

Postpone ==
    /\ pc = "run"
    /\ Task[cur[2]] = "checkin"
    /\ ~GivesUp(now)
    /\ plan' = [plan EXCEPT ![cur].status = "pending", ![cur].at = now + Hour]
    /\ pc' = "loop"
    /\ UNCHANGED <<now, up, owner, tickAt, todo, cur, history>>

\* The result could not be written: the plan stays running until a later tick.
FinishFails ==
    /\ Event
    /\ pc \in {"gate", "run"}
    /\ pc = "gate" => ~On
    /\ pc' = "loop"
    /\ UNCHANGED <<now, up, owner, plan, tickAt, todo, cur, posted, outcome>>

------------------------------------------------------------------------------
\* The clock may run at any point of a tick.
Advance ==
    /\ now < Horizon
    /\ pc # "idle" => now - tickAt < MaxTick
    /\ now' = now + 1
    /\ steady' = (steady /\ pc = "idle" /\ tickAt = now)
    /\ UNCHANGED <<up, owner, plan, tick, posted, outcome, events>>

Switch ==
    /\ Event
    /\ \/ account' = ~account /\ UNCHANGED on
       \/ \E e \in Entries :
            on' = (IF e \in on THEN on \ {e} ELSE on \union {e}) /\ UNCHANGED account
    /\ UNCHANGED <<now, up, plan, tick, posted, outcome>>

Stop ==
    /\ up = "up"
    /\ Event
    /\ up' = "stopping"
    /\ UNCHANGED <<now, owner, plan, tick, posted, outcome>>

\* The process ends: by itself between two plans once it is stopping, or by a
\* crash anywhere.
Down ==
    /\ up # "down"
    /\ \/ Event
       \/ up = "stopping" /\ pc \in {"idle", "loop"} /\ UNCHANGED <<events, steady>>
    /\ up' = "down"
    /\ pc' = "idle"
    /\ todo' = {}
    /\ cur' = Nowhere
    /\ tickAt' = -1
    /\ UNCHANGED <<now, owner, plan, posted, outcome>>

Restart ==
    /\ up = "down"
    /\ up' = "up"
    /\ UNCHANGED <<now, owner, plan, tick, history>>

Scheduler ==
    \/ Tick \/ Ensure \/ EndTick
    \/ \E e \in Entries : Begin(e)
    \/ FinishOff \/ Pass \/ Finish \/ FinishInactive \/ Postpone

Next ==
    \/ Scheduler
    \/ EnsureFails \/ FinishFails
    \/ \E e \in Entries : BeginFails(e)
    \/ Interrupted \/ InterruptedInBroker
    \/ Advance \/ Switch \/ Stop \/ Down \/ Restart

Spec == Init /\ [][Next]_vars

\* Run ticks until the process ends, and every task returns within its two
\* minutes.
FairSpec == Spec /\ WF_vars(Scheduler)

------------------------------------------------------------------------------
PlanStatuses == {"none", "pending", "running"} \union Terminal

TypeOK ==
    /\ now \in 0 .. Horizon
    /\ up \in {"down", "up", "stopping"}
    /\ account \in BOOLEAN
    /\ on \in SUBSET Entries
    /\ plan \in [Plans -> [status : PlanStatuses, at : Nat, key : Nat]]
    /\ pc \in {"idle", "ensure", "loop", "gate", "run"}
    /\ tickAt \in -1 .. now
    /\ todo \in SUBSET Entries
    /\ cur \in Plans \union {Nowhere}
    /\ posted \subseteq Plans \X Nat
    /\ outcome \in [Plans -> {"none", "done", "reauth", "other"}]
    /\ events \in 0 .. MaxEvents
    /\ steady \in BOOLEAN

\* "Every plan executes only once, and nothing is drawn again after a restart"
\* (2026-08-08-random-auto-draw-log-design.md:3): however often a plan is begun
\* again after crashes, stops and failed writes, its draws carry one key, so
\* that the platform draws once.
OneKeyPerPlan ==
    \A x, y \in posted : x[1] = y[1] => x[2] = y[2]

\* A finished plan keeps its result: FinishAutoDrawPlan overwrites whatever it
\* finds, so this rests on the order of ticks, restarts and postponements.
FinishedStaysFinished ==
    [][\A p \in Plans : plan[p].status \in Terminal => plan'[p] \in {plan[p], Pruned(p)}]_vars

\* However the owner switches the entries, at most one claim is planned a day.
OneClaimPlanADay ==
    \A d \in Days, e, f \in Claims :
        plan[<<d, e>>].status # "none" /\ plan[<<d, f>>].status # "none" => e = f

\* A completed draw or check-in plan is one whose task was done, whatever was
\* interrupted, postponed or begun again before.
CompletedTasksWereDone ==
    \A p \in Plans :
        plan[p].status = "completed" /\ Task[p[2]] # "claim" => outcome[p] = "done"

\* Again and again nothing is overdue while the service runs: no tick passes
\* over a due plan, and no plan left running by a crash, a stop or a failed
\* write is forgotten while its day lasts.
Overdue ==
    \E p \in Plans :
        p[1] = DayOf(now) /\ plan[p].status \in {"pending", "running"} /\ plan[p].at <= now
DuePlansSettle == []<>(up # "up" \/ ~Overdue)

\* A random entry runs inside its window, wherever in the window the service
\* came up: the offset is drawn from what is left of it.
PlannedInsideWindow ==
    \A p \in Plans :
        plan[p].status # "none" /\ Kind[p[2]] = "random" /\ Task[p[2]] # "checkin" =>
            /\ p[1] * Day + StartAt[p[2]] <= plan[p].at
            /\ plan[p].at < p[1] * Day + EndAt[p[2]]

\* A tick visits the plans of its own day only, so a plan whose time lies on
\* another day would never be settled: no planning and no chain of
\* postponements carries one there, as long as ticks do not straddle midnight.
PlansStayInTheirDay ==
    steady => \A p \in Plans : plan[p].status # "none" => DayOf(plan[p].at) = p[1]

\* A service that ticks in every unit of time has a plan for every fixed entry
\* whose time has come.  (At 00:00 no tick finds the time still ahead, and the
\* entry is never planned.)
FixedIsPlanned ==
    steady /\ pc = "idle" /\ tickAt = now =>
        \A e \in on : Kind[e] = "fixed" /\ Task[e] # "claim"
                      /\ StartAt[e] \in 1 .. tickAt - Today * Day =>
            plan[<<Today, e>>].status # "none"

\* Plans have a time of their own day and window, and are not left out.
PlanInv == TypeOK /\ PlannedInsideWindow /\ PlansStayInTheirDay /\ FixedIsPlanned

------------------------------------------------------------------------------
\* README.md:12 and 2026-08-29-account-workbench-refactor-functional-design.md:
\* 139: a plan that met a dead session is recorded skipped or failed.
ReauthIsNotCompleted ==
    \A p \in Plans : plan[p].status = "completed" => outcome[p] # "reauth"

------------------------------------------------------------------------------
(***************************************************************************)
(* The inductive invariant behind the properties above.                    *)
(***************************************************************************)
\* The plan a tick executes is running, those it has still to execute are
\* not finished, and all of them are plans of its day.
TickInStep ==
    /\ pc # "idle" => tickAt >= 0
    /\ pc \in {"idle", "ensure"} => todo = {}
    /\ \A e \in todo : plan[<<Today, e>>].status \in {"pending", "running"}
    /\ pc \in {"gate", "run"} =>
        /\ cur \in Plans /\ cur[1] = Today /\ cur[2] \notin todo
        /\ plan[cur].status = "running"

\* A plan has no time before its day, so that it is not pruned on its day.
PlannedFromItsDay ==
    \A p \in Plans : plan[p].status # "none" => p[1] * Day <= plan[p].at

\* What was posted for a plan bears the key the plan has, and a plan that was
\* posted for and is gone belongs to a day no tick will plan again.
PostedKeyIsKept ==
    \A x \in posted :
        /\ x[2] = plan[x[1]].key
        /\ plan[x[1]].status = "none" =>
              x[1][1] < DayOf(now) /\ (pc = "ensure" => x[1][1] < Today)

\* While nothing happens ticks follow the clock, and the first tick of a day,
\* at its first unit, plans all fixed entries but those of that very unit.
PlansFollowClock ==
    steady =>
        /\ up = "up" /\ account /\ on = Entries
        /\ IF pc = "idle" THEN tickAt \in {now - 1, now} ELSE tickAt = now
        /\ tickAt >= 0 /\ (pc = "ensure" => now # Today * Day) =>
              \A e \in Entries : Kind[e] = "fixed" /\ Task[e] # "claim" /\ StartAt[e] >= 1 =>
                  plan[<<Today, e>>].status # "none"

AutoDrawIInv ==
    /\ PlanInv
    /\ OneClaimPlanADay
    /\ CompletedTasksWereDone
    /\ TickInStep
    /\ PlannedFromItsDay
    /\ PostedKeyIsKept
    /\ PlansFollowClock
===============================================================================
