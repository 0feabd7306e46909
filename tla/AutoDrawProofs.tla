---------------------------- MODULE AutoDrawProofs ----------------------------
(***************************************************************************)
(* Theorems about the scheduler (AutoDraw), for any entries of an account, *)
(* any length of day, hour and retention, and any number of crashes,       *)
(* failed writes, stops and switches.                                      *)
(***************************************************************************)
EXTENDS AutoDraw, TLAPS

------------------------------------------------------------------------------
(***************************************************************************)
(* Days and times.                                                         *)
(***************************************************************************)
LEMMA DayBounds ==
    ASSUME NEW t \in Int
    PROVE  DayOf(t) \in Int /\ DayOf(t) * Day <= t /\ t < DayOf(t) * Day + Day
  BY TimeAssumption, Z3 DEF DayOf

LEMMA DayOfAtLeast ==
    ASSUME NEW t \in Int, NEW d \in Int, d * Day <= t
    PROVE  d <= DayOf(t)
  <1>1. DayOf(t) \in Int /\ t < DayOf(t) * Day + Day /\ Day \in Nat /\ Day > 0
    BY DayBounds, TimeAssumption
  <1>2. SUFFICES ASSUME DayOf(t) + 1 <= d PROVE FALSE
    BY <1>1
  <1>3. (DayOf(t) + 1) * Day <= d * Day
    BY <1>1, <1>2
  <1>4. QED
    BY <1>1, <1>3

LEMMA DayOfAtMost ==
    ASSUME NEW t \in Int, NEW d \in Int, t < d * Day + Day
    PROVE  DayOf(t) <= d
  <1>1. DayOf(t) \in Int /\ DayOf(t) * Day <= t /\ Day \in Nat /\ Day > 0
    BY DayBounds, TimeAssumption
  <1>2. SUFFICES ASSUME d + 1 <= DayOf(t) PROVE FALSE
    BY <1>1
  <1>3. (d + 1) * Day <= DayOf(t) * Day
    BY <1>1, <1>2
  <1>4. QED
    BY <1>1, <1>3

LEMMA DayOfMonotone ==
    ASSUME NEW t \in Int, NEW u \in Int, t <= u
    PROVE  DayOf(t) <= DayOf(u)
  <1>1. DayOf(t) \in Int /\ DayOf(t) * Day <= u
    BY DayBounds, TimeAssumption
  <1>2. QED
    BY <1>1, DayOfAtLeast

\* Where a day begins.
LEMMA DayBegins ==
    ASSUME NEW t \in Int, t # DayOf(t) * Day
    PROVE  DayOf(t - 1) = DayOf(t)
  <1>1. DayOf(t) \in Int /\ DayOf(t) * Day <= t - 1 /\ t - 1 < DayOf(t) * Day + Day
    BY DayBounds, TimeAssumption
  <1>2. DayOf(t - 1) \in Int /\ DayOf(t) <= DayOf(t - 1) /\ DayOf(t - 1) <= DayOf(t)
    BY <1>1, DayBounds, DayOfAtLeast, DayOfAtMost
  <1>3. QED
    BY <1>1, <1>2

\* The clock does not run beyond the days of the plans.
LEMMA DaysOfClock ==
    ASSUME NEW t \in 0 .. Horizon
    PROVE  DayOf(t) \in Days /\ DayOf(t) \in Nat
  <1>1. Horizon \in Nat /\ Day \in Nat
    BY AutoDrawAssumption, TimeAssumption
  <1>2. 0 * Day = 0 /\ 0 * Day <= t /\ t <= Horizon /\ t \in Int
    BY <1>1
  <1>3. DayOf(t) \in Int /\ DayOf(Horizon) \in Int /\ 0 <= DayOf(t) /\ DayOf(t) <= DayOf(Horizon)
    BY <1>1, <1>2, DayBounds, DayOfAtLeast, DayOfMonotone
  <1>4. QED
    BY <1>3 DEF Days

\* The times planned for an entry lie in its day, those of a random entry in
\* its window.
LEMMA TimesOfEntry ==
    ASSUME NEW e \in Entries, tickAt \in Int, NEW t \in Times(e)
    PROVE  /\ t \in Int
           /\ Today * Day <= t /\ t < Today * Day + Day
           /\ Kind[e] = "random" => Today * Day + StartAt[e] <= t /\ t < Today * Day + EndAt[e]
  <1>1. /\ Today * Day \in Int /\ Day \in Nat /\ Hour \in Nat
        /\ StartAt[e] \in 0 .. Day - 1 /\ EndAt[e] \in 0 .. Day - 1
        /\ Kind[e] \in {"fixed", "random"}
    BY DayBounds, TimeAssumption, AutoDrawAssumption DEF Today
  <1>2. CASE Kind[e] = "fixed"
    <2>1. t = Today * Day + StartAt[e]
      BY <1>2 DEF Times, FixedTimes
    <2>2. QED
      BY <1>1, <1>2, <2>1
  <1>3. CASE Kind[e] = "random"
    <2> DEFINE from == IF Today * Day + StartAt[e] < tickAt THEN tickAt ELSE Today * Day + StartAt[e]
               last == Today * Day + EndAt[e]
               duration == IF last - from > Hour THEN Hour ELSE last - from
    <2>1. from \in Int /\ last \in Int /\ duration \in Int
      BY <1>1
    <2>2. PICK offset \in 0 .. duration - 1 : t = from + offset
      BY <1>3 DEF Times, RandomTimes
    <2>3. QED
      BY <1>1, <2>1, <2>2
  <1>4. QED
    BY <1>1, <1>2, <1>3

\* A plan is pruned only after its day.
LEMMA PrunedIsPast ==
    ASSUME TypeOK, PlannedFromItsDay, NEW p \in Plans, Old(p)
    PROVE  p[1] < DayOf(now)
  <1>1. /\ p[1] \in Int /\ now \in Int /\ plan[p].at \in Int /\ Day \in Nat /\ Day > 0
        /\ RetentionDays \in Nat /\ RetentionDays >= 1
    BY TimeAssumption, AutoDrawAssumption DEF TypeOK, Plans, Days
  <1>2. RetentionDays * Day \in Int /\ Day <= RetentionDays * Day
    BY <1>1
  <1>3. DayOf(now) \in Int
    BY <1>1, DayBounds
  <1>4. CASE p[1] < DayOf(now - RetentionDays * Day)
    <2>1. DayOf(now - RetentionDays * Day) \in Int /\ DayOf(now - RetentionDays * Day) <= DayOf(now)
      BY <1>1, <1>2, DayBounds, DayOfMonotone
    <2>2. QED
      BY <1>1, <1>3, <1>4, <2>1
  <1>5. CASE plan[p].status # "none" /\ plan[p].at < now - RetentionDays * Day
    <2>1. p[1] * Day <= plan[p].at
      BY <1>5 DEF PlannedFromItsDay
    <2>2. p[1] * Day \in Int /\ (p[1] + 1) * Day = p[1] * Day + Day
      BY <1>1
    <2>3. (p[1] + 1) * Day <= now
      BY <1>1, <1>2, <1>5, <2>1, <2>2
    <2>4. p[1] + 1 <= DayOf(now)
      BY <1>1, <2>3, DayOfAtLeast
    <2>5. QED
      BY <1>1, <1>3, <2>4
  <1>6. QED
    BY <1>4, <1>5 DEF Old

\* A plan is its day and its entry.
LEMMA PlansArePairs ==
    /\ \A p \in Plans : p = <<p[1], p[2]>> /\ p[1] \in Days /\ p[1] \in Int /\ p[2] \in Entries
    /\ \A d \in Days, e \in Entries :
          <<d, e>> \in Plans /\ <<d, e>>[1] = d /\ <<d, e>>[2] = e
  BY DEF Plans, Days

------------------------------------------------------------------------------
(***************************************************************************)
(* The steps, by what they do to the plans.                                *)
(***************************************************************************)
LEMMA TodayIsADay ==
    ASSUME TypeOK, TickInStep, pc # "idle"
    PROVE  Today \in Days /\ Today \in Nat /\ tickAt \in Int
  <1>1. tickAt \in 0 .. Horizon /\ tickAt \in Int
    BY AutoDrawAssumption DEF TypeOK, TickInStep
  <1>2. QED
    BY <1>1, DaysOfClock DEF Today

\* That fixed entries are planned follows from the plans of the ticks so far.
LEMMA FixedArePlanned ==
    ASSUME TypeOK, PlansFollowClock
    PROVE  FixedIsPlanned
  <1>1. SUFFICES ASSUME steady, pc = "idle", tickAt = now, NEW e \in on,
                        Kind[e] = "fixed", Task[e] # "claim",
                        StartAt[e] \in 1 .. tickAt - Today * Day
                 PROVE  plan[<<Today, e>>].status # "none"
    BY DEF FixedIsPlanned
  <1>2. e \in Entries /\ StartAt[e] >= 1 /\ tickAt >= 0
    BY <1>1 DEF TypeOK
  <1>3. QED
    BY <1>1, <1>2 DEF PlansFollowClock

\* A step that leaves the plans alone.
LEMMA QuietInv ==
    ASSUME AutoDrawIInv, TypeOK', TickInStep', PlansFollowClock',
           UNCHANGED <<now, plan, outcome, posted>>,
           steady' => steady,
           pc' = "ensure" => pc = "ensure" /\ tickAt' = tickAt
    PROVE  AutoDrawIInv'
  <1>1. PlannedInsideWindow' /\ PlansStayInTheirDay'
    BY DEF AutoDrawIInv, PlanInv, PlannedInsideWindow, PlansStayInTheirDay
  <1>2. FixedIsPlanned'
    BY FixedArePlanned, PTL
  <1>3. OneClaimPlanADay' /\ CompletedTasksWereDone' /\ PlannedFromItsDay'
    BY DEF AutoDrawIInv, OneClaimPlanADay, CompletedTasksWereDone, PlannedFromItsDay
  <1>4. PostedKeyIsKept'
    BY DEF AutoDrawIInv, PostedKeyIsKept, Today
  <1>5. QED
    BY <1>1, <1>2, <1>3, <1>4 DEF AutoDrawIInv, PlanInv

\* A step on one plan that was made and stays made: it keeps its key, and its
\* time unless a check-in is postponed within the day.
LEMMA MoveInv ==
    ASSUME AutoDrawIInv, TypeOK', TickInStep', NEW q \in Plans, plan[q].status # "none",
           pc # "ensure", pc' \notin {"idle", "ensure"}, pc # "idle",
           UNCHANGED <<now, up, account, on, tickAt, posted, steady>>,
           \A p \in Plans \ {q} : plan'[p] = plan[p] /\ outcome'[p] = outcome[p],
           plan'[q].status # "none", plan'[q].key = plan[q].key,
           \/ plan'[q].at = plan[q].at
           \/ /\ Task[q[2]] = "checkin"
              /\ q[1] * Day <= plan'[q].at
              /\ steady => DayOf(plan'[q].at) = q[1],
           plan'[q].status = "completed" /\ Task[q[2]] # "claim" => outcome'[q] = "done"
    PROVE  AutoDrawIInv'
  <1>1. \A p \in Plans : plan'[p].status # "none" <=> plan[p].status # "none"
    OBVIOUS
  <1>2. PlannedInsideWindow'
    BY <1>1 DEF AutoDrawIInv, PlanInv, PlannedInsideWindow
  <1>3. PlansStayInTheirDay'
    BY <1>1 DEF AutoDrawIInv, PlanInv, PlansStayInTheirDay
  <1>4. PlansFollowClock'
    <2>1. steady => Today \in Days
      BY TodayIsADay DEF AutoDrawIInv, PlanInv
    <2>2. QED
      BY <1>1, <2>1, PlansArePairs DEF AutoDrawIInv, PlansFollowClock, Today
  <1>5. FixedIsPlanned'
    BY <1>4, FixedArePlanned, PTL
  <1>6. OneClaimPlanADay'
    BY <1>1, PlansArePairs DEF AutoDrawIInv, OneClaimPlanADay, Claims
  <1>7. CompletedTasksWereDone'
    BY DEF AutoDrawIInv, CompletedTasksWereDone
  <1>8. PlannedFromItsDay'
    BY <1>1 DEF AutoDrawIInv, PlannedFromItsDay
  <1>9. PostedKeyIsKept'
    <2>1. \A x \in posted : x[1] \in Plans
      BY DEF AutoDrawIInv, PlanInv, TypeOK
    <2>2. \A p \in Plans : plan'[p].key = plan[p].key
      OBVIOUS
    <2>3. QED
      BY <1>1, <2>1, <2>2 DEF AutoDrawIInv, PostedKeyIsKept
  <1>10. QED
    BY <1>2, <1>3, <1>5, <1>4, <1>6, <1>7, <1>8, <1>9 DEF AutoDrawIInv, PlanInv

\* What FinishAutoDrawPlan writes is the result of a task that was done, or
\* says so.
LEMMA FinishInv ==
    ASSUME AutoDrawIInv, pc \in {"gate", "run"}, NEW status, NEW what,
           FinishPlan(status, what), status \in Terminal,
           status = "completed" => what = "done" \/ Task[cur[2]] = "claim",
           UNCHANGED <<now, up, owner, tickAt, todo, cur, posted, events, steady>>
    PROVE  AutoDrawIInv'
  <1> DEFINE result == IF status = "completed" THEN Class(what) ELSE "none"
  <1>1. /\ cur \in Plans /\ cur[1] = Today /\ cur[2] \notin todo /\ plan[cur].status = "running"
        /\ plan \in [Plans -> [status : PlanStatuses, at : Nat, key : Nat]]
        /\ outcome \in [Plans -> {"none", "done", "reauth", "other"}]
    BY DEF AutoDrawIInv, PlanInv, TypeOK, TickInStep
  <1>2. /\ plan' = [plan EXCEPT ![cur] = [plan[cur] EXCEPT !.status = status]]
        /\ outcome' = [outcome EXCEPT ![cur] = result]
        /\ pc' = "loop"
        /\ UNCHANGED <<now, up, account, on, tickAt, todo, cur, posted, events, steady>>
    BY <1>1 DEF FinishPlan, owner
  <1>3. result \in {"none", "done", "reauth", "other"}
    BY DEF Class
  <1>4. status \in PlanStatuses /\ status # "none"
    BY DEF PlanStatuses, Terminal
  <1>5. /\ plan' \in [Plans -> [status : PlanStatuses, at : Nat, key : Nat]]
        /\ plan'[cur].status = status /\ plan'[cur].at = plan[cur].at /\ plan'[cur].key = plan[cur].key
        /\ outcome'[cur] = result /\ outcome' \in [Plans -> {"none", "done", "reauth", "other"}]
        /\ \A p \in Plans \ {cur} : plan'[p] = plan[p] /\ outcome'[p] = outcome[p]
    BY <1>1, <1>2, <1>3, <1>4
  <1>6. TypeOK'
    BY <1>2, <1>5 DEF AutoDrawIInv, PlanInv, TypeOK
  <1>7. TickInStep'
    <2>1. \A e \in todo : <<Today, e>> \in Plans /\ <<Today, e>> # cur
      BY <1>1, PlansArePairs DEF AutoDrawIInv, PlanInv, TypeOK
    <2>2. QED
      BY <1>2, <1>5, <2>1 DEF AutoDrawIInv, TickInStep, Today
  <1>8. status = "completed" /\ Task[cur[2]] # "claim" => result = "done"
    BY DEF Class
  <1>9. QED
    BY <1>1, <1>2, <1>4, <1>5, <1>6, <1>7, <1>8, MoveInv

\* postponeCheckinPlan, within the day as long as the tick has not straddled
\* midnight.
LEMMA PostponeInv ==
    ASSUME AutoDrawIInv, Postpone
    PROVE  AutoDrawIInv'
  <1>1. /\ pc = "run" /\ pc' = "loop" /\ Task[cur[2]] = "checkin" /\ ~GivesUp(now)
        /\ cur \in Plans /\ cur[1] = Today /\ cur[2] \notin todo /\ plan[cur].status = "running"
        /\ plan \in [Plans -> [status : PlanStatuses, at : Nat, key : Nat]]
        /\ now \in Nat /\ tickAt \in Nat /\ tickAt <= now /\ Hour \in Nat
        /\ UNCHANGED <<now, up, account, on, tickAt, todo, cur, outcome, posted, events, steady>>
    BY TimeAssumption, AutoDrawAssumption
    DEF Postpone, owner, history, AutoDrawIInv, PlanInv, TypeOK, TickInStep
  <1>2. plan' = [plan EXCEPT ![cur] =
                    [[plan[cur] EXCEPT !.status = "pending"] EXCEPT !.at = now + Hour]]
    BY <1>1 DEF Postpone
  <1>3. /\ plan' \in [Plans -> [status : PlanStatuses, at : Nat, key : Nat]]
        /\ plan'[cur].status = "pending" /\ plan'[cur].at = now + Hour
        /\ plan'[cur].key = plan[cur].key
        /\ \A p \in Plans \ {cur} : plan'[p] = plan[p] /\ outcome'[p] = outcome[p]
    <2> DEFINE begun == [plan[cur] EXCEPT !.status = "pending"]
               r == [begun EXCEPT !.at = now + Hour]
    <2>1. begun \in [status : PlanStatuses, at : Nat, key : Nat] /\ begun.status = "pending"
          /\ begun.key = plan[cur].key
      BY <1>1 DEF PlanStatuses
    <2>2. plan' = [plan EXCEPT ![cur] = r]
      BY <1>2
    <2> HIDE DEF begun
    <2>3. /\ r \in [status : PlanStatuses, at : Nat, key : Nat]
          /\ r.status = "pending" /\ r.at = now + Hour /\ r.key = plan[cur].key
      BY <1>1, <2>1
    <2> HIDE DEF r
    <2>4. QED
      BY <1>1, <2>2, <2>3
  <1>4. TypeOK'
    BY <1>1, <1>3 DEF AutoDrawIInv, PlanInv, TypeOK
  <1>5. TickInStep'
    <2>1. \A e \in todo : <<Today, e>> \in Plans /\ <<Today, e>> # cur
      BY <1>1, PlansArePairs DEF AutoDrawIInv, PlanInv, TypeOK
    <2>2. QED
      BY <1>1, <1>3, <2>1 DEF AutoDrawIInv, TickInStep, Today
  <1>6. cur[1] * Day <= now + Hour
    <2>1. cur[1] \in Int /\ cur[1] * Day <= tickAt
      BY <1>1, DayBounds DEF Today
    <2>2. cur[1] * Day \in Int
      BY <2>1, TimeAssumption
    <2>3. QED
      BY <1>1, <2>1, <2>2
  <1>7. steady => DayOf(now + Hour) = cur[1]
    BY <1>1 DEF GivesUp, AutoDrawIInv, PlansFollowClock, Today
  <1>8. QED
    BY <1>1, <1>3, <1>4, <1>5, <1>6, <1>7, MoveInv

LEMMA BeginInv ==
    ASSUME AutoDrawIInv, NEW e \in Entries, Begin(e)
    PROVE  AutoDrawIInv'
  <1> DEFINE q == <<Today, e>>
  <1>1. /\ pc = "loop" /\ pc' = "gate" /\ e \in todo /\ todo' = todo \ {e} /\ cur' = q
        /\ plan \in [Plans -> [status : PlanStatuses, at : Nat, key : Nat]]
        /\ UNCHANGED <<now, up, account, on, tickAt, outcome, posted, events, steady>>
        /\ plan[q].status \in {"pending", "running"}
    BY DEF Begin, Earliest, owner, history, AutoDrawIInv, PlanInv, TypeOK, TickInStep
  <1>2. q \in Plans /\ q[1] = Today /\ q[2] = e
    BY <1>1, TodayIsADay, PlansArePairs DEF AutoDrawIInv, PlanInv
  <1>3. plan' = [plan EXCEPT ![q] = [plan[q] EXCEPT !.status = "running"]]
    BY DEF Begin
  <1>4. /\ plan' \in [Plans -> [status : PlanStatuses, at : Nat, key : Nat]]
        /\ plan'[q].status = "running" /\ plan'[q].at = plan[q].at /\ plan'[q].key = plan[q].key
        /\ \A p \in Plans \ {q} : plan'[p] = plan[p] /\ outcome'[p] = outcome[p]
    BY <1>1, <1>2, <1>3 DEF PlanStatuses
  <1>5. TypeOK'
    BY <1>1, <1>2, <1>4 DEF AutoDrawIInv, PlanInv, TypeOK
  <1>6. TickInStep'
    <2>1. \A f \in todo' : <<Today, f>> \in Plans /\ <<Today, f>> # q /\ f # e
      BY <1>1, <1>2, PlansArePairs DEF AutoDrawIInv, PlanInv, TypeOK
    <2>2. Today' = Today
      BY <1>1 DEF Today
    <2>3. \A f \in todo' : plan'[<<Today', f>>].status \in {"pending", "running"}
      BY <1>1, <1>4, <2>1, <2>2 DEF AutoDrawIInv, TickInStep
    <2>4. QED
      BY <1>1, <1>2, <1>4, <2>2, <2>3 DEF AutoDrawIInv, TickInStep
  <1> HIDE DEF q
  <1>7. QED
    BY <1>1, <1>2, <1>4, <1>5, <1>6, MoveInv

\* Pruning leaves the plans of the day alone; a steady tick finds them made by
\* the ticks before it, unless the day has just begun.
LEMMA TickInv ==
    ASSUME AutoDrawIInv, Tick
    PROVE  AutoDrawIInv'
  <1>1. /\ up = "up" /\ pc = "idle" /\ pc' = "ensure" /\ tickAt' = now
        /\ plan' = [p \in Plans |-> IF Old(p) THEN Pruned(p) ELSE plan[p]]
        /\ UNCHANGED <<now, up, account, on, todo, cur, posted, outcome, events, steady>>
        /\ now \in 0 .. Horizon /\ Horizon \in Nat /\ tickAt \in Int /\ todo = {}
        /\ plan \in [Plans -> [status : PlanStatuses, at : Nat, key : Nat]]
    BY AutoDrawAssumption DEF Tick, owner, history, AutoDrawIInv, PlanInv, TypeOK, TickInStep
  <1>2. \A p \in Plans :
            /\ Pruned(p) \in [status : PlanStatuses, at : Nat, key : Nat]
            /\ Pruned(p).status = "none" /\ Pruned(p).key = plan[p].key
    BY <1>1 DEF Pruned, NoPlan, PlanStatuses
  <1>3. /\ plan' \in [Plans -> [status : PlanStatuses, at : Nat, key : Nat]]
        /\ \A p \in Plans : plan'[p].key = plan[p].key
        /\ \A p \in Plans : plan'[p].status # "none" => plan'[p] = plan[p]
        /\ \A p \in Plans : plan'[p].status = "none" => plan[p].status = "none" \/ Old(p)
    BY <1>1, <1>2
  <1>4. \A p \in Plans : Old(p) => p[1] < DayOf(now)
    BY PrunedIsPast DEF AutoDrawIInv, PlanInv
  <1>5. TypeOK'
    BY <1>1, <1>3 DEF AutoDrawIInv, PlanInv, TypeOK
  <1>6. TickInStep'
    BY <1>1 DEF TickInStep
  <1>7. PlannedInsideWindow' /\ PlansStayInTheirDay'
    BY <1>1, <1>3 DEF AutoDrawIInv, PlanInv, PlannedInsideWindow, PlansStayInTheirDay
  <1>8. OneClaimPlanADay' /\ CompletedTasksWereDone' /\ PlannedFromItsDay'
    <2>1. OneClaimPlanADay'
      BY <1>3, PlansArePairs DEF AutoDrawIInv, OneClaimPlanADay, Claims
    <2>2. CompletedTasksWereDone'
      BY <1>1, <1>3 DEF AutoDrawIInv, CompletedTasksWereDone
    <2>3. PlannedFromItsDay'
      BY <1>3 DEF AutoDrawIInv, PlannedFromItsDay
    <2>4. QED
      BY <2>1, <2>2, <2>3
  <1>9. PostedKeyIsKept'
    <2>1. Today' = DayOf(now)
      BY <1>1 DEF Today
    <2>2. \A x \in posted : x[1] \in Plans
      BY DEF AutoDrawIInv, PlanInv, TypeOK
    <2>3. QED
      BY <1>1, <1>3, <1>4, <2>1, <2>2 DEF AutoDrawIInv, PostedKeyIsKept
  <1>10. PlansFollowClock'
    <2>1. SUFFICES ASSUME steady, now # DayOf(now) * Day, NEW e \in Entries, Kind[e] = "fixed",
                          Task[e] # "claim", StartAt[e] >= 1
                   PROVE  plan'[<<DayOf(now), e>>].status # "none"
      BY <1>1 DEF PlansFollowClock, AutoDrawIInv, Today
    <2>2. DayOf(now) \in Days /\ now \in Int
      BY <1>1, DaysOfClock
    <2>3. DayOf(now - 1) = DayOf(now)
      BY <2>1, <2>2, DayBegins
    <2>4. tickAt \in {now - 1, now}
      BY <1>1, <2>1 DEF AutoDrawIInv, PlansFollowClock
    <2>5. tickAt >= 0
      <3>1. now # 0
        <4>1. now = 0 => DayOf(now) >= 0 /\ DayOf(now) * Day <= now /\ DayOf(now) \in Int
          BY <1>1, <2>2, DaysOfClock, DayBounds
        <4>2. Day \in Nat /\ Day > 0
          BY TimeAssumption
        <4>3. now = 0 => DayOf(now) * Day = 0
          BY <4>1, <4>2
        <4>4. QED
          BY <2>1, <4>3
      <3>2. QED
        BY <1>1, <2>4, <3>1
    <2>6. Today = DayOf(now)
      BY <2>3, <2>4 DEF Today
    <2>7. plan[<<DayOf(now), e>>].status # "none"
      BY <1>1, <2>1, <2>5, <2>6 DEF AutoDrawIInv, PlansFollowClock
    <2>8. <<DayOf(now), e>> \in Plans /\ ~(<<DayOf(now), e>>[1] < DayOf(now))
      BY <2>2, PlansArePairs DEF Days
    <2>9. QED
      BY <1>3, <1>4, <2>7, <2>8
  <1>11. FixedIsPlanned'
    BY <1>5, <1>10, FixedArePlanned, PTL
  <1>12. QED
    BY <1>5, <1>6, <1>7, <1>8, <1>9, <1>10, <1>11 DEF AutoDrawIInv, PlanInv

\* What NewPlans chooses: all that is missing but the claims, and of those at
\* most one, where the day has none yet.
LEMMA NewPlansAreMissing ==
    ASSUME NEW new \in NewPlans
    PROVE  /\ new \subseteq Missing
           /\ Missing \ Claims \subseteq new
           /\ \A e, f \in new \intersect Claims : e = f
           /\ ClaimPlanned => new \intersect Claims = {}
  <1> DEFINE claims == IF ClaimPlanned THEN {} ELSE Missing \intersect Claims
             first == {e \in claims : \A f \in claims : StartAt[e] <= StartAt[f]}
  <1>1. new \in IF first = {} THEN {Missing \ Claims}
                ELSE {(Missing \ Claims) \union {e} : e \in first}
    BY DEF NewPlans
  <1>2. \A e \in first : e \in Missing /\ e \in Claims /\ ~ClaimPlanned
    OBVIOUS
  <1> HIDE DEF first
  <1>3. CASE first = {}
    BY <1>1, <1>3
  <1>4. CASE first # {}
    BY <1>1, <1>2, <1>4
  <1>5. QED
    BY <1>3, <1>4

\* The plans of the day are inserted, each with a time of its entry.
LEMMA EnsureInv ==
    ASSUME AutoDrawIInv, Ensure
    PROVE  AutoDrawIInv'
  <1>0. PICK new \in NewPlans :
          \E at \in [new -> Today * Day .. (Today + 1) * Day] :
            /\ \A e \in new : at[e] \in Times(e)
            /\ plan' = [p \in Plans |->
                    IF p[1] = Today /\ p[2] \in new
                    THEN [status |-> "pending", at |-> at[p[2]], key |-> plan[p].key + 1]
                    ELSE plan[p]]
    BY DEF Ensure
  <1>1. PICK at \in [new -> Today * Day .. (Today + 1) * Day] :
            /\ \A e \in new : at[e] \in Times(e)
            /\ plan' = [p \in Plans |->
                    IF p[1] = Today /\ p[2] \in new
                    THEN [status |-> "pending", at |-> at[p[2]], key |-> plan[p].key + 1]
                    ELSE plan[p]]
    BY <1>0
  <1>2. /\ pc = "ensure" /\ pc' = "loop"
        /\ todo' = {e \in Entries : Due(plan'[<<Today, e>>])}
        /\ UNCHANGED <<now, up, account, on, tickAt, cur, posted, outcome, events, steady>>
        /\ plan \in [Plans -> [status : PlanStatuses, at : Nat, key : Nat]]
        /\ tickAt \in Int /\ tickAt >= 0 /\ on \subseteq Entries
    BY DEF Ensure, owner, history, AutoDrawIInv, PlanInv, TypeOK, TickInStep
  <1>3. Today \in Days /\ Today \in Nat /\ Today' = Today
    <2>1. Today \in Days /\ Today \in Nat
      BY <1>2, TodayIsADay DEF AutoDrawIInv, PlanInv
    <2>2. QED
      BY <1>2, <2>1 DEF Today
  <1>4. \A e \in new : e \in on /\ e \in Entries /\ account /\ plan[<<Today, e>>].status = "none"
    BY <1>2, NewPlansAreMissing DEF Missing
  <1>5. \A e \in new :
            /\ at[e] \in Nat
            /\ Today * Day <= at[e] /\ DayOf(at[e]) = Today
            /\ Kind[e] = "random" =>
                  Today * Day + StartAt[e] <= at[e] /\ at[e] < Today * Day + EndAt[e]
    <2>1. TAKE e \in new
    <2>2. /\ at[e] \in Int /\ Today * Day <= at[e] /\ at[e] < Today * Day + Day
          /\ Kind[e] = "random" =>
                Today * Day + StartAt[e] <= at[e] /\ at[e] < Today * Day + EndAt[e]
      BY <1>1, <1>2, <1>4, TimesOfEntry
    <2>3. Today <= DayOf(at[e]) /\ DayOf(at[e]) <= Today /\ DayOf(at[e]) \in Int
      BY <1>3, <2>2, DayOfAtLeast, DayOfAtMost, DayBounds
    <2>4. Today * Day \in Nat
      BY <1>3, TimeAssumption
    <2>5. QED
      BY <1>3, <2>2, <2>3, <2>4
  <1>6. \A p \in Plans : p[1] = Today /\ p[2] \in new =>
            /\ plan[p].status = "none"
            /\ plan'[p].status = "pending" /\ plan'[p].at = at[p[2]] /\ plan'[p].key = plan[p].key + 1
            /\ plan'[p] \in [status : PlanStatuses, at : Nat, key : Nat]
    BY <1>1, <1>2, <1>4, <1>5, PlansArePairs DEF PlanStatuses
  <1>7. \A p \in Plans : ~(p[1] = Today /\ p[2] \in new) => plan'[p] = plan[p]
    BY <1>1
  <1>8. TypeOK'
    <2>1. plan' \in [Plans -> [status : PlanStatuses, at : Nat, key : Nat]]
      BY <1>1, <1>2, <1>6, <1>7
    <2>2. QED
      BY <1>2, <2>1 DEF AutoDrawIInv, PlanInv, TypeOK
  <1>9. TickInStep'
    BY <1>2, <1>3 DEF TickInStep, Due
  <1>10. PlannedInsideWindow' /\ PlansStayInTheirDay' /\ PlannedFromItsDay'
    <2>1. ASSUME NEW p \in Plans, plan'[p].status # "none"
          PROVE  /\ Kind[p[2]] = "random" /\ Task[p[2]] # "checkin" =>
                       p[1] * Day + StartAt[p[2]] <= plan'[p].at
                       /\ plan'[p].at < p[1] * Day + EndAt[p[2]]
                 /\ steady => DayOf(plan'[p].at) = p[1]
                 /\ p[1] * Day <= plan'[p].at
      <3>1. CASE p[1] = Today /\ p[2] \in new
        BY <1>5, <1>6, <3>1
      <3>2. CASE ~(p[1] = Today /\ p[2] \in new)
        BY <1>7, <2>1, <3>2
        DEF AutoDrawIInv, PlanInv, PlannedInsideWindow, PlansStayInTheirDay, PlannedFromItsDay
      <3>3. QED
        BY <3>1, <3>2
    <2>2. QED
      BY <1>2, <2>1 DEF PlannedInsideWindow, PlansStayInTheirDay, PlannedFromItsDay
  <1>11. OneClaimPlanADay'
    <2>1. ASSUME NEW d \in Days, NEW e \in Claims, NEW f \in Claims,
                 plan'[<<d, e>>].status # "none", plan'[<<d, f>>].status # "none"
          PROVE  e = f
      <3>1. /\ e \in Entries /\ f \in Entries /\ <<d, e>> \in Plans /\ <<d, f>> \in Plans
            /\ <<d, e>>[1] = d /\ <<d, e>>[2] = e /\ <<d, f>>[1] = d /\ <<d, f>>[2] = f
        BY PlansArePairs DEF Claims
      <3>2. CASE d = Today /\ new \intersect Claims # {}
        <4>1. ~ClaimPlanned /\ \A x, y \in new \intersect Claims : x = y
          BY <3>2, NewPlansAreMissing
        <4>2. plan[<<d, e>>].status = "none" /\ plan[<<d, f>>].status = "none"
          BY <3>2, <4>1 DEF ClaimPlanned
        <4>3. e \in new /\ f \in new
          BY <1>7, <2>1, <3>1, <4>2
        <4>4. QED
          BY <4>1, <4>3
      <3>3. CASE ~(d = Today /\ new \intersect Claims # {})
        <4>1. plan'[<<d, e>>] = plan[<<d, e>>] /\ plan'[<<d, f>>] = plan[<<d, f>>]
          BY <1>7, <3>1, <3>3
        <4>2. QED
          BY <2>1, <4>1 DEF AutoDrawIInv, OneClaimPlanADay
      <3>4. QED
        BY <3>2, <3>3
    <2>2. QED
      BY <2>1 DEF OneClaimPlanADay
  <1>12. CompletedTasksWereDone'
    BY <1>2, <1>6, <1>7 DEF AutoDrawIInv, CompletedTasksWereDone
  <1>13. PostedKeyIsKept'
    <2>1. ASSUME NEW x \in posted
          PROVE  /\ plan'[x[1]] = plan[x[1]]
      <3>1. x[1] \in Plans
        BY DEF AutoDrawIInv, PlanInv, TypeOK
      <3>2. plan[x[1]].status = "none" => x[1][1] < Today
        BY <1>2 DEF AutoDrawIInv, PostedKeyIsKept
      <3>3. QED
        BY <1>3, <1>6, <1>7, <3>1, <3>2
    <2>2. QED
      BY <1>2, <2>1 DEF AutoDrawIInv, PostedKeyIsKept
  <1>14. PlansFollowClock'
    <2>1. SUFFICES ASSUME steady, NEW e \in Entries, Kind[e] = "fixed", Task[e] # "claim",
                          StartAt[e] >= 1
                   PROVE  plan'[<<Today, e>>].status # "none"
      BY <1>2, <1>3 DEF PlansFollowClock, AutoDrawIInv
    <2>2. <<Today, e>> \in Plans /\ <<Today, e>>[1] = Today /\ <<Today, e>>[2] = e
      BY <1>3, PlansArePairs
    <2>3. CASE e \in new
      BY <1>6, <2>2, <2>3
    <2>4. CASE e \notin new
      <3>1. plan'[<<Today, e>>] = plan[<<Today, e>>]
        BY <1>7, <2>2, <2>4
      <3>2. CASE now # Today * Day
        BY <1>2, <2>1, <3>1, <3>2 DEF AutoDrawIInv, PlansFollowClock
      <3>3. CASE now = Today * Day
        <4>1. e \in on /\ account /\ tickAt = now /\ e \notin Claims
          BY <1>2, <2>1 DEF AutoDrawIInv, PlansFollowClock, Claims
        <4>2. Today * Day + StartAt[e] \in Int /\ Today * Day + StartAt[e] > tickAt
          BY <1>2, <2>1, <3>3, <4>1, AutoDrawAssumption, TimeAssumption
        <4>3. Today * Day + StartAt[e] \in Times(e)
          BY <1>2, <2>1, <4>2 DEF Times, FixedTimes
        <4>4. e \notin Missing
          BY <2>4, <4>1, NewPlansAreMissing
        <4>5. QED
          BY <3>1, <4>1, <4>3, <4>4 DEF Missing
      <3>4. QED
        BY <3>2, <3>3
    <2>5. QED
      BY <2>3, <2>4
  <1>15. FixedIsPlanned'
    BY <1>8, <1>14, FixedArePlanned, PTL
  <1>16. QED
    BY <1>8, <1>9, <1>10, <1>11, <1>12, <1>13, <1>14, <1>15 DEF AutoDrawIInv, PlanInv

\* A draw leaves the process with the key its plan has.
LEMMA PassInv ==
    ASSUME AutoDrawIInv, Pass
    PROVE  AutoDrawIInv'
  <1>1. /\ pc = "gate" /\ pc' = "run"
        /\ UNCHANGED <<now, up, account, on, plan, tickAt, todo, cur, outcome, events, steady>>
        /\ cur \in Plans /\ plan[cur].status = "running" /\ plan[cur].key \in Nat
    BY DEF Pass, owner, AutoDrawIInv, PlanInv, TypeOK, TickInStep
  <1>2. posted' \in {posted, posted \union {<<cur, plan[cur].key>>}}
    BY DEF Pass
  <1>3. TypeOK'
    <2>1. posted' \subseteq Plans \X Nat
      BY <1>1, <1>2 DEF AutoDrawIInv, PlanInv, TypeOK
    <2>2. QED
      BY <1>1, <2>1 DEF AutoDrawIInv, PlanInv, TypeOK
  <1>4. TickInStep'
    BY <1>1 DEF AutoDrawIInv, TickInStep, Today
  <1>5. PlannedInsideWindow' /\ PlansStayInTheirDay' /\ OneClaimPlanADay'
        /\ CompletedTasksWereDone' /\ PlannedFromItsDay'
    BY <1>1 DEF AutoDrawIInv, PlanInv, PlannedInsideWindow, PlansStayInTheirDay,
                OneClaimPlanADay, CompletedTasksWereDone, PlannedFromItsDay
  <1>6. PlansFollowClock'
    BY <1>1 DEF AutoDrawIInv, PlansFollowClock, Today
  <1>7. PostedKeyIsKept'
    <2>1. \A x \in posted' : x \in posted \/ (x[1] = cur /\ x[2] = plan[cur].key)
      BY <1>2
    <2>2. QED
      BY <1>1, <2>1 DEF AutoDrawIInv, PostedKeyIsKept
  <1>8. FixedIsPlanned'
    BY <1>3, <1>6, FixedArePlanned, PTL
  <1>9. QED
    BY <1>3, <1>4, <1>5, <1>6, <1>7, <1>8 DEF AutoDrawIInv, PlanInv

LEMMA AdvanceInv ==
    ASSUME AutoDrawIInv, Advance
    PROVE  AutoDrawIInv'
  <1>1. /\ now' = now + 1 /\ now < Horizon /\ Horizon \in Nat /\ now \in 0 .. Horizon
        /\ steady' = (steady /\ pc = "idle" /\ tickAt = now)
        /\ UNCHANGED <<up, account, on, plan, pc, tickAt, todo, cur, posted, outcome, events>>
    BY AutoDrawAssumption DEF Advance, owner, tick, AutoDrawIInv, PlanInv, TypeOK
  <1>2. steady' => steady /\ pc = "idle" /\ tickAt = now
    BY <1>1
  <1>3. DayOf(now) <= DayOf(now') /\ DayOf(now) \in Int /\ DayOf(now') \in Int
    BY <1>1, DayOfMonotone, DayBounds
  <1>4. TypeOK'
    BY <1>1, <1>2 DEF AutoDrawIInv, PlanInv, TypeOK
  <1>5. TickInStep'
    BY <1>1 DEF AutoDrawIInv, TickInStep, Today
  <1>6. PlannedInsideWindow' /\ PlansStayInTheirDay' /\ OneClaimPlanADay'
        /\ CompletedTasksWereDone' /\ PlannedFromItsDay'
    BY <1>1, <1>2 DEF AutoDrawIInv, PlanInv, PlannedInsideWindow, PlansStayInTheirDay,
                      OneClaimPlanADay, CompletedTasksWereDone, PlannedFromItsDay
  <1>7. PlansFollowClock'
    BY <1>1, <1>2 DEF AutoDrawIInv, PlansFollowClock, Today
  <1>8. PostedKeyIsKept'
    <2>1. \A x \in posted : x[1][1] \in Int
      BY PlansArePairs DEF AutoDrawIInv, PlanInv, TypeOK
    <2>2. QED
      BY <1>1, <1>3, <2>1 DEF AutoDrawIInv, PostedKeyIsKept, Today
  <1>9. FixedIsPlanned'
    BY <1>4, <1>7, FixedArePlanned, PTL
  <1>10. QED
    BY <1>4, <1>5, <1>6, <1>7, <1>8, <1>9 DEF AutoDrawIInv, PlanInv

\* Failed writes, switches and stops: nothing is steady after them.
LEMMA EventInv ==
    ASSUME AutoDrawIInv,
           \/ EnsureFails \/ FinishFails \/ Switch \/ Stop
           \/ \E e \in Entries : BeginFails(e)
    PROVE  AutoDrawIInv'
  <1>1. /\ events < MaxEvents /\ events' = events + 1 /\ steady' = FALSE
        /\ UNCHANGED <<now, plan, outcome, posted, tickAt, cur>>
    BY DEF EnsureFails, FinishFails, Switch, Stop, BeginFails, Event, owner, tick
  <1>2. events' \in 0 .. MaxEvents /\ MaxEvents \in Nat
    BY <1>1, AutoDrawAssumption DEF AutoDrawIInv, PlanInv, TypeOK
  <1>3. PlansFollowClock'
    BY <1>1 DEF PlansFollowClock
  <1>4. CASE EnsureFails \/ FinishFails
    <2>1. /\ pc' \in {"idle", "loop"} /\ UNCHANGED <<up, account, on, todo>> /\ pc # "idle"
          /\ pc' = "idle" => pc = "ensure"
      BY <1>4 DEF EnsureFails, FinishFails, owner
    <2>2. TypeOK'
      BY <1>1, <1>2, <2>1 DEF AutoDrawIInv, PlanInv, TypeOK
    <2>3. TickInStep'
      BY <1>1, <2>1 DEF AutoDrawIInv, TickInStep, Today
    <2>4. QED
      BY <1>1, <1>3, <2>1, <2>2, <2>3, QuietInv
  <1>5. CASE Switch \/ Stop
    <2>1. /\ UNCHANGED <<pc, todo>> /\ up' \in {up, "stopping"}
          /\ account' \in {account, ~account} /\ on' \in SUBSET Entries
      BY <1>5 DEF Switch, Stop, owner, tick, AutoDrawIInv, PlanInv, TypeOK
    <2>2. TypeOK'
      BY <1>1, <1>2, <2>1 DEF AutoDrawIInv, PlanInv, TypeOK
    <2>3. TickInStep'
      BY <1>1, <2>1 DEF AutoDrawIInv, TickInStep, Today
    <2>4. QED
      BY <1>1, <1>3, <2>1, <2>2, <2>3, QuietInv
  <1>6. CASE \E e \in Entries : BeginFails(e)
    <2>1. /\ UNCHANGED <<up, account, on, pc>> /\ pc = "loop" /\ todo' \subseteq todo
      BY <1>6 DEF BeginFails, owner
    <2>2. TypeOK'
      BY <1>1, <1>2, <2>1 DEF AutoDrawIInv, PlanInv, TypeOK
    <2>3. TickInStep'
      BY <1>1, <2>1 DEF AutoDrawIInv, TickInStep, Today
    <2>4. QED
      BY <1>1, <1>3, <2>1, <2>2, <2>3, QuietInv
  <1>7. QED
    BY <1>4, <1>5, <1>6

\* The end of a tick, and the steps of a service that is not up.
LEMMA EndTickInv ==
    ASSUME AutoDrawIInv, EndTick
    PROVE  AutoDrawIInv'
  <1>1. /\ pc = "loop" /\ pc' = "idle" /\ todo = {} /\ cur' = Nowhere
        /\ UNCHANGED <<now, up, account, on, plan, tickAt, todo, posted, outcome, events, steady>>
    BY DEF EndTick, owner, history
  <1>2. TypeOK'
    BY <1>1 DEF AutoDrawIInv, PlanInv, TypeOK
  <1>3. TickInStep'
    BY <1>1 DEF TickInStep
  <1>4. PlansFollowClock'
    BY <1>1 DEF AutoDrawIInv, PlansFollowClock, Today
  <1>5. QED
    BY <1>1, <1>2, <1>3, <1>4, QuietInv

LEMMA NotUpInv ==
    ASSUME AutoDrawIInv, Interrupted \/ Down \/ Restart
    PROVE  AutoDrawIInv'
  <1>1. up # "up" => ~steady
    BY DEF AutoDrawIInv, PlansFollowClock
  <1>2. /\ ~steady' /\ UNCHANGED <<now, account, on, plan, posted, outcome>>
        /\ up' \in {"down", "up", "stopping"} /\ events' \in 0 .. MaxEvents /\ steady' \in BOOLEAN
    <2>1. CASE Interrupted
      BY <1>1, <2>1 DEF Interrupted, owner, history, AutoDrawIInv, PlanInv, TypeOK
    <2>2. CASE Down
      <3>1. CASE Event
        <4>1. events' = events + 1 /\ events < MaxEvents /\ steady' = FALSE
          BY <3>1 DEF Event
        <4>2. events' \in 0 .. MaxEvents
          BY <4>1, AutoDrawAssumption DEF AutoDrawIInv, PlanInv, TypeOK
        <4>3. QED
          BY <2>2, <4>1, <4>2 DEF Down, owner
      <3>2. CASE up = "stopping" /\ UNCHANGED <<events, steady>>
        BY <1>1, <2>2, <3>2 DEF Down, owner, AutoDrawIInv, PlanInv, TypeOK
      <3>3. QED
        BY <2>2, <3>1, <3>2 DEF Down
    <2>3. CASE Restart
      BY <1>1, <2>3 DEF Restart, owner, history, AutoDrawIInv, PlanInv, TypeOK
    <2>4. QED
      BY <2>1, <2>2, <2>3
  <1>3. \/ /\ pc' = "idle" /\ todo' = {} /\ cur' = Nowhere /\ tickAt' = -1
        \/ /\ pc = "run" /\ pc' = "loop" /\ UNCHANGED <<tickAt, todo, cur>>
        \/ UNCHANGED <<pc, tickAt, todo, cur>>
    BY DEF Interrupted, Down, Restart, tick
  <1>4. TypeOK'
    BY <1>2, <1>3 DEF AutoDrawIInv, PlanInv, TypeOK
  <1>5. TickInStep'
    <2>1. CASE pc' = "idle" /\ todo' = {}
      BY <2>1 DEF TickInStep
    <2>2. CASE UNCHANGED <<tickAt, todo, cur>> /\ ((pc = "run" /\ pc' = "loop") \/ pc' = pc)
      BY <1>2, <2>2 DEF AutoDrawIInv, TickInStep, Today
    <2>3. QED
      BY <1>3, <2>1, <2>2
  <1>6. PlansFollowClock'
    BY <1>2 DEF PlansFollowClock
  <1>7. QED
    BY <1>2, <1>3, <1>4, <1>5, <1>6, QuietInv

\* A result is terminal, and "completed" is a task that was done, or a claim.
LEMMA ResultOfTask ==
    ASSUME NEW task \in {"draw", "claim", "checkin"}, NEW what,
           what \in Outcomes(task) \/ what = "cancelledInBroker"
    PROVE  /\ TaskResult(task, what) \in Terminal
           /\ TaskResult(task, what) = "completed" => what = "done" \/ task = "claim"
  <1>1. /\ task = "draw" => what \in {"done", "nothingToDraw", "reauth", "error", "cancelledInBroker"}
        /\ what \in {"done", "nothingToDraw", "reauth", "error", "reauthNoted", "failed",
                     "unknown", "cancelledInBroker"}
    BY DEF Outcomes, DrawOutcomes, ClaimOutcomes, CheckinOutcomes
  <1>2. CASE what \in {"done", "nothingToDraw", "reauth", "error", "cancelledInBroker"}
    BY <1>2 DEF TaskResult, Terminal
  <1>3. CASE what \notin {"done", "nothingToDraw", "reauth", "error", "cancelledInBroker"}
    BY <1>1, <1>3 DEF TaskResult, Terminal
  <1>4. QED
    BY <1>2, <1>3

LEMMA FinishesInv ==
    ASSUME AutoDrawIInv, FinishOff \/ Finish \/ InterruptedInBroker \/ FinishInactive
    PROVE  AutoDrawIInv'
  <1>1. /\ pc \in {"gate", "run"}
        /\ UNCHANGED <<now, up, owner, tickAt, todo, cur, posted, events, steady>>
    BY DEF FinishOff, Finish, InterruptedInBroker, FinishInactive
  <1>2. cur \in Plans /\ Task[cur[2]] \in {"draw", "claim", "checkin"}
    BY <1>1, PlansArePairs, AutoDrawAssumption DEF AutoDrawIInv, TickInStep
  <1>3. \E status, what :
            /\ FinishPlan(status, what)
            /\ status \in Terminal
            /\ status = "completed" => what = "done" \/ Task[cur[2]] = "claim"
    <2>1. CASE FinishOff
      <3>1. FinishPlan("skipped", "off") /\ "skipped" \in Terminal /\ "skipped" # "completed"
        BY <2>1 DEF FinishOff, Terminal
      <3>2. QED
        BY <3>1
    <2>2. CASE FinishInactive
      <3>1. FinishPlan("skipped", "gaveUp") /\ "skipped" \in Terminal /\ "skipped" # "completed"
        BY <2>2 DEF FinishInactive, Terminal
      <3>2. QED
        BY <3>1
    <2>3. CASE Finish
      <3>1. PICK what \in Outcomes(Task[cur[2]]) :
                FinishPlan(TaskResult(Task[cur[2]], what), what)
        BY <2>3 DEF Finish
      <3>2. QED
        BY <1>2, <3>1, ResultOfTask
    <2>4. CASE InterruptedInBroker
      <3>1. /\ Task[cur[2]] = "draw"
            /\ FinishPlan(TaskResult(Task[cur[2]], "cancelledInBroker"), "cancelledInBroker")
        BY <2>4 DEF InterruptedInBroker
      <3>2. QED
        BY <1>2, <3>1, ResultOfTask
    <2>5. QED
      BY <2>1, <2>2, <2>3, <2>4
  <1>4. QED
    BY <1>1, <1>3, FinishInv

------------------------------------------------------------------------------
(***************************************************************************)
(* The theorems.                                                           *)
(***************************************************************************)
LEMMA InitAutoDrawIInv == Init => AutoDrawIInv
  <1> SUFFICES ASSUME Init PROVE AutoDrawIInv
    OBVIOUS
  <1>1. TypeOK
    <2>1. NoPlan \in [status : PlanStatuses, at : Nat, key : Nat]
      BY DEF NoPlan, PlanStatuses
    <2>2. Horizon \in Nat /\ MaxEvents \in Nat
      BY AutoDrawAssumption
    <2>3. QED
      BY <2>1, <2>2 DEF Init, TypeOK
  <1>2. \A p \in Plans : plan[p].status = "none"
    BY DEF Init, NoPlan
  <1>3. PlannedInsideWindow /\ PlansStayInTheirDay /\ CompletedTasksWereDone /\ PlannedFromItsDay
    BY <1>2 DEF PlannedInsideWindow, PlansStayInTheirDay, CompletedTasksWereDone, PlannedFromItsDay
  <1>4. OneClaimPlanADay
    BY <1>2, PlansArePairs DEF OneClaimPlanADay, Claims
  <1>5. TickInStep /\ PostedKeyIsKept
    BY DEF Init, TickInStep, PostedKeyIsKept
  <1>6. PlansFollowClock
    BY DEF Init, PlansFollowClock
  <1>7. FixedIsPlanned
    BY <1>1, <1>6, FixedArePlanned
  <1>8. QED
    BY <1>1, <1>3, <1>4, <1>5, <1>6, <1>7 DEF AutoDrawIInv, PlanInv

LEMMA NextAutoDrawIInv == AutoDrawIInv /\ [Next]_vars => AutoDrawIInv'
  <1> SUFFICES ASSUME AutoDrawIInv, [Next]_vars PROVE AutoDrawIInv'
    OBVIOUS
  <1>1. CASE Tick
    BY <1>1, TickInv
  <1>2. CASE Ensure
    BY <1>2, EnsureInv
  <1>3. CASE EndTick
    BY <1>3, EndTickInv
  <1>4. CASE \E e \in Entries : Begin(e)
    BY <1>4, BeginInv
  <1>5. CASE Pass
    BY <1>5, PassInv
  <1>6. CASE FinishOff \/ Finish \/ InterruptedInBroker \/ FinishInactive
    BY <1>6, FinishesInv
  <1>7. CASE Postpone
    BY <1>7, PostponeInv
  <1>8. CASE EnsureFails \/ FinishFails \/ Switch \/ Stop \/ \E e \in Entries : BeginFails(e)
    BY <1>8, EventInv
  <1>9. CASE Interrupted \/ Down \/ Restart
    BY <1>9, NotUpInv
  <1>10. CASE Advance
    BY <1>10, AdvanceInv
  <1>11. CASE UNCHANGED vars
    <2>1. UNCHANGED <<now, up, account, on, plan, pc, tickAt, todo, cur, posted, outcome, events,
                      steady>>
      BY <1>11 DEF vars
    <2>2. TypeOK' /\ TickInStep' /\ PlansFollowClock'
      BY <2>1 DEF AutoDrawIInv, PlanInv, TypeOK, TickInStep, PlansFollowClock, Today
    <2>3. QED
      BY <2>1, <2>2, QuietInv
  <1>12. QED
    BY <1>1, <1>2, <1>3, <1>4, <1>5, <1>6, <1>7, <1>8, <1>9, <1>10, <1>11 DEF Next, Scheduler

THEOREM AutoDrawIInvariant == Spec => []AutoDrawIInv
  BY InitAutoDrawIInv, NextAutoDrawIInv, PTL DEF Spec

\* autoDrawTimes and ensurePlans: whenever the service came up and however
\* check-ins were postponed, a random entry lies in its window, a plan in its
\* own day, and no fixed entry is left out by ticks that follow the clock.
THEOREM PlansAreWhole == Spec => []PlanInv
  <1>1. AutoDrawIInv => PlanInv
    BY DEF AutoDrawIInv
  <1>2. QED
    BY <1>1, AutoDrawIInvariant, PTL

\* "Nothing is drawn again after a restart": whatever crashed, failed to be
\* written or was stopped, the draws of a plan leave with one idempotency key.
THEOREM EveryPlanHasOneKey == Spec => []OneKeyPerPlan
  <1>1. AutoDrawIInv => OneKeyPerPlan
    BY DEF AutoDrawIInv, PostedKeyIsKept, OneKeyPerPlan
  <1>2. QED
    BY <1>1, AutoDrawIInvariant, PTL

\* claimScheduled: however the owner switches entries, a day has one claim.
THEOREM OneClaimIsPlannedADay == Spec => []OneClaimPlanADay
  <1>1. AutoDrawIInv => OneClaimPlanADay
    BY DEF AutoDrawIInv
  <1>2. QED
    BY <1>1, AutoDrawIInvariant, PTL

\* autoTaskExecutionResult: a draw or a check-in recorded completed was done.
THEOREM CompletedMeansDone == Spec => []CompletedTasksWereDone
  <1>1. AutoDrawIInv => CompletedTasksWereDone
    BY DEF AutoDrawIInv
  <1>2. QED
    BY <1>1, AutoDrawIInvariant, PTL

\* FinishAutoDrawPlan overwrites what it finds and never meets a finished plan:
\* the plan a tick executes is running, and those it holds are unfinished.
THEOREM NoPlanFinishesTwice == Spec => FinishedStaysFinished
  <1>1. ASSUME AutoDrawIInv, [Next]_vars, NEW p \in Plans, plan[p].status \in Terminal
        PROVE  plan'[p] \in {plan[p], Pruned(p)}
    <2>1. plan[p].status \notin {"none", "pending", "running"}
      BY <1>1 DEF Terminal
    <2>2. /\ plan \in [Plans -> [status : PlanStatuses, at : Nat, key : Nat]]
          /\ pc \in {"gate", "run"} => cur # p
          /\ \A e \in todo : <<Today, e>> # p
      BY <1>1, <2>1 DEF AutoDrawIInv, PlanInv, TypeOK, TickInStep
    <2>3. CASE Tick
      BY <1>1, <2>3 DEF Tick
    <2>4. CASE Ensure
      <3>1. PICK new \in NewPlans :
                \E at \in [new -> Today * Day .. (Today + 1) * Day] :
                    plan' = [q \in Plans |->
                        IF q[1] = Today /\ q[2] \in new
                        THEN [status |-> "pending", at |-> at[q[2]], key |-> plan[q].key + 1]
                        ELSE plan[q]]
        BY <2>4 DEF Ensure
      <3>2. ~(p[1] = Today /\ p[2] \in new)
        BY <1>1, <2>1, NewPlansAreMissing, PlansArePairs DEF Missing
      <3>3. QED
        BY <1>1, <3>1, <3>2
    <2>5. CASE \E e \in Entries : Begin(e)
      <3>1. PICK e \in Entries : Begin(e)
        BY <2>5
      <3>2. e \in todo /\ plan' = [plan EXCEPT ![<<Today, e>>].status = "running"]
        BY <3>1 DEF Begin, Earliest
      <3>3. QED
        BY <1>1, <2>2, <3>2
    <2>6. CASE FinishOff \/ Finish \/ InterruptedInBroker \/ FinishInactive
      BY <1>1, <2>2, <2>6 DEF FinishOff, Finish, InterruptedInBroker, FinishInactive, FinishPlan
    <2>7. CASE Postpone
      <3>1. pc = "run" /\ \A q \in Plans \ {cur} : plan'[q] = plan[q]
        BY <2>2, <2>7 DEF Postpone
      <3>2. QED
        BY <1>1, <2>2, <3>1
    <2>8. CASE UNCHANGED plan
      BY <2>8
    <2>9. CASE EndTick \/ Pass \/ EnsureFails \/ FinishFails \/ Switch \/ Stop
               \/ (\E e \in Entries : BeginFails(e))
               \/ Interrupted \/ Down \/ Restart \/ Advance \/ UNCHANGED vars
      BY <2>9 DEF EndTick, Pass, EnsureFails, FinishFails, Switch, Stop, BeginFails,
                  Interrupted, Down, Restart, Advance, vars
    <2>10. QED
      BY <1>1, <2>3, <2>4, <2>5, <2>6, <2>7, <2>9 DEF Next, Scheduler
  <1>2. AutoDrawIInv /\ [Next]_vars =>
            [\A p \in Plans : plan[p].status \in Terminal => plan'[p] \in {plan[p], Pruned(p)}]_vars
    BY <1>1
  <1>3. QED
    BY <1>2, AutoDrawIInvariant, PTL DEF Spec, FinishedStaysFinished
===============================================================================
