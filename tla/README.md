# TLA+ verification of lottery-bot

A verification project for the account workbench in this repository (Go, package
`skyeapi/lottery-bot`): TLA+ modules of its concurrent and failure-prone parts, TLC
configurations that check them on small instances, and proofs, checked by TLAPS, that the
central properties hold for every value of the constants.

Contents: [the system](#1-the-system) · [modules and code](#2-modules-and-the-code-they-model) ·
[runs](#3-runs) · [bounds](#4-bounds) · [fairness](#5-fairness) · [proofs](#6-proofs) ·
[disagreements](#7-disagreements-with-the-documentation) ·
[assumptions and gaps](#8-assumptions-and-what-is-not-modelled) · [plan](#9-plan) ·
[how to run](#10-how-to-run)

## 1. The system

One process serves a web page and runs a scheduler. It manages accounts of a lottery platform:
it checks them in, claims the daily draws, draws, buys draws, unlocks the daily pass, and keeps
their sessions alive. Everything it must remember is in two files: the state file (JSON) and
the encrypted credential vault. Money is spent by two operations, so the hard question is always
the same: *after a lost reply, a crash, a failed write or an overlapping request, does the
program still know what it has done?*

| Component | State | Operations | Talks to |
|---|---|---|---|
| State file `state/store.go` | `diskState` in memory and on disk, `mu` | every mutation: change, write the whole file, roll back on failure | everybody |
| Lock table `store.go:333-390, 1136-1160` | `actionLocks`, `authLocks`: key → mutex with a reference count | `LockAction`, `LockAuth`, `LockAutoDrawPlan`, release | purchases, claim, broker, scheduler |
| Actions `store.go:272-457` | one record per day, kind and account: status, idempotency key, started, retryable | create, update, reset, rotate | services |
| Draw purchase, pass, claim, check-in `service/purchase.go, daily_claim.go, runner.go` | the record; local copies across platform calls | the four side effects and their reconciliation | store, broker, platform |
| Scheduler `service/auto_draw.go` | plans of the day (status, time, key) | tick: prune, plan, begin, run, finish, postpone | store, registry, services |
| Session broker `auth/broker.go` | the bundle of an account (tokens, cookies) | `Acquire`, `Reauthenticate`, `RenewParent`, `RenewLottery` | vault, platform, auth lock |
| Session manager and guard `auth/remote_sessions.go` | ledger of sessions the workbench created | list, cleanup, revoke one/others, capacity check before a login | vault, platform, broker |
| Vault `secret/file_vault.go` | the vault file, a mutex per `FileVault` value (the server has two) | `Load`, `Save`, `Delete` | broker, session manager, account handlers |
| Accounts `state/accounts.go, web/accounts.go, schedules.go` | records, code watermark, schedules | create, edit, delete, schedule | store, vault |
| Migration `state/migration.go, cmd/lottery-bot` | version 3 and 4 of the state file | import, rewrite | vault, store |
| Manual draw `service/manual_draw.go` | none of its own; its callers write a log row or a plan | `DrawAvailable`, by a click or a plan | lock table, broker, platform, scheduler |
| Schedule lists `state/schedules.go, web/accounts.go` | the list of automatic tasks of an account | replace the list, switch one entry | store |
| Admin sessions `web/admin_auth.go, csrf.go` | tokens with an expiry, in memory | gate with renewal, login, logout | every handler, the browser |
| Server process `web/server.go` | the goroutines of requests | gate, then a handler; ends and restarts | all of the above |
| Queries, snapshots, logs, pages, configuration | display data | read-only | broker, platform |

Hard behaviours: requests of several browsers and the scheduler run the same operation at the
same time; each reads state, waits for the platform for seconds to minutes, then writes; replies
get lost and effects come late; the process dies between a post and the record of its outcome;
the date turns while a request waits; two files are changed without a common transaction; a
refresh cookie is worth one exchange.

What makes each component correct, in one line:

- locks: one holder per key, nobody waits for ever, no entry is lost or leaked;
- purchases: nothing is paid twice, a payment that may have happened is on record, a record
  never claims what did not happen;
- claim and check-in: what may have been granted is not posted again; "completed" is true;
- manual draw: one call is one draw however often it posts, a chance that was seen is not spent
  by another call of the day, the log is true;
- schedule lists: an entry is as the last request meant for it has left it;
- admin sessions: who is logged in stays so until a logout, the end of the process or the time
  limit, and the browser's cookie agrees with the store;
- scheduler: each entry runs at most once a day, in its window, with one key, and is settled;
- broker: one renewal at a time, with the latest cookie; a usable session is not thrown away;
- sessions: only old sessions of the workbench are revoked, the ledger forgets none of them;
- vault and accounts: operations on one account touch no other, the two files agree on the
  accounts there are, a new account inherits nothing, a deletion is not disturbed.

## 2. Modules and the code they model

| Module | Code | Correspondence |
|---|---|---|
| `Mutex` | the contract of the lock table | `Ask`, `Take`, `Give` per key: the abstract specification |
| `KeyedLock` | `LockAction`, `LockAuth`, `lockByKey` | one action per critical section: look up/allocate, `mu.Lock`, `mu.Unlock`, drop the reference. Heap cells are `Entries` and may be handed out again once unreachable |
| `ActionLedger` | the `Action` record and its updates | pure operators on a record `[status, idem, started, retryable]`; no state of its own |
| `PurchaseDraw` | `Runner.PurchaseDraw` | one action per write of the state file or reply of the platform; the platform charges a key at once, later or never |
| `DailyPass` | `Runner.UnlockDailyPass` | as above, over several dates: record, lock and key belong to the date the request read, the pass to the day it is |
| `DailyClaim` | `Runner.ClaimDaily` | no key: the outcome is judged by the number of remaining draws, which draws and purchases move meanwhile |
| `Checkin` | `Runner.Checkin`, `markCheckinCompleted` of the account list | no lock, as in the code: every store call is a step of its own |
| `AdminSessions` | `adminSessionStore`, `withAdminAuth`, login, logout, `withCSRF` | one action per critical section of the store; a request walks through `sent`, `handler`, `answer`; the browser's cookie is set by the answers in the order they arrive |
| `ManualDraw` | `DrawAvailable` with its two callers | extends `KeyedLock` and `DailyClaim`: the critical section is the real lock table, the remaining draws are those a claim adds; one action per request to the platform, `step` is the position |
| `ScheduleEdits` | `handleAutoTasksPut`, `handleAutoTaskToggle`, `SetDrawSchedules` | the two critical sections of a switch are two actions, with a copy of the list (`draft`) between them |
| `Workbench` | the process: the gate, the handlers of one account, the scheduler | extends the three modules above: a request that has reached the handler takes the steps of its operation, and every part ends with the process |
| `ScheduleTime` | times of `auto_draw.go` | random and fixed times, Beijing day against the UTC day, giving up |
| `AutoDraw` | `AutoDrawScheduler`, plans in the store | `pc` walks through a tick: ensure, loop, gate, run; date and time are read once per tick |
| `VaultMap` | what callers expect of `secret.Vault` | a map updated one entry at a time: the abstract specification |
| `FileVault` | `FileVault` | `Open` (lock and read the file), `Save`/`Delete`/`GiveUp` (replace it or not, unlock), per `FileVault` value; who is `overtaken` by another value is remembered |
| `Registry` | account handlers, registry, schedules, file versions, migration | extends `FileVault`, with the broker's value and the handlers' (`server.go:181, 209`): a handler walks through `record`, `login`, `open`, `vault`, `remove`, `unregister`, `undo`; a business, validation, login or session request through `begun`, `loaded`, `saving`, reading and replacing the file in two steps. Any of them may fail or be overtaken at each step |
| `Broker` | `Broker` of one account, with the edit and deletion handlers | before the lock, after the lock, after each reply, save; tokens and cookies are numbers |
| `SessionLedger` | session manager, capacity guard, `trackManagedSession` | all operations of one account under the auth lock, with other devices and edits beside them |

`PurchaseDraw`, `DailyPass`, `DailyClaim` and `Broker` use a lock variable in place of the lock
table; `KeyedLock` implements exactly that (`ImplementsMutex`, theorem), also inside the process
and over its restarts (`DrawsUseAMutex`). A restart empties the table: it was in memory only
(`LockTableLost`), and in `Mutex` everybody lets go (`AllLost`). `Broker` and
`SessionLedger` load and save the entry of one account atomically. `FileVault` implements that
among the users of one value (`AccountsStayApart`, `VaultImplementsMap`); the server has two, and
`EntriesStayApart` says what is left of it: the entry of another account changes only when a copy
is written back that the other value has overtaken.
The state file appears everywhere as "the write happens, or fails and memory is rolled back":
`persistLocked` writes a temporary file and renames it, under `Store.mu`.

## 3. Runs

Twelve questions; `expect` violation means that the run exhibits a
disagreement with a document of the repository.

| Run | Shows |
|---|---|
| `purchase` | 3 overlapping requests: an unsettled purchase is on record (`UnsettledIsOnRecord`), completed means charged and failed means not (`RecordTellsTheTruth`), the key changes only when nothing can happen under the old one, a double click buys once |
| `daily_pass` | 2 requests over 2 days: the pass of a day is paid once (`OnePassADay`) unless a request of the day before runs into it, no unlock is off the record (`PassInv`), keys change only uncharged |
| `workbench` | the process with two goroutines, one kind of meeting per behaviour (`MCMixes`): a click beside the plan, a claim beside the plan or another claim, login and logout beside a page, edits of a list beside each other; lost and late replies, answers out of order, midnight, failed writes and restarts. The invariants of all parts hold together (`WorkbenchInv`); one draw per call, a chance for each post, a true log; a completed claim was granted and an open one is not posted again; the cookie is good; edits survive; the lock table is a mutex per key and serves every waiter |
| `switch_overlap` (violation) | two overlapping switches of different entries: the second to write puts the first entry back |
| `checkin` | 2 calls and 2 account lists without a lock: completed means checked in; while the process lives no pending record is orphaned (`CheckinInv`); a lost check-in is not posted by a later call |
| `auto_draw` | 4 entries (random draw, fixed check-in, fixed and random claim) over a day and the beginning of the next, with one crash, failed write, stop or switch anywhere: times in window and day, no fixed entry missed (`PlanInv`), one key per plan, one claim plan a day, completed means done, finished stays finished, due plans are settled again and again |
| `auto_draw_reauth` (violation) | a claim that needs a login finishes its plan as *completed* |
| `registry` | 2 goroutines in handlers and one behind the broker, each side with its own `FileVault` value, restarts, failures and the migration: each value keeps its writers apart and their copies current but for the other value (`RegistryInv`, `EntriesStayApart`), vault and state file agree but for what a stale copy or a late save has done (`StoresAgree`), a new code finds nothing of an old one (`NothingInherited`), no work starts during a deletion (`DeletionIsQuiet`) |
| `file_vault_two` (violation) | with the two `FileVault` values of `server.go` the broker's save undoes a handler's save of another account |
| `broker` | 2 callers of all entry points, with one kind of trouble (crashes and failed saves, edits, or the deletion): one renewal at a time (`BrokerInv`), the last password wins unless the edit crosses a call, usable sessions are not thrown away, saves never go back |
| `session_ledger` | all session operations with lost replies, failed saves, crashes, edits, other devices: cleanup is conservative, the ledger forgets no session, a guarded login finds room, a save never writes an older ledger back |
| `session_unguarded` (violation) | a password login at the threshold that no guard has looked at |

Each property is paired with at least one mutant, an operator `...` marked "Mutant of" in the
module: a plausible slip of the code (a dropped check, a missing lock, a swapped order) with
which TLC finds the property violated.

Exceptions inside properties are history variables with a name (`forgotten`, `disturbed`,
`reenabled`, `faulty`, `overlapped`, `steady`, `trouble`); each stands for behaviour the code really
has and no document forbids, or that section 7 lists. Those of `Workbench`: `stolen` (the chance was
taken by the platform page, a late draw, or a call of the other date, which holds another lock),
`again` (a plan executed again after it had posted is *skipped* when its own draw used the last
chance), `overtaken` (the answer to an older request came after that of a login or logout and put
an old cookie back), `untold` (the session ended and no answer said so), `shaken` (an overtaken
switch put the entry back).

## 4. Bounds

| Bound | Why it is enough |
|---|---|
| 2 goroutines (`Workbench`) | a release between another goroutine's two critical sections; a call beside any other step of the process. A third one adds nothing an invariant of pairs could miss, and the theorems cover every number |
| `Mixes`, `About` (`Workbench`) | which kinds of request meet in a behaviour: the pairs that share state (draws with draws, claims and the plan; session handlers; list handlers). What no request of the behaviour is about stays as it is: no chances without draws, no list without edits. The theorems assume nothing about `Mixes` |
| requests of scripts only where nobody logs in; a draw is asked for while a key is left (`Ask`) | the gate is the same for every handler and is met by the page; keys are random and never run out in the code |
| `Keys = {1, 2}` dates, 2 cells; `Midnight` only without claims | one midnight between two calls; the freed cell is taken by the other date. `DailyClaim` is about one day |
| `Entries` are numbers, the lowest free one is taken | the allocator may hand out a freed cell at once, which is the dangerous case |
| `DrawKeys = {k1, plan}`, `MaxLeft = 1`, `Grant = 1`, one claim key (`Workbench`) | a click beside the plan with one chance for both, and a claim that gives one while a draw takes it |
| `Ttl = 2`, 2 tokens, `TaskIDs = {a, b}`, `MaxTasks = 2` | a session about to expire that is renewed; an old session and a new one; two entries, switched and replaced |
| 3 requests, 3 keys (`PurchaseDraw`), 2 requests (`DailyPass`) | a double click while an older request is unsettled; the proofs cover every number |
| `LastDay = 1` (`DailyPass`) | one midnight: a request of yesterday beside one of today |
| `Callers = 2`, `Viewers = 2`, one key (`Checkin`) | each kind overtakes its like between two store calls; the check-in never renews a key |
| `Day = 3`, `Horizon = 4`, `MaxTick = 1`, `MaxEvents = 1` (`AutoDraw`) | a full day, midnight and the next morning; a tick that straddles it; one disturbance at any point. An hour is one unit, Beijing is one ahead |
| `RetentionDays = 1` (seven in the code) | pruning happens inside the horizon; the theorems are for every number of days |
| `MaxToken = 3`, `MaxTrouble = 1` (`Broker`) | an old, a current and a newer session; kinds of trouble are combined with concurrency, not with each other |
| 5 session IDs, one of them `Unnamed`, `MaxLedger = 3` (24), `Threshold = 3`, `Durable = 1` (`SessionLedger`) | the ledger overflows, a token that does not tell its session comes between others, the threshold is reached by own and foreign sessions, a cleanup has two sessions to revoke and one to spare |
| 2 goroutines in handlers, 1 behind the broker, two `FileVault` values, `MaxCode = 2`, one legacy account, `MaxRequests = 3` (`Registry`) | create, delete and create again, or two crossing requests after a creation, with a business request; validation, login and session requests count among the three. Both values read before either writes; the codes run out. One bundle: contents are `Broker`'s subject |

Symmetry is used only over interchangeable requests, keys and handlers, and only in runs without
liveness properties.

## 5. Fairness

- `Workbench`: weak fairness of the steps of a goroutine inside `DrawAvailable` other than taking the
  lock - its requests have deadlines, so each step is taken with some result, and the deferred
  release runs on every path; Go schedules runnable goroutines. Strong fairness of taking the lock:
  `sync.Mutex` switches to starvation mode and hands the lock to the longest waiter after 1 ms.
  Clients, the platform and the clock are not fair. `EveryWaiterServed` says that a goroutine that
  waits for a lock gets it, or its process ends.
- `AutoDraw`: weak fairness of the scheduler's own steps, as its goroutine loops on a ticker while
  the service is up. The clock, the owner, crashes and starts are not fair. `DuePlansSettle` says
  that, again and again, the service is down or nothing is overdue; postponement and giving up
  are part of the scheduler's steps, so a task that fails transiently for ever is covered.

Everything else is safety.

## 6. Proofs

All proofs are for arbitrary values of the constants, under the named assumptions of the modules:

- the "none" values lie outside the sets they are absent from, dates, counts and bounds are numbers,
  and `Grant` and the session limits are positive (`LedgerAssumption`, `PurchaseAssumption`, `ClaimAssumption`, `PassAssumption`,
  `VaultAssumption`, `SessionAssumption`, `DrawAssumption`, `EditAssumption`);
- there are finitely many goroutines, for the counts of the lock table (`LockAssumption`), and the
  parts of the process have the same ones (`WorkbenchAssumption`); `Checkin` needs no assumption of
  its own;
- a day is longer than an hour, the UTC day begins inside the Beijing day, start and end of an entry
  are times of a day, plans are kept for at least a day (`TimeAssumption`, `AutoDrawAssumption`);
- accounts are the imported ones and the codes, which differ (`RegistryAssumption`), and "no edit" is
  no bundle (`BrokerAssumption`).

The theorems on the vault and the registry are for any number of `FileVault` values, and any
assignment of goroutines to them. Only `VaultImplementsMap` supposes one value for all writers
(`OneInstance`). That is what the server would have if broker and handlers shared theirs; it does
not, and the run `file_vault_two` shows what that costs.

| Theorem | Says |
|---|---|
| `WorkbenchProofs!LockTableInvariant`, `LockTableExcludes`, `LockTableRefinesMutex` | `[]LockInv`; mutual exclusion per key; the table implements `Mutex` (its safety part) |
| `WorkbenchProofs!ClaimInvariant`, `OpenClaimStaysOnRecord`, `CompletedClaimWasGranted`, `OpenClaimStaysUnposted` | `[]ClaimInv`; `OpenClaimIsOnRecord`; `CompletedIsGranted`; `OpenClaimIsNotReposted` |
| `PurchaseDrawProofs!PurchaseInvariant`, `OpenPurchaseIsOnRecord`, `PurchaseRecordIsTrue`, `PurchaseKeyDiscipline` | `[]PurchaseInv`; `UnsettledIsOnRecord`; `RecordTellsTheTruth`; `KeyReplacedOnlyWhenSettled` |
| `PurchaseDrawProofs!DoubleClickIsOnePurchase` | `DoubleClickBuysOnce`: of overlapping requests the later posts under the key of the first, or not at all |
| `DailyPassProofs!PassInvariant`, `PassPaidOnceADay`, `OpenUnlockIsOnRecord`, `CompletedPassIsUnlocked`, `PassKeyDiscipline` | `[]PassInv`; `OnePassADay`; `UnsettledIsOnRecord`; `CompletedIsUnlocked`; `KeyReplacedOnlyUncharged` |
| `CheckinProofs!CheckinInvariant`, `CompletedMeansCheckedIn`, `LostCheckinStaysPut` | `[]CheckinInv`; `CompletedIsCheckedIn`; `LostCheckinIsNotReposted` |
| `AutoDrawProofs!AutoDrawIInvariant`, `PlansAreWhole`, `EveryPlanHasOneKey`, `OneClaimIsPlannedADay`, `CompletedMeansDone`, `NoPlanFinishesTwice` | `[]AutoDrawIInv`; `PlanInv`; `OneKeyPerPlan`; `OneClaimPlanADay`; `CompletedTasksWereDone`; `FinishedStaysFinished` |
| `WorkbenchProofs!ClaimsImplemented`, `LockTableImplemented`, `DrawsUseAMutex` | the process implements `DailyClaim`, the lock table, and so `Mutex` |
| `WorkbenchProofs!DrawsInvariant`, `OneDrawPerCall`, `PostsHaveAChance`, `LogIsTrue` | `[](DrawSafe /\ LockInv /\ ClaimInv)`; `RetriesDrawOnce`; `ChanceIsThere`; `LogTellsTheTruth` |
| `WorkbenchProofs!ClaimsBesideDraws` | `CompletedIsGranted` and `OpenClaimIsNotReposted`, of the process |
| `WorkbenchProofs!EditsAreKept`, `CookieStaysGood`, `WorkbenchInvariant` | `EditsSurvive`; `CookieIsGood`; `[]WorkbenchInv` |
| `BrokerProofs!BrokerInvariant`, `PasswordIsKept`, `NoSaveGoesBack`, `EverySessionIsNeeded` | `[]BrokerInv`; `PasswordIsLastEntered`; `SavesMoveForward`; `NoNeedlessSession` |
| `SessionLedgerProofs!SessionIInvariant`, `LedgerHolds`, `NothingIsForgotten`, `GuardLeavesRoom` | `[]SessionIInv`; `LedgerInv`; `NoSessionForgotten`; `LoginRespectsCapacity` |
| `SessionLedgerProofs!LedgerOnlyMovesForward`, `CleanupSparesTheRest` | `LedgerMovesForward`; `CleanupIsConservative` |
| `RegistryProofs!VaultInvariant`, `VaultKeepsEntriesApart` | `[]VaultInv` and `EntriesStayApart`, of the vault by itself |
| `RegistryProofs!VaultImplementsMap` | with one `FileVault` value: `AccountsStayApart`, the refinement of `VaultMap` |
| `RegistryProofs!RegistryIInvariant`, `RegistryInvariant`, `HandlersKeepEntriesApart` | `[]RegistryIInv`; `[]RegistryInv`; `EntriesStayApart`, of the vault under its callers |
| `RegistryProofs!TwoStoresStayInAgreement`, `NewAccountsInheritNothing`, `DeletionsAreQuiet` | `StoresAgree`; `NothingInherited`; `DeletionIsQuiet` |

The inductive invariants, and why each part is needed:

- `LockInv`: a goroutine that uses an entry finds it in the table under its key
  (`UsersAgreeWithTable`); the count of an entry is the number of its users (`RefsCountUsers`), so
  zero means nobody; a slot is in use (`NoLeakedSlot`) and cells are not shared by keys
  (`SlotsDistinct`); the owner of a mutex is inside (`MutexOwner`). Exclusion is not inductive
  without the counts: an early deletion would hand out a second mutex.
- `PurchaseInv`: the lock (`LockHeld`), what the holder's position says about the record
  (`RecordFollowsRequest`), which records there are (`RecordShape`), what the platform may hold
  (`PlatformShape`), and that the baseline counts only purchases of other keys
  (`BaselineCountsOthers`). Without the last one "the dashboard shows more than the baseline"
  would not imply that this key was charged.
- `ClaimInv`: the same, with `BaselineIsFresh`/`BaselineHolds`: the number a claim is compared
  with was read after the previous grants, so it can be exceeded only by this grant or by draws
  bought meanwhile.
- `RecentIsAccountedFor`, for the double click: while `UpdatedAt` is older than a request, only the
  open purchase can have been posted since the request began, and a record somebody may resume
  hides no other key. `PurchaseInv` says nothing of what a waiting request has missed.
- `PassInv`: per date, with `KeysApart` (no two dates share a key) and `DatesAreRight` (a request's
  date is not in the future), which keep the effects of an old request out of today's record.
- `VaultInv`: who has read the file holds the mutex of its value (`OneWriterPerInstance`), so the copy
  is what the file holds unless another value has written since (`CopyIsCurrent`), so writing it
  back changes one entry, or is one of the writes `EntriesStayApart` names.
- `DrawInv`, `ChanceIsThere`, `LogTellsTheTruth` (together `DrawSafe`): the lock is held where the
  code holds it, for the date the call has read (`LockFollowsCall`); a key belongs to one call, a
  call to one date (`KeysFollowCalls`), so two calls that post for one date would both hold its
  lock, which `LockInv` excludes; and a call that has not posted knows that nothing was drawn
  (`ResultsAreTrue`). That the chance is there is an invariant only beside `LockInv`, and `LockInv`
  only while the calls ask for dates: the three are proved together.
- `EditInv`: a switch nothing has overtaken is about to write the list there is, but for its entry
  (`DraftsAreCurrent`).
- `SessionInv`: what the store counts down and what has really happened agree (`TimesAreRight`), and
  an answer under way sets a cookie that is good when it arrives, unless it is old
  (`AnswersAreGood`): without the latter `CookieIsGood` is not inductive.
- `CheckinIInv`: who is about to write "completed" has seen the check-in (`WritersSawCheckin`), a
  call that settles the record has heard something (`FinishHasReply`), and while calls do not
  overlap a lost reply leaves a record no later call opens again (`LostIsNotReopened`). There is no
  lock, so each part speaks of what a call remembers instead of who holds what.
- `AutoDrawIInv`: the plan a tick executes is running and those it still holds are unfinished and of
  its day (`TickInStep`), which is all that keeps `FinishAutoDrawPlan` from overwriting a result;
  what was posted for a plan bears the plan's key, and a plan that was posted for and is pruned is
  of a day no tick will plan again (`PostedKeyIsKept`, with `PlannedFromItsDay`: no plan has a time
  before its day, so none is pruned during it); and ticks that follow the clock have planned every
  fixed entry of their day (`PlansFollowClock`). The arithmetic is in lemmas on `DayOf`.
- `BrokerIInv`: without an entry there is nothing to start from (`AbsentIsBlank`); copies have the
  password entered last (`PasswordsAgree`); the vault misses a new cookie only while the call that
  got it is about to save it (`NewCookieIsSaved`); tokens are numbered as they are issued, so "not
  older" can be said of a copy at all (`TokensInOrder`); and a call on its way to a new session has
  its reason, written down before the call forgets it (`SessionIsNeeded`).
- `SessionIInv`: every copy of the bundle that may be written back holds a ledger of the
  workbench's own sessions, and an operation works on what the vault holds unless an older bundle
  came in between (`CopiesAreLedgers`), without which no save could be compared with the vault; the
  session of a half done login is owned, that of a half done revocation no longer listed
  (`SidInStep`); what a cleanup still has to revoke has enough newer entries after it, and what it
  is about to drop is not listed any more (`CleanupInStep`); and what a guard has found does not
  outlive its login (`GuardInStep`).
- `RegistryIInv`: where each kind of request can be (`RequestsInStep`); nothing outlives the process
  but the files (`NothingOutlivesServer`); a code above the watermark has neither data nor a
  request, and is in no copy of the file, however stale (`UnusedIsEmpty`), from which
  `NothingInherited` follows at the creation; what a deletion has disabled stays so until another
  request enables it (`DisabledStays`), from which `DeletionIsQuiet` follows; and on an account
  nothing has disturbed one change is made at a time, its credentials are missing exactly while
  that is halfway (`UndisturbedIsWhole`, `ImportedIsSaved`), from which the two files agree.

`WorkbenchProofs` first proves the lock table and the daily claim by themselves, from their own
specifications and assumptions, and then composes these proofs instead of repeating them: a step of the process
is a step of `KeyedLock`, or leaves it alone, and likewise for `DailyClaim` (`LocksAsKeyedLock`,
`ClaimsAsDailyClaim`), so the theorems of those modules hold of the process; only what the parts
know about each other is proved anew.

Each step lemma has one case per action; action properties follow from the invariant and the one
action that can falsify them; refinements map each step to a step of the abstract specification
or a stutter.

The ledger is a sequence that is filtered, extended and cut. The filter (`Only`) is a recursive
function; what it returns for a ledger of any length is proved without the library's induction
theorems, which the provers cannot instantiate: a set of naturals that has 0 and, with each of its
members, the next is all of them (`SetOfNaturals`, from the well-foundedness of `<`), and the
lengths for which a fact about `Only` holds are such a set (`CollectorExists`, `OnlyCollects`,
`OnlyFilters`). The ledger operators' lemmas (`OnlyKeeps`, `TrackAdds`, `TrackKeeps`, `ExcessIsOld`)
follow.

Only model-checked: liveness (`EveryWaiterServed`, `DuePlansSettle`) and the fairness it rests on,
which TLAPS 1.4.5 does not support together with `ENABLED`.

## 7. Disagreements with the documentation

Shown by a run:

1. `auto_draw_reauth` - `auto_draw.go:367` against `README.md:12` and functional design line 139:
   a claim plan that met a dead session is written *completed*, because the conversion at
   `auto_draw.go:355` drops the action and its message.
2. `file_vault_two` - `server.go:170` (values at 181 and 209) against `README.md:3`: broker and handlers have a `FileVault`
   each, so two mutexes guard one file and an update of another account may be lost.
3. `session_unguarded` - `server.go:243` against `README.md:25`: the capacity guard reaches the
   broker only when a session dialog has been opened since the start.

4. `switch_overlap` - `accounts.go:864` against `2026-08-30-star-amount-auto-tasks-performance-design.md:52`
   (a switch changes a single task): the handler writes back the whole list it has read, and the
   entry another request has changed meanwhile with it.

Met while modelling, visible in the models, without a run of their own:

- *Claims and check-ins.* A draw bought while a claim is open completes a claim that was not granted
  (`daily_claim.go:145`, against "verified" in `README.md:11`). Two check-ins may post at once
  (`runner.go:156`, requirements line 105). A claim interrupted between start and post stays
  unknown for the day (`daily_claim.go:164`).
- *Purchases.* A request that passes midnight while it waits pays for, and compares with, the new
  day but records it on the old one (`purchase.go:28, 122, 335`). If the state file cannot be
  written after the post, the waiting half of a double click buys again (`purchase.go:96`).
- *Scheduler.* Between 07:00 and 08:00 a failing check-in is given up, since "midnight" is computed
  by truncating in UTC (`auto_draw.go:530`, comment 468). A fixed entry at 00:00 is accepted and
  never planned (`auto_draw.go:213`). A shutdown inside the broker is recorded *failed*, as the
  cause is wrapped with `%v` (`broker.go:259`). The log of a postponement is lost for entries with
  a generated ID (`auto_draw.go:573`), and a crash between finishing and logging loses the log
  (`auto_draw.go:336`). A day whose claim plan was made for an entry that is then switched off
  is left without a claim (`auto_draw.go:163`). A plan resumed after its draw used the last
  chance is recorded *skipped* although a prize was drawn (`manual_draw.go:53`). A click and a plan on
  either side of midnight hold different locks and may both see the last chance
  (`manual_draw.go:38`).
- *Admin sessions.* Every answer sets the cookie again, so a late answer puts an old session back
  after a login or logout (`admin_auth.go:205`).
- *Sessions.* `Reauthenticate` returns a saved token the platform has rejected
  (`broker.go:109, 157`). The session dialog is served from a 60 s cache that neither cleanup nor
  revocation invalidates (`remote_sessions.go:211`, against `README.md:25`). The preview ranks by
  last activity, the cleanup by last sight (`remote_sessions.go:376, 468`).
- *Accounts.* An edit that crosses a renewal has its password written back over
  (`accounts.go:398`); a renewal or an edit that crosses a deletion leaves credentials without
  an account (`accounts.go:426, 474`), as does a validation or session request, which asks for no
  enabled account (`accounts.go:303`). An edit that read the record earlier writes the status it
  has read: it re-enables an account being deleted, against the comment at `accounts.go:463`, and
  undoes a disabling.
  With a version 3 file, accounts and codes are forgotten at a restart and codes given again, and
  so are codes deleted before the first creation, although `state/accounts.go:217` says "never
  reused" (`Registry`: `forgotten`). A duplicate remote user is reported but the account stays
  enabled (functional design line 28), and `MigrateV3` does not look for duplicates. The health
  entry of a deleted account stays in the file. After `z9` no account can be created
  (`accounts.go:218`).

## 8. Assumptions, and what is not modelled

Assumed of the environment: the platform charges an idempotency key at most once; 401/403 and
"insufficient balance" mean that nothing happened; the dashboard is consistent with itself; for
`PurchaseDraw`, draws are bought only through the program; the platform's day turns with Beijing's;
the clock is not set back; `rename(2)` is atomic; the garbage collector reclaims only unreachable
cells; `flock` keeps a second process out. `Broker` and `SessionLedger` assume that no write of another
account strikes theirs; `EntriesStayApart` says when that fails.

Several hazards of this code are lost by it, and the properties that name them say what holds
besides: an edit that re-enables an account under deletion (`reenabled`), a write that crosses
another of the same account (`disturbed`, `stale`), an edit that crosses a renewal (`trouble`
of `Broker`), an overtaken switch (`shaken`; the loss itself is what `switch_overlap` shows), a
rotated cookie that no save has reached (`trouble`). These cases are part of the models and are
reached in the runs; the exceptions are as narrow as the code allows.

Abstracted: prices, balances, labels, login names, HTTP, encryption, display texts. The outcomes of
the tasks in `AutoDraw` are those the services can return; the services are in their own modules.

Not modelled, with the reason:

- the platform client: encoding of requests and decoding of replies, stateless; what its callers
  learn is external behaviour in every module;
- money and quota: conversions for display, on which no decision depends;
- queries and reports: read-only, with the session recovery that `Broker` models;
- runtime log and snapshots: bounded lists for display (the row of a draw is in `ManualDraw`);
- configuration, start-up, pages: parsing and wiring, done once.

Partly modelled: the registry (without the binding of remote users, labels and auth health), the
broker (without the ledger it carries, which is `SessionLedger`'s), the state file (a mutation is
one write that happens or fails) and the process (`Workbench` composes draws, claims, lists and
sessions of the administrator; purchases, check-ins, accounts and remote sessions have runs of
their own, as their products with the rest would only interleave what shares no state).
`PROJECT.json` lists each component with its status.

## 9. Plan

Written, in this order: `Mutex`/`KeyedLock`; `ActionLedger` and `PurchaseDraw`; `DailyClaim`;
`Checkin`; `AutoDraw`; `VaultMap`/`FileVault`; `Broker`; `DailyPass`; `SessionLedger`; `Registry`;
`AdminSessions`, `ManualDraw`, `ScheduleEdits` and their composition `Workbench`; the eight proof
modules.

Next:

1. the ticks of `AutoDraw` in `Workbench`, in place of the one plan;
2. the binding of remote users in `Registry`;
3. an abstract "at most one paid effect per key" specification that `PurchaseDraw` and
   `DailyPass` both refine.

## 10. How to run

    tlc -workers 2 -config MCPurchaseDraw.cfg MCPurchaseDraw    # any MC module with its .cfg
    tlapm PurchaseDrawProofs.tla                                # any *Proofs module

The slowest run takes a few minutes on two cores; all proofs together about as long.
