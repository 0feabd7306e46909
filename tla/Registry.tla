-------------------------------- MODULE Registry --------------------------------
(***************************************************************************)
(* The accounts of the server: their creation, edit and deletion by the    *)
(* handlers of internal/web/accounts.go, the codes and records of          *)
(* internal/state/accounts.go, and the two versions of the state file      *)
(* (internal/state/store.go, internal/state/migration.go).                 *)
(*                                                                         *)
(* A request is a goroutine of Writers: it reads the record of its         *)
(* account, then changes the state file and the vault in turn, and other   *)
(* requests run between its steps.  Each step on the state file is one     *)
(* critical section of Store.mu that ends in persistLocked: it happens, or *)
(* StoreFails has rolled it back.  The steps on the vault are those of     *)
(* FileVault, on the value that server.go gives the request: BrokerVault   *)
(* (sharedBrokerLocked) to those that go through the broker, HandlerVault  *)
(* (sharedVaultLocked) to the account and session handlers.                *)
(*                                                                         *)
(* Left out: labels, login names and remote user IDs, the contents of the  *)
(* credentials (Broker), and the health of the last authentication.        *)
(***************************************************************************)
EXTENDS FileVault, Naturals

CONSTANTS
    Legacy,      \* accounts of the version 3 program
    MaxCode,     \* the last code, account-z9
    BrokerVault, \* the FileVault value of the broker
    HandlerVault,\* the FileVault value of the handlers
    MaxRequests  \* bound: requests other than business requests and tasks

\* account-a1, account-a2, ... in the order newAccountID gives them.
Codes == 1..MaxCode

ASSUME RegistryAssumption ==
    /\ MaxCode \in Nat
    /\ Accounts = Legacy \union Codes
    /\ Legacy \intersect Codes = {}
    /\ {BrokerVault, HandlerVault} \subseteq Instances

VARIABLES
    server,      \* "up", "down", or "migrating": the holder of the state lock
    version,     \* the version of the state file
    reg,         \* data.Accounts: the status of an account, or "none"
    seq,         \* data.AccountIDSeq, 0 while it is empty
    sched,       \* accounts with an entry in data.DrawSchedules
    scoped,      \* accounts with actions, snapshots, plans or logs
    imported,    \* accounts the running migration has saved in the vault
    pc, call,    \* the step and the parameters of each request
    requests,    \* the number of requests so far
    reenabled,   \* history: deletions of an account another request enabled again
    disturbed,   \* history: accounts with a crossed or unfinished change, and
                 \* those whose credentials another write took away or back
    forgotten    \* history: codes given before that no watermark remembers

regVars == <<version, reg, seq, sched, scoped>>
history == <<reenabled, disturbed, forgotten>>
vars == <<vaultVars, regVars, server, imported, pc, call, requests, history>>

Statuses == {"enabled", "disabled"}
NoCall == [op |-> "none", id |-> NoAccount, status |-> "none"]
Registered(a) == reg[a] # "none"
Changing == {"create", "login", "delete"}   \* requests that change what there is
Busy == {call[w].id : w \in Writers}
Highest(S) == IF S = {} THEN 0 ELSE CHOOSE m \in S : \A n \in S : n <= m

\* Mutant of NextCode: the code after the highest live one.
NextLiveCode == Highest({c \in Codes : Registered(c)}) + 1

\* nextSequentialAccountID: the code after the watermark, which starts at the
\* highest live code.
NextCode ==
    (IF seq = 0 THEN Highest({c \in Codes : Registered(c)}) ELSE seq) + 1

\* A version 3 file holds legacy data and no account; a version 4 file may come
\* from a build without a watermark.
Init ==
    /\ server = "up"
    /\ version \in {3, 4}
    /\ seq = 0
    /\ reg \in IF version = 3 THEN {[a \in Accounts |-> "none"]}
               ELSE {[a \in Accounts |-> IF a \in L THEN "enabled" ELSE "none"] :
                        L \in SUBSET Codes}
    /\ sched = {}
    /\ scoped = IF version = 3 THEN Legacy ELSE {}
    /\ file \in {f \in Contents : \A a \in Accounts : (f[a] # NoBundle) = Registered(a)}
    /\ mu = [i \in Instances |-> Nobody]
    /\ target = [w \in Writers |-> NoAccount]
    /\ copy = [w \in Writers |-> Nothing] /\ overtaken = {}
    /\ imported = {}
    /\ pc = [w \in Writers |-> "idle"]
    /\ call = [w \in Writers |-> NoCall]
    /\ requests = 0
    /\ reenabled = {} /\ disturbed = {} /\ forgotten = {}

------------------------------------------------------------------------------
\* Two requests that change what there is of an account meet.
Meet(w, a, op) ==
    disturbed' = IF op \in Changing /\ \E v \in Writers \ {w} :
                                         call[v].id = a /\ call[v].op \in Changing
                 THEN disturbed \union {a} ELSE disturbed

\* A write of the file by w changes the entry of another account.
Struck(w) == {a \in Accounts \ {target[w]} : file'[a] # file[a]}
DisturbStruck(w) == disturbed' = disturbed \union Struck(w)

Goto(w, step) == pc' = [pc EXCEPT ![w] = step] /\ UNCHANGED <<call, reenabled>>

Return(w) ==
    /\ pc' = [pc EXCEPT ![w] = "idle"]
    /\ call' = [call EXCEPT ![w] = NoCall]
    /\ reenabled' = reenabled \ {w}

\* The account is registered without credentials: its creation or its deletion
\* is half done.
Halfway(w) == call[w].op = "create" \/ pc[w] \in {"remove", "unregister"}

\* From "Disable first" to the end of a deletion.
Deleting(w) == call[w].op = "delete" /\ pc[w] # "record"
Deletions(a) == {w \in Writers : Deleting(w) /\ call[w].id = a}

\* registry.Create: the next code, registered and remembered.
CreateRecord(w) ==
    /\ server = "up" /\ pc[w] = "idle" /\ requests < MaxRequests
    /\ InstanceOf[w] = HandlerVault
    /\ NextCode \in Codes
    /\ ~Registered(NextCode)
    /\ reg' = [reg EXCEPT ![NextCode] = "enabled"]
    /\ seq' = NextCode
    /\ pc' = [pc EXCEPT ![w] = "open"]
    /\ call' = [call EXCEPT ![w] =
                   [op |-> "create", id |-> NextCode, status |-> "none"]]
    /\ requests' = requests + 1
    /\ reenabled' = reenabled \union Deletions(NextCode)
    /\ Meet(w, NextCode, "create")
    /\ UNCHANGED <<vaultVars, version, sched, scoped, server, imported, forgotten>>

\* handleAccountActions reads the record before the request goes on.
Enter(w, a, op, step, status) ==
    /\ server = "up" /\ pc[w] = "idle"
    /\ Registered(a)
    /\ pc' = [pc EXCEPT ![w] = step]
    /\ call' = [call EXCEPT ![w] = [op |-> op, id |-> a, status |-> status]]
    /\ Meet(w, a, op)
    /\ UNCHANGED <<vaultVars, regVars, server, imported, reenabled, forgotten>>

\* The handlers that change the record, the schedules or the credentials.
EnterHandler(w, a, op, step, status) ==
    /\ requests < MaxRequests /\ requests' = requests + 1
    /\ InstanceOf[w] = HandlerVault
    /\ Enter(w, a, op, step, status)

\* An edit of the status, or one that writes back the status it has read; new
\* credentials are taken for an account that was enabled when it was read.
BeginEdit(w, a) ==
    \E status \in Statuses :
        \/ EnterHandler(w, a, "edit", "record", status)
        \/ reg[a] = "enabled" /\ EnterHandler(w, a, "login", "record", status)
BeginSchedules(w, a) == EnterHandler(w, a, "schedules", "schedules", "none")

\* Mutant of BeginDelete: the account is not disabled first.
BeginDeleteEnabled(w, a) == EnterHandler(w, a, "delete", "open", "none")
BeginDelete(w, a) == EnterHandler(w, a, "delete", "record", "disabled")

\* registry.Update: of an edit, twice when there is a new login name, and of
\* "Disable first" of a deletion.
UpdateRecord(w) ==
    LET c == call[w]
    IN  /\ pc[w] \in {"record", "login"}
        /\ Registered(c.id)
        /\ reg' = [reg EXCEPT ![c.id] = c.status]
        /\ \/ c.op = "edit" /\ pc' = [pc EXCEPT ![w] = "idle"]
                             /\ call' = [call EXCEPT ![w] = NoCall]
           \/ c.op = "login" /\ pc[w] = "record"
                             /\ pc' = [pc EXCEPT ![w] = "login"] /\ UNCHANGED call
           \/ c.op # "edit" /\ pc' = [pc EXCEPT ![w] = "open"]
                            /\ call' = [call EXCEPT ![w].status = "none"]
        /\ reenabled' = IF c.status = "enabled"
                        THEN reenabled \union Deletions(c.id) ELSE reenabled
        /\ UNCHANGED <<vaultVars, version, seq, sched, scoped, server, imported,
                       requests, disturbed, forgotten>>

OpenVault(w) ==
    /\ pc[w] = "open"
    /\ Open(w, call[w].id)
    /\ Goto(w, "vault")
    /\ UNCHANGED <<regVars, server, imported, requests, disturbed, forgotten>>

\* vault.Save of the creation and of the edit, their last change.
SaveCredentials(w) ==
    /\ pc[w] = "vault" /\ call[w].op # "delete"
    /\ \E b \in Bundles : Save(w, b)
    /\ DisturbStruck(w)
    /\ Return(w)
    /\ UNCHANGED <<regVars, server, imported, requests, forgotten>>

\* vault.Delete of the deletion.
ForgetCredentials(w) ==
    /\ pc[w] = "vault" /\ call[w].op = "delete"
    /\ Delete(w)
    /\ DisturbStruck(w)
    /\ Goto(w, "remove")
    /\ UNCHANGED <<regVars, server, imported, requests, forgotten>>

\* Mutants of VaultFails: the new account stays, or the deletion goes on.
VaultFailsKept(w) ==
    /\ pc[w] = "vault"
    /\ GiveUp(w)
    /\ Return(w)
    /\ UNCHANGED <<regVars, server, imported, requests, disturbed, forgotten>>

VaultFailsIgnored(w) ==
    /\ pc[w] = "vault"
    /\ GiveUp(w)
    /\ \/ call[w].op = "delete" /\ Goto(w, "remove")
       \/ call[w].op = "create" /\ Goto(w, "undo")
       \/ call[w].op = "login" /\ Return(w)
    /\ UNCHANGED <<regVars, server, imported, requests, disturbed, forgotten>>

\* The vault could not be written: a new account is taken back.
VaultFails(w) ==
    /\ pc[w] = "vault"
    /\ GiveUp(w)
    /\ \/ call[w].op = "create" /\ Goto(w, "undo")
       \/ call[w].op # "create" /\ Return(w)
    /\ UNCHANGED <<regVars, server, imported, requests, disturbed, forgotten>>

\* store.RemoveAccountScopedState.
RemoveScoped(w) ==
    LET a == call[w].id
    IN  /\ pc[w] = "remove"
        /\ scoped' = scoped \ {a}
        /\ sched' = sched \ {a}
        /\ Goto(w, "unregister")
        /\ UNCHANGED <<vaultVars, version, reg, seq, server, imported, requests, disturbed, forgotten>>

\* registry.Delete, at the end of a deletion or of a creation that failed.  A
\* code is remembered by the watermark, if there is one.
Unregister(w) ==
    LET a == call[w].id
    IN  /\ pc[w] \in {"unregister", "undo"}
        /\ Registered(a)
        /\ reg' = [reg EXCEPT ![a] = "none"]
        /\ forgotten' = IF seq = 0 THEN forgotten \union {a} ELSE forgotten
        /\ Return(w)
        /\ UNCHANGED <<vaultVars, version, seq, sched, scoped, server, imported, requests, disturbed>>

\* store.SetDrawSchedules, from an edit of the list or a switch of an entry.
SetSchedules(w) ==
    LET a == call[w].id
    IN  /\ pc[w] = "schedules"
        /\ Registered(a)
        /\ sched' \in {sched \union {a}, sched \ {a}}
        /\ Return(w)
        /\ UNCHANGED <<vaultVars, version, reg, seq, scoped, server, imported,
                       requests, disturbed, forgotten>>

\* ErrNotFound: the account was deleted since the handler read its record.
NotFound(w) ==
    /\ pc[w] \in {"record", "login", "schedules", "unregister", "undo"}
    /\ ~Registered(call[w].id)
    /\ Return(w)
    /\ UNCHANGED <<vaultVars, regVars, server, imported, requests, disturbed, forgotten>>

\* persistLocked failed and the change was rolled back; the handler returns.
StoreFails(w) ==
    /\ pc[w] \in {"record", "login", "schedules", "remove", "unregister", "undo"}
    /\ Return(w)
    /\ disturbed' = IF Halfway(w) THEN disturbed \union {call[w].id} ELSE disturbed
    /\ UNCHANGED <<vaultVars, regVars, server, imported, requests, forgotten>>

------------------------------------------------------------------------------
\* A business request or a task of the scheduler: both ask for "enabled", and
\* go through the broker.
BeginBusiness(w, a) ==
    /\ InstanceOf[w] = BrokerVault
    /\ reg[a] = "enabled"
    /\ Enter(w, a, "business", "begun", "none")
    /\ UNCHANGED requests

\* The requests that isBusinessAction leaves out take a disabled account too:
\* validate and reauthenticate with the broker's value; preview, cleanup and
\* revocations of sessions with the handlers'.
BeginManage(w, a) ==
    /\ requests < MaxRequests /\ requests' = requests + 1
    /\ InstanceOf[w] \in {BrokerVault, HandlerVault}
    /\ Enter(w, a, "manage", "begun", "none")

\* Inside LockAuth of an account; the guard of an explicit login runs its
\* cleanup there, with the handlers' value, and the login waits for it.  The
\* cleanup is a request of its own in this module.
Inside(a) == {w \in Writers : call[w].id = a /\ pc[w] \in {"loaded", "saving"}}
Guards(w, v) ==
    /\ call[w].op = "manage" /\ InstanceOf[w] = HandlerVault
    /\ call[v].op = "manage" /\ InstanceOf[v] = BrokerVault /\ pc[v] = "loaded"

\* LockAuth, and Load of the credentials; without any the request gives up.
LoadSession(w) ==
    /\ pc[w] = "begun"
    /\ \A v \in Inside(call[w].id) : Guards(w, v)
    /\ mu[InstanceOf[w]] = Nobody
    /\ file[call[w].id] # NoBundle
    /\ Goto(w, "loaded")
    /\ UNCHANGED <<vaultVars, regVars, server, imported, requests, disturbed, forgotten>>

\* It saves a renewed session, or a shorter ledger, with what it has loaded.
OpenSession(w) ==
    /\ pc[w] = "loaded"
    /\ \A v \in Inside(call[w].id) \ {w} : Guards(w, v)
    /\ Open(w, call[w].id)
    /\ Goto(w, "saving")
    /\ UNCHANGED <<regVars, server, imported, requests, disturbed, forgotten>>

\* The account is not asked for again: after a deletion its credentials are back.
SaveSession(w) ==
    LET a == call[w].id
    IN  /\ pc[w] = "saving"
        /\ \E b \in Bundles : Save(w, b)
        /\ disturbed' = disturbed \union Struck(w)
                           \union (IF file[a] = NoBundle THEN {a} ELSE {})
        /\ Goto(w, "loaded")
        /\ UNCHANGED <<regVars, server, imported, requests, forgotten>>

SessionFails(w) ==
    /\ pc[w] = "saving"
    /\ GiveUp(w)
    /\ Goto(w, "loaded")
    /\ UNCHANGED <<regVars, server, imported, requests, disturbed, forgotten>>

\* release().
ReleaseAuth(w) ==
    /\ pc[w] = "loaded"
    /\ Goto(w, "begun")
    /\ UNCHANGED <<vaultVars, regVars, server, imported, requests, disturbed, forgotten>>

\* The request writes actions, snapshots, plans or logs without asking again.
Work(w) ==
    /\ pc[w] = "begun" /\ call[w].op = "business"
    /\ scoped' = scoped \union {call[w].id}
    /\ UNCHANGED <<vaultVars, version, reg, seq, sched, server, imported, pc, call, requests, history>>

EndWork(w) ==
    /\ pc[w] = "begun"
    /\ Return(w)
    /\ UNCHANGED <<vaultVars, regVars, server, imported, requests, disturbed, forgotten>>

\* The process ends.  A version 3 file has no place for accounts, codes and
\* schedules: persistLocked left them out.
Crash ==
    /\ server = "up"
    /\ server' = "down"
    /\ VaultCrash
    /\ pc' = [w \in Writers |-> "idle"]
    /\ call' = [w \in Writers |-> NoCall]
    /\ reenabled' = {}
    /\ disturbed' = disturbed \union {call[w].id : w \in {v \in Writers : Halfway(v)}}
                      \union {a \in Accounts : version = 3 /\ Registered(a)}
    /\ IF version = 3
       THEN /\ reg' = [a \in Accounts |-> "none"]
            /\ seq' = 0 /\ sched' = {}
            /\ forgotten' = forgotten \union 1..seq
       ELSE UNCHANGED <<reg, seq, sched, forgotten>>
    /\ UNCHANGED <<version, scoped, imported, requests>>

\* state.Open takes the lock of the state file: one process at a time.
Start ==
    /\ server = "down"
    /\ server' = "up"
    /\ UNCHANGED <<vaultVars, regVars, imported, requests, pc, call, history>>

MigrateBegin ==
    /\ server = "down" /\ version = 3
    /\ server' = "migrating"
    /\ imported' = {}
    /\ UNCHANGED <<vaultVars, regVars, pc, call, requests, history>>

\* MigrateV3 saves and rereads the credentials of the next legacy account; no
\* server runs beside it.
Import(a) ==
    /\ server = "migrating"
    /\ a \in Legacy \ imported
    /\ \E b \in Bundles : file' = [file EXCEPT ![a] = b]
    /\ imported' = imported \union {a}
    /\ UNCHANGED <<mu, target, copy, overtaken, regVars, server, pc, call, requests, history>>

\* A write or a comparison failed, or the process was ended.
MigrateFails ==
    /\ server = "migrating"
    /\ server' = "down" /\ imported' = {}
    /\ UNCHANGED <<vaultVars, regVars, pc, call, requests, history>>

WriteVersion4 ==
    /\ version' = 4
    /\ reg' = [a \in Accounts |-> IF a \in Legacy THEN "enabled" ELSE "none"]
    /\ server' = "down"
    /\ UNCHANGED <<vaultVars, seq, sched, scoped, imported, requests, pc, call, history>>

\* Mutant of MigrateFinish: the file is written whatever was imported.
MigrateFinishEarly == server = "migrating" /\ WriteVersion4

\* Only after every account is in the vault is the file written as version 4.
MigrateFinish ==
    /\ server = "migrating"
    /\ imported = Legacy
    /\ WriteVersion4

Handler(w) ==
    \/ CreateRecord(w)
    \/ \E a \in Accounts : BeginEdit(w, a) \/ BeginSchedules(w, a) \/ BeginDelete(w, a)
    \/ UpdateRecord(w) \/ OpenVault(w) \/ SaveCredentials(w) \/ ForgetCredentials(w)
    \/ VaultFails(w) \/ RemoveScoped(w) \/ Unregister(w) \/ SetSchedules(w)
    \/ NotFound(w) \/ StoreFails(w)

Business(w) ==
    \/ \E a \in Accounts : BeginBusiness(w, a) \/ BeginManage(w, a)
    \/ LoadSession(w) \/ OpenSession(w) \/ SaveSession(w) \/ SessionFails(w)
    \/ ReleaseAuth(w) \/ Work(w) \/ EndWork(w)

Migration ==
    \/ MigrateBegin \/ MigrateFails \/ MigrateFinish
    \/ \E a \in Legacy : Import(a)

Next ==
    \/ \E w \in Writers : Handler(w) \/ Business(w)
    \/ Crash \/ Start
    \/ Migration

Spec == Init /\ [][Next]_vars

------------------------------------------------------------------------------
RegistryTypeOK ==
    /\ server \in {"up", "down", "migrating"}
    /\ version \in {3, 4}
    /\ reg \in [Accounts -> Statuses \union {"none"}]
    /\ seq \in 0..MaxCode
    /\ sched \subseteq Accounts /\ scoped \subseteq Accounts
    /\ imported \subseteq Legacy
    /\ reenabled \subseteq Writers
    /\ disturbed \subseteq Accounts /\ forgotten \subseteq Accounts

\* The vault under handlers, broker and session requests: each FileVault value
\* has one writer at a time, whatever fails, and the copy of a writer is what
\* the file holds unless the other value has written since.  Every registered
\* code is below the watermark.
RegistryInv ==
    /\ RegistryTypeOK
    /\ VaultInv
    /\ seq # 0 => \A c \in Codes : Registered(c) => c <= seq

\* "deleted codes are never reused": a new account finds nothing of an earlier
\* one with its code, whatever requests were running when that was deleted, and
\* whatever they have written since.  Codes that no watermark remembers are the
\* exception: those deleted before the first creation, and those of a version 3
\* file that a restart forgot.
NothingInherited ==
    [][\A c \in Codes \ forgotten :
          reg[c] = "none" /\ reg'[c] # "none" =>
             /\ c \notin scoped \union sched \union Busy
             /\ file[c] = NoBundle]_vars

\* Credentials without an account: only of a migration that is not finished,
\* or where the deletion crossed another change of the account, a session was
\* saved after it or a stale copy brought the entry back, or a version 3 file
\* forgot the account.
CredentialsHaveAccount ==
    \A a \in Accounts : file[a] # NoBundle =>
        \/ Registered(a)
        \/ version = 3 /\ a \in Legacy
        \/ a \in disturbed

\* An account that no creation or deletion works on has its credentials, unless
\* one was cut short or a stale copy of the other FileVault value took them away.
AccountsHaveCredentials ==
    \A a \in Accounts :
        Registered(a) /\ (\A w \in Writers : call[w].id = a => call[w].op \notin {"create", "delete"}) =>
            file[a] # NoBundle \/ a \in disturbed

\* The state file and the vault, which no write changes together, agree on the
\* accounts there are.
StoresAgree == CredentialsHaveAccount /\ AccountsHaveCredentials

\* "Disable first so no scheduler plan or background task can touch the account
\* while its data is being removed": no business request or task begins from
\* the disabling to the end of a deletion, whatever runs beside it, unless an
\* edit that had read the record before, or a new account with a forgotten
\* code, has enabled the account again.
DeletionIsQuiet ==
    [][\A v, w \in Writers :
          /\ Deleting(w) /\ w \notin reenabled
          /\ pc[v] = "idle" /\ call'[v].op = "business"
          => call'[v].id # call[w].id]_vars

------------------------------------------------------------------------------
(***************************************************************************)
(* The inductive invariant behind the properties above.                    *)
(***************************************************************************)
\* Where each kind of request can be, and that it works on one account.
RequestsInStep ==
    /\ call \in [Writers -> [op : {"none", "create", "edit", "login", "schedules", "delete",
                                   "business", "manage"},
                             id : Accounts \union {NoAccount},
                             status : Statuses \union {"none"}]]
    /\ pc \in [Writers -> {"idle", "record", "login", "open", "vault", "remove",
                           "unregister", "undo", "schedules", "begun", "loaded", "saving"}]
    /\ \A w \in Writers :
        /\ pc[w] = "idle" <=> call[w].op = "none"
        /\ pc[w] = "idle" <=> call[w].id = NoAccount
        /\ call[w].op = "create" => pc[w] \in {"open", "vault", "undo"}
        /\ call[w].op = "edit" => pc[w] = "record"
        /\ call[w].op = "login" => pc[w] \in {"record", "login", "open", "vault"}
        /\ call[w].op = "schedules" <=> pc[w] = "schedules"
        /\ call[w].op = "delete" => pc[w] \in {"record", "open", "vault", "remove", "unregister"}
        /\ call[w].op \in {"business", "manage"} <=> pc[w] \in {"begun", "loaded", "saving"}
        /\ pc[w] \in {"record", "login"} => call[w].status \in Statuses
        /\ call[w].op = "delete" /\ pc[w] = "record" => call[w].status = "disabled"
        /\ target[w] = IF pc[w] \in {"vault", "saving"} THEN call[w].id ELSE NoAccount

\* No request outlives the process, nor does an account in a version 3 file.
NothingOutlivesServer ==
    /\ server # "up" => \A w \in Writers : pc[w] = "idle"
    /\ server = "migrating" => version = 3
    /\ version = 3 =>
          /\ server # "up" => seq = 0
          /\ seq = 0 => \A a \in Accounts : ~Registered(a)

\* A code that was never given, as far as the watermark knows, has no data and
\* no request, and is in no copy of the vault.
UnusedIsEmpty ==
    \A c \in Codes \ forgotten :
        ~Registered(c) /\ (seq = 0 \/ seq < c) =>
            /\ c \notin scoped \union sched
            /\ file[c] = NoBundle
            /\ \A w \in Writers : call[w].id # c /\ copy[w][c] = NoBundle

\* What a deletion has disabled stays disabled, or is already gone.
DisabledStays ==
    \A w \in Writers \ reenabled : Deleting(w) => reg[call[w].id] # "enabled"

\* On an undisturbed account one change is made at a time, the account stays
\* registered under it, and its credentials are missing exactly while the
\* change is halfway; a deletion that has read the file has found them.
UndisturbedIsWhole ==
    \A a \in Accounts \ disturbed, w \in Writers :
        call[w].id = a /\ call[w].op \in Changing =>
            /\ \A v \in Writers : call[v].id = a /\ call[v].op \in Changing => v = w
            /\ Registered(a)
            /\ file[a] = NoBundle <=> Halfway(w)
            /\ call[w].op = "delete" /\ pc[w] = "vault" => copy[w][a] # NoBundle

ImportedIsSaved == server = "migrating" => \A a \in imported : file[a] # NoBundle

RegistryIInv ==
    /\ RegistryInv
    /\ RequestsInStep
    /\ NothingOutlivesServer
    /\ UnusedIsEmpty
    /\ DisabledStays
    /\ StoresAgree
    /\ UndisturbedIsWhole
    /\ ImportedIsSaved
==================================================================================
