-------------------------------- MODULE Broker --------------------------------
(***************************************************************************)
(* The session broker of internal/auth/broker.go for one account: Acquire, *)
(* Reauthenticate, RenewParent and RenewLottery, called concurrently, next *)
(* to the handlers that edit and delete the account (web/accounts.go).     *)
(*                                                                         *)
(* A call looks at the saved bundle, takes the account's auth lock (module *)
(* Mutex), looks again, talks to the platform and saves the bundle it has  *)
(* built.  The handlers load and save the same bundle without the lock.    *)
(* Load and Save are atomic on the entry of the account (module FileVault).*)
(*                                                                         *)
(* Tokens and refresh cookies are numbered in the order the platform hands *)
(* them out; 0 is "none".  Left out: the user ID, the session ledger and   *)
(* the auth-health badge, which no decision of the broker reads.           *)
(*                                                                         *)
(* The platform (external).  It answers 401 to tokens it no longer accepts *)
(* (Bridge may answer so to any token); an exchange of the current refresh *)
(* cookie may replace the cookie, and a replaced cookie is worth nothing.  *)
(***************************************************************************)
EXTENDS Naturals, FiniteSets

CONSTANTS
    Callers,     \* goroutines that ask for a session of the account
    Nobody,      \* the auth lock is free
    Ops,         \* the broker entry points the callers use
    MaxToken,    \* bound: tokens the platform hands out
    MaxTrouble,  \* bound: kinds of trouble in one behaviour
    NoEdit       \* no edit is under way

AllOps == {"parent", "lottery", "reauth"}
Bundles == [pw : Nat, parent : Nat, lottery : Nat, cookie : Nat]

ASSUME BrokerAssumption ==
    /\ Nobody \notin Callers
    /\ Ops \subseteq AllOps
    /\ {MaxToken, MaxTrouble} \subseteq Nat
    /\ NoEdit \notin Bundles

VARIABLES
    vault,       \* the account's bundle in the vault
    present,     \* the vault has an entry for the account
    lock,        \* owner of LockAuth(account)
    pc,          \* where the call is
    op,          \* what it was asked for
    mine,        \* its copy of the bundle
    second,      \* it is bridging for the second time
    live,        \* platform: tokens it accepts
    cookie,      \* platform: the refresh cookie it accepts
    issued,      \* platform: tokens handed out so far
    expired,     \* tokens whose saved expiry is within the minute or past
    status,      \* the account: enabled, disabled, erased (no credentials), gone
    editor,      \* the bundle an edit has loaded and will save, or NoEdit
    password,    \* the password the user entered last
    trouble      \* history: "fault", a crash or a save that failed after the
                 \* platform acted; "edit" and "delete", by the user;
                 \* "crossed", an edit saved while a call was inside the lock

session == <<vault, present>>
calls == <<lock, pc, op, mine, second>>
platform == <<live, cookie, issued>>
user == <<status, editor, password>>
vars == <<session, calls, platform, expired, user, trouble>>

PCs == {"idle", "queued", "validate", "refresh", "guard", "login",
        "saveParent", "bridge", "saveLottery", "done"}
Blank == [pw |-> 0, parent |-> 0, lottery |-> 0, cookie |-> 0]

\* A new account has only its password; an older one has a session, too.
Init ==
    /\ \E n \in {0, 1} :
        /\ vault = [pw |-> 1, parent |-> n, lottery |-> 0, cookie |-> n]
        /\ issued = n
        /\ live = 1..n
        /\ cookie = n
    /\ present = TRUE
    /\ lock = Nobody
    /\ pc = [c \in Callers |-> "idle"]
    /\ op = [c \in Callers |-> "parent"]
    /\ mine = [c \in Callers |-> Blank]
    /\ second = [c \in Callers |-> FALSE]
    /\ expired = {}
    /\ status = "enabled"
    /\ editor = NoEdit
    /\ password = 1
    /\ trouble = {}

------------------------------------------------------------------------------
\* usableToken: there is one and its saved expiry is more than a minute away.
Usable(t) == t # 0 /\ t \notin expired

WantsLottery(c) == op[c] \in {"lottery", "renewLottery"}

\* The saved bundle answers the call as it is.  A renewal has in `mine` the
\* session whose token the platform rejected.
Serves(b, c, o) ==
    CASE o \in {"parent", "reauth"} -> Usable(b.parent)
      [] o = "lottery" -> Usable(b.lottery)
      [] o = "renewParent" -> Usable(b.parent) /\ b.parent # mine[c].parent
      [] o = "renewLottery" -> Usable(b.lottery) /\ b.lottery # mine[c].lottery

\* RenewParent and RenewLottery drop the rejected token from their copy.
Opening(b, c) ==
    CASE op[c] = "renewParent" -> [b EXCEPT !.parent = 0]
      [] op[c] = "renewLottery" -> [b EXCEPT !.lottery = 0]
      [] OTHER -> b

\* parentSessionLocked, up to its first request to the platform.
Stage(b, c) ==
    IF WantsLottery(c) /\ Usable(b.parent) THEN "bridge"
    ELSE IF op[c] = "reauth" THEN "guard"
    ELSE IF b.parent # 0 THEN "validate" ELSE "refresh"

Trouble(kind) ==
    /\ trouble' = trouble \union {kind}
    /\ Cardinality(trouble') <= MaxTrouble

Goto(c, label) == pc' = [pc EXCEPT ![c] = label]

\* The call returns and its deferred release gives the lock back.
Return(c, label) ==
    /\ Goto(c, label)
    /\ lock' = Nobody
    /\ second' = [second EXCEPT ![c] = FALSE]

MayCall(o) == status = "enabled" \/ (o # "lottery" /\ status # "gone")

\* Acquire and Reauthenticate, before the lock: a usable token is returned.
CallServed(c, o) ==
    /\ pc[c] = "idle" /\ MayCall(o)
    /\ Serves(vault, c, o)
    /\ op' = [op EXCEPT ![c] = o]
    /\ mine' = [mine EXCEPT ![c] = vault]
    /\ Goto(c, "done")
    /\ UNCHANGED <<session, lock, second, platform, expired, user, trouble>>

Call(c, o) ==
    /\ pc[c] = "idle" /\ MayCall(o)
    /\ ~Serves(vault, c, o)
    /\ op' = [op EXCEPT ![c] = o]
    /\ Goto(c, "queued")
    /\ UNCHANGED <<session, lock, mine, second, platform, expired, user, trouble>>

\* The platform rejects the token the caller got: RenewParent, RenewLottery.
CallRenew(c) ==
    /\ pc[c] = "done"
    /\ \/ ~WantsLottery(c) /\ mine[c].parent \notin live
          /\ op' = [op EXCEPT ![c] = "renewParent"]
       \/ WantsLottery(c) /\ mine[c].lottery \notin live
          /\ op' = [op EXCEPT ![c] = "renewLottery"]
    /\ Goto(c, "queued")
    /\ UNCHANGED <<session, lock, mine, second, platform, expired, user, trouble>>

\* The caller is finished with the session.
Leave(c) ==
    /\ pc[c] = "done"
    /\ Goto(c, "idle")
    /\ mine' = [mine EXCEPT ![c] = Blank]
    /\ op' = [op EXCEPT ![c] = "parent"]
    /\ UNCHANGED <<session, lock, second, platform, expired, user, trouble>>

\* The lock is taken and the bundle loaded again: somebody else was faster.
EnterServed(c) ==
    /\ pc[c] = "queued"
    /\ lock = Nobody
    /\ Serves(vault, c, op[c])
    /\ mine' = [mine EXCEPT ![c] = vault]
    /\ Goto(c, "done")
    /\ UNCHANGED <<session, lock, op, second, platform, expired, user, trouble>>

\* Mutant of Enter: no second look at the token, only at the cookies.
EnterUnchecked(c) ==
    /\ pc[c] = "queued"
    /\ lock = Nobody
    /\ lock' = c
    /\ mine' = [mine EXCEPT ![c] = [vault EXCEPT !.parent = 0, !.lottery = 0]]
    /\ Goto(c, Stage(mine'[c], c))
    /\ UNCHANGED <<session, op, second, platform, expired, user, trouble>>

\* Mutant of Enter: the auth lock is not taken.
EnterUnlocked(c) ==
    /\ pc[c] = "queued"
    /\ ~Serves(vault, c, op[c])
    /\ lock' = c
    /\ mine' = [mine EXCEPT ![c] = Opening(vault, c)]
    /\ Goto(c, Stage(mine'[c], c))
    /\ UNCHANGED <<session, op, second, platform, expired, user, trouble>>

\* Mutant of Enter: a renewal goes on with the bundle it got before.
EnterStale(c) ==
    /\ pc[c] = "queued"
    /\ lock = Nobody
    /\ ~Serves(vault, c, op[c])
    /\ lock' = c
    /\ mine' = [mine EXCEPT ![c] = Opening(IF mine[c] = Blank THEN vault ELSE mine[c], c)]
    /\ Goto(c, Stage(mine'[c], c))
    /\ UNCHANGED <<session, op, second, platform, expired, user, trouble>>

\* The lock is taken, the bundle loaded again, and there is work to do.
Enter(c) ==
    /\ pc[c] = "queued"
    /\ lock = Nobody
    /\ ~Serves(vault, c, op[c])
    /\ lock' = c
    /\ mine' = [mine EXCEPT ![c] = Opening(vault, c)]
    /\ Goto(c, Stage(mine'[c], c))
    /\ UNCHANGED <<session, op, second, platform, expired, user, trouble>>

\* UserSelf accepts the saved token, whatever its saved expiry says.
ValidateAccepted(c) ==
    /\ pc[c] = "validate"
    /\ mine[c].parent \in live
    /\ Goto(c, "saveParent")
    /\ UNCHANGED <<session, lock, op, mine, second, platform, expired, user, trouble>>

ValidateRejected(c) ==
    /\ pc[c] = "validate"
    /\ mine[c].parent \notin live
    /\ mine' = [mine EXCEPT ![c].parent = 0]
    /\ Goto(c, "refresh")
    /\ UNCHANGED <<session, lock, op, second, platform, expired, user, trouble>>

\* Mutant of NewSession: the cookies of the reply are not taken over.
NewSessionOldCookies(c, newCookie) ==
    /\ issued < MaxToken
    /\ issued' = issued + 1
    /\ live' = live \union {issued'}
    /\ cookie' = newCookie
    /\ mine' = [mine EXCEPT ![c].parent = issued', ![c].lottery = 0]

\* The platform opens a session and the copy takes it over: a new token, no
\* lottery token, the cookie of the reply.
NewSession(c, newCookie) ==
    /\ issued < MaxToken
    /\ issued' = issued + 1
    /\ live' = live \union {issued'}
    /\ cookie' = newCookie
    /\ mine' = [mine EXCEPT ![c].parent = issued', ![c].lottery = 0,
                            ![c].cookie = newCookie]

\* Refresh accepts the cookie; it may hand out a new one.
Refresh(c) ==
    /\ pc[c] = "refresh"
    /\ mine[c].cookie = cookie /\ cookie # 0
    /\ \E new \in {cookie, issued + 1} : NewSession(c, new)
    /\ Goto(c, "saveParent")
    /\ UNCHANGED <<session, lock, op, second, expired, user, trouble>>

\* capacityHook: not installed, or the bundle is loaded once more because
\* the hook may have changed it; the credentials stay those of the copy.
Guard(c) ==
    /\ pc[c] = "guard"
    /\ mine[c].pw # 0
    /\ \E b \in {mine[c], vault} : mine' = [mine EXCEPT ![c] = [b EXCEPT !.pw = mine[c].pw]]
    /\ Goto(c, "login")
    /\ UNCHANGED <<session, lock, op, second, platform, expired, user, trouble>>

Login(c) ==
    /\ pc[c] = "login"
    /\ NewSession(c, issued + 1)
    /\ Goto(c, "saveParent")
    /\ UNCHANGED <<session, lock, op, second, expired, user, trouble>>

Bridge(c) ==
    /\ pc[c] = "bridge"
    /\ mine[c].parent \in live
    /\ issued < MaxToken
    /\ issued' = issued + 1
    /\ live' = live \union {issued'}
    /\ mine' = [mine EXCEPT ![c].lottery = issued']
    /\ Goto(c, "saveLottery")
    /\ UNCHANGED <<session, lock, op, second, cookie, expired, user, trouble>>

\* bridgeLotteryLocked: refresh once and bridge once more.
BridgeRejected(c) ==
    /\ pc[c] = "bridge"
    /\ ~second[c]
    /\ second' = [second EXCEPT ![c] = TRUE]
    /\ Goto(c, "refresh")
    /\ UNCHANGED <<session, lock, op, mine, platform, expired, user, trouble>>

Save(b) == vault' = b /\ present' = TRUE

SaveParent(c) ==
    /\ pc[c] = "saveParent"
    /\ Save(mine[c])
    /\ IF WantsLottery(c)
       THEN Goto(c, "bridge") /\ UNCHANGED <<lock, second>>
       ELSE Return(c, "done")
    /\ UNCHANGED <<op, mine, platform, expired, user, trouble>>

SaveLottery(c) ==
    /\ pc[c] = "saveLottery"
    /\ Save(mine[c])
    /\ Return(c, "done")
    /\ UNCHANGED <<op, mine, platform, expired, user, trouble>>

\* ErrReauthRequired, ErrAuthUnavailable, a refused login or the capacity
\* guard: the call returns an error and what it had in its copy is lost.
Fail(c) ==
    /\ \/ pc[c] \in {"validate", "refresh", "guard", "login", "bridge"} /\ UNCHANGED trouble
       \/ pc[c] \in {"saveParent", "saveLottery"} /\ Trouble("fault")
    /\ Return(c, "idle")
    /\ mine' = [mine EXCEPT ![c] = Blank]
    /\ op' = [op EXCEPT ![c] = "parent"]
    /\ UNCHANGED <<session, platform, expired, user>>

Request(c) ==
    \/ \E o \in Ops : CallServed(c, o) \/ Call(c, o)
    \/ CallRenew(c) \/ Leave(c) \/ EnterServed(c) \/ Enter(c)
    \/ ValidateAccepted(c) \/ ValidateRejected(c) \/ Refresh(c)
    \/ Guard(c) \/ Login(c) \/ Bridge(c) \/ BridgeRejected(c)
    \/ SaveParent(c) \/ SaveLottery(c) \/ Fail(c)

Crash ==
    /\ Trouble("fault")
    /\ lock' = Nobody
    /\ pc' = [c \in Callers |-> "idle"]
    /\ op' = [c \in Callers |-> "parent"]
    /\ mine' = [c \in Callers |-> Blank]
    /\ second' = [c \in Callers |-> FALSE]
    /\ editor' = NoEdit
    /\ UNCHANGED <<session, platform, expired, status, password>>

------------------------------------------------------------------------------
\* Calls that are inside the auth lock.
Inside == {c \in Callers : pc[c] \notin {"idle", "queued", "done"}}

\* Time passes: the saved expiry of a token comes near.
Expire(t) ==
    /\ t \notin expired
    /\ expired' = expired \union {t}
    /\ UNCHANGED <<session, calls, platform, user, trouble>>

\* The platform stops accepting a token.
Reject(t) ==
    /\ live' = live \ {t}
    /\ UNCHANGED <<session, calls, cookie, issued, expired, user, trouble>>

\* The session is revoked, here or on another device: no token and no cookie.
Revoke ==
    /\ live' = {}
    /\ cookie' = 0
    /\ UNCHANGED <<session, calls, issued, expired, user, trouble>>

\* handleAccountUpdate: the bundle is loaded ...
EditLoad ==
    /\ editor = NoEdit /\ status = "enabled" /\ password = 1
    /\ editor' = vault
    /\ Trouble("edit")
    /\ UNCHANGED <<session, calls, platform, expired, status, password>>

\* ... and saved with the new password.
EditSave ==
    /\ editor # NoEdit
    /\ password' = 2
    /\ Save([editor EXCEPT !.pw = password'])
    /\ editor' = NoEdit
    /\ trouble' = IF Inside = {} THEN trouble ELSE trouble \union {"crossed"}
    /\ UNCHANGED <<calls, platform, expired, status>>

\* handleAccountDelete: disable, delete the credentials, then the scoped state
\* and the registry entry.
DeleteDisable ==
    /\ status = "enabled"
    /\ status' = "disabled"
    /\ Trouble("delete")
    /\ UNCHANGED <<session, calls, platform, expired, editor, password>>

DeleteCredentials ==
    /\ status = "disabled"
    /\ status' = "erased"
    /\ vault' = Blank /\ present' = FALSE
    /\ UNCHANGED <<calls, platform, expired, editor, password, trouble>>

DeleteRecord ==
    /\ status = "erased"
    /\ status' = "gone"
    /\ UNCHANGED <<session, calls, platform, expired, editor, password, trouble>>

User == EditLoad \/ EditSave \/ DeleteDisable \/ DeleteCredentials \/ DeleteRecord

Next ==
    \/ \E c \in Callers : Request(c)
    \/ \E t \in 1..issued : Expire(t) \/ Reject(t)
    \/ Revoke \/ Crash \/ User

Spec == Init /\ [][Next]_vars

------------------------------------------------------------------------------
TypeOK ==
    /\ vault \in Bundles
    /\ present \in BOOLEAN
    /\ lock \in Callers \union {Nobody}
    /\ pc \in [Callers -> PCs]
    /\ op \in [Callers -> AllOps \union {"renewParent", "renewLottery"}]
    /\ mine \in [Callers -> Bundles]
    /\ second \in [Callers -> BOOLEAN]
    /\ live \in SUBSET (1..issued)
    /\ cookie \in Nat
    /\ issued \in Nat
    /\ expired \in SUBSET Nat
    /\ status \in {"enabled", "disabled", "erased", "gone"}
    /\ editor \in Bundles \union {NoEdit}
    /\ password \in Nat
    /\ trouble \subseteq {"fault", "edit", "delete", "crossed"}

\* A token that is usable and accepted is not thrown away: a call opens a new
\* parent session only when the saved one is unusable, rejected by the
\* platform, or rejected by Bridge.  Waiting calls reuse what the first one
\* got, and several rejections of one token lead to one refresh, across faults.
NoNeedlessSession ==
    [][\A c \in Callers :
        /\ "edit" \notin trouble
        /\ pc[c] \in {"refresh", "login"} /\ issued' # issued /\ pc'[c] = "saveParent"
        => second[c] \/ ~Usable(vault.parent) \/ vault.parent \notin live]_vars

\* Between two calls the vault has the platform's cookie.
SavedIsNewest ==
    lock = Nobody /\ present /\ cookie # 0 => vault.cookie = cookie

\* One call at a time is inside the lock, and before any fault or edit its copy
\* has the cookie the platform accepts now: no refresh spends a cookie that
\* another call has already exchanged, and is then told that the user must log
\* in.  (A revoked session has no cookie, nor has a deleted account.  An edit
\* may bring an exchanged cookie back, a crash may lose a new one.  A password
\* login needs no cookie, and the bundle may have been deleted when the
\* capacity hook loaded it again.)
OneInside == \A c \in Callers : c \in Inside <=> lock = c
CopyIsNewest ==
    \A c \in Inside :
        pc[c] # "login" /\ mine[c].pw # 0 /\ cookie # 0 => mine[c].cookie = cookie
BrokerInv ==
    /\ TypeOK
    /\ OneInside
    /\ trouble \subseteq {"delete"} => SavedIsNewest /\ CopyIsNewest

\* A call never writes back an older session than the vault holds, whatever
\* calls, edits, deletions, lost replies and crashes lie between its load and
\* its save.
SavesMoveForward ==
    [][\A c \in Inside :
        pc[c] \in {"saveParent", "saveLottery"} /\ vault' # vault /\ pc' # pc =>
            vault'.parent >= vault.parent]_vars

\* README.md:72 lets the user update the password of an account: the vault has
\* the password the user entered last, whatever calls and renewals follow.  (A
\* call that is inside the lock while the edit is saved writes back the password
\* it had loaded.)
PasswordIsLastEntered == present /\ "crossed" \notin trouble => vault.pw = password

------------------------------------------------------------------------------
(***************************************************************************)
(* The inductive invariant behind the properties above.                    *)
(***************************************************************************)
\* Where there is no entry there is nothing to start from: a call that loaded
\* it has no cookie to refresh with, no password to log in with, and fails.
AbsentIsBlank ==
    /\ password # 0
    /\ present => vault.pw # 0
    /\ ~present => vault = Blank
    /\ \A c \in Inside :
           mine[c].pw = 0 => mine[c] = Blank /\ pc[c] \in {"refresh", "guard"}

\* The password of every copy is the one entered last, while edits keep clear
\* of the calls.
PasswordsAgree ==
    "crossed" \notin trouble =>
        /\ present => vault.pw = password
        /\ \A c \in Inside : mine[c].pw \in {0, password}

\* Without faults and edits the vault misses a new cookie only while the call
\* that got it is about to save it.
NewCookieIsSaved ==
    /\ editor # NoEdit => "edit" \in trouble
    /\ trouble \subseteq {"delete"} =>
           /\ present /\ cookie # 0 /\ (\A c \in Callers : pc[c] # "saveParent") =>
                  vault.cookie = cookie
           /\ CopyIsNewest

\* Tokens are numbered as they are issued; a call about to save, or to go on
\* with a parent token, has none that is older than what the vault holds or an
\* edit has loaded.
TokensInOrder ==
    /\ vault.parent <= issued
    /\ \A c \in Callers : mine[c].parent <= issued
    /\ editor # NoEdit =>
           editor.parent <= issued /\ (present => editor.parent <= vault.parent)
    /\ \A c \in Inside :
           pc[c] \in {"validate", "bridge", "saveParent", "saveLottery"} =>
               /\ vault.parent <= mine[c].parent
               /\ editor # NoEdit => editor.parent <= mine[c].parent

\* A call on its way to a new session has a reason for it, and a renewal waits
\* with a token that was really rejected.
SessionIsNeeded ==
    /\ \A c \in Callers :
           pc[c] = "queued" /\ op[c] = "renewParent" => mine[c].parent \notin live
    /\ "edit" \notin trouble =>
           \A c \in Callers :
               pc[c] \in {"validate", "refresh", "guard", "login"} /\ ~second[c] =>
                   ~Usable(vault.parent) \/ vault.parent \notin live

BrokerIInv ==
    /\ TypeOK
    /\ OneInside
    /\ AbsentIsBlank
    /\ PasswordsAgree
    /\ NewCookieIsSaved
    /\ TokensInOrder
    /\ SessionIsNeeded
===============================================================================
