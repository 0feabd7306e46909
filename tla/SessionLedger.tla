----------------------------- MODULE SessionLedger -----------------------------
(***************************************************************************)
(* The remote sessions of one account: the ledger of sessions the          *)
(* workbench created (broker.go, trackManagedSession), the capacity guard  *)
(* before a password login, the cleanup and the revocations of             *)
(* internal/auth/remote_sessions.go, and their handlers (web/accounts.go). *)
(*                                                                         *)
(* All of them run under LockAuth of the account (module Mutex), so one    *)
(* operation is under way at a time; it interleaves with the platform,     *)
(* where other devices log in and out, with the edit of the account, which *)
(* writes the bundle without the lock, and with crashes.                   *)
(*                                                                         *)
(* The ledger is kept in the order of LastSeenAt, oldest first.  Left out: *)
(* Pinned, which no code sets, the 60 s cache of the dialog's list, and    *)
(* what the list shows beside the session.                                 *)
(*                                                                         *)
(* The platform (external).  It hands out session IDs once; it may carry   *)
(* out a request and lose the reply; a refresh keeps the session or        *)
(* replaces it.                                                            *)
(***************************************************************************)
EXTENDS Naturals, Sequences, SequencesExt, FiniteSets

CONSTANTS
    Sids,        \* bound: session IDs the platform hands out
    NoSid,       \* none
    Unnamed,     \* sessions whose access token does not tell the session ID
    Threshold,   \* SessionLimit - SessionSafetyMargin
    Durable,     \* DurableSessionLimit: spare sessions a cleanup keeps
    MaxLedger,   \* maxLedger, 24 in the code
    NoEdit       \* no edit is under way

ASSUME LedgerAssumption ==
    /\ NoSid \notin Sids /\ Unnamed \subseteq Sids
    /\ {Threshold, Durable, MaxLedger} \subseteq Nat \ {0}

VARIABLES
    vault,       \* [token, ledger]: the session of the saved token, the ledger
    editor,      \* the bundle an edit has loaded and will save, or NoEdit
    hook,        \* the capacity guard is installed in the broker
    pc,          \* where the operation under LockAuth is
    op,          \* what it is
    bundle,      \* its copy of the vault entry
    mine,        \* a login's own copy, while the guard works on another
    sid,         \* the session it asks to revoke, or has just been given
    todo,        \* sessions still to be revoked by the cleanup
    kept,        \* the ledger as the cleanup sees it
    changed,     \* the cleanup has revoked something
    looked,      \* history: what the guard of this login found out
    arrived,     \* history: logins elsewhere during this login, since its last look
    live,        \* platform: sessions it lists
    born,        \* platform: IDs handed out
    owned,       \* history: sessions the workbench created
    lost,        \* history: of these, the ones never recorded or aged out
    stale        \* history: an older bundle was written back

operation == <<pc, op, bundle, mine, sid, todo, kept, changed>>
guard == <<hook, looked, arrived>>
platform == <<live, born>>
history == <<owned, lost, stale>>
vars == <<vault, editor, operation, guard, platform, history>>

PCs == {"idle", "look", "list", "revoke", "saveClean", "relook", "login", "refresh",
        "saveLogin", "revokeOne", "saveOne", "revokeOthers", "listOthers"}
Ops == {"none", "cleanup", "login", "refresh", "one", "others"}
NoBundle == [token |-> NoSid, ledger |-> <<>>]

Init ==
    /\ vault = NoBundle
    /\ editor = NoEdit
    /\ hook = FALSE
    /\ pc = "idle" /\ op = "none"
    /\ bundle = NoBundle /\ mine = NoBundle
    /\ sid = NoSid
    /\ todo = <<>> /\ kept = {} /\ changed = FALSE
    /\ looked = "no" /\ arrived = 0
    /\ live = {} /\ born = {}
    /\ owned = {} /\ lost = {} /\ stale = FALSE

------------------------------------------------------------------------------
\* The entries of a ledger that are in S, in their order.
Only(l, S) ==
    LET f[i \in 0 .. Len(l)] ==
            IF i = 0 THEN <<>>
            ELSE IF l[i] \in S THEN Append(f[i - 1], l[i]) ELSE f[i - 1]
    IN  f[Len(l)]

\* Sessions on the ledger that are listed and not the current one, oldest first.
Spare(b) == Only(b.ledger, live \ {b.token})

\* Mutant of Excess: the newest sessions instead of the oldest.
ExcessNewest(b) == SubSeq(Spare(b), Durable + 1, Len(Spare(b)))

\* The cleanup candidates: all but the Durable newest.
Excess(b) == SubSeq(Spare(b), 1, Len(Spare(b)) - Durable)

\* The session ID read from the access token of session s, if it has one.
SessionIDFromAccessToken(s) == IF s \in Unnamed THEN NoSid ELSE s

\* Mutant of Track: entries never age out.
TrackUnbounded(l, s) == IF s = NoSid THEN l ELSE Append(Only(l, Sids \ {s}), s)

\* trackManagedSession: s, which the token names, was seen just now; the newest
\* MaxLedger entries stay.  A token that names none changes nothing.
Track(l, s) ==
    LET all == Append(Only(l, Sids \ {s}), s)
    IN  IF s = NoSid THEN l
        ELSE SubSeq(all, IF Len(all) > MaxLedger THEN Len(all) - MaxLedger + 1 ELSE 1, Len(all))

\* GET /api/user/sessions answers to the token of b.
Readable(b) == b.token \in live

\* The operation ends and gives the lock back.
Release ==
    /\ pc' = "idle" /\ op' = "none"
    /\ bundle' = NoBundle /\ mine' = NoBundle
    /\ sid' = NoSid
    /\ todo' = <<>> /\ kept' = {} /\ changed' = FALSE

ForgetLook == looked' = "no" /\ arrived' = 0

\* A handler or the broker takes the lock and loads the bundle.
Begin(o, label) ==
    /\ pc = "idle"
    /\ op' = o /\ pc' = label
    /\ bundle' = vault /\ mine' = vault
    /\ UNCHANGED <<vault, editor, todo, kept, changed, platform, history>>

\* The dialog's handlers build the guard and install it on their way.
Preview ==
    /\ pc = "idle"
    /\ hook' = TRUE
    /\ UNCHANGED <<vault, editor, operation, looked, arrived, platform, history>>

BeginCleanup ==
    /\ Begin("cleanup", "list")
    /\ hook' = TRUE
    /\ UNCHANGED <<sid, looked, arrived>>

BeginRevokeOne ==
    /\ Begin("one", "revokeOne")
    /\ sid' \in live
    /\ hook' = TRUE
    /\ UNCHANGED <<looked, arrived>>

BeginRevokeOthers ==
    /\ Begin("others", "revokeOthers")
    /\ hook' = TRUE
    /\ UNCHANGED <<sid, looked, arrived>>

BeginRefresh ==
    /\ Begin("refresh", "refresh")
    /\ UNCHANGED <<sid, guard>>

\* Reauthenticate with an unusable token: the guard looks first, if installed.
BeginLogin ==
    /\ Begin("login", IF hook THEN "look" ELSE "login")
    /\ UNCHANGED <<sid, guard>>

------------------------------------------------------------------------------
\* CapacityGuard.BeforeLogin.

\* Mutant of Admit: the login goes on with its own copy.
AdmitUnreloaded(found) ==
    /\ looked' = found /\ arrived' = 0
    /\ pc' = "login"
    /\ bundle' = mine
    /\ UNCHANGED <<vault, editor, op, mine, sid, todo, kept, changed, hook, platform, history>>

\* The login goes on with the bundle as it is now; if it cannot be loaded
\* again, with its own copy.
Admit(found) ==
    /\ looked' = found /\ arrived' = 0
    /\ pc' = "login"
    /\ \/ bundle' = vault /\ UNCHANGED stale
       \/ bundle' = mine /\ stale' = (stale \/ mine # vault)
    /\ UNCHANGED <<vault, editor, op, mine, sid, todo, kept, changed, hook, platform, owned, lost>>

\* Nothing is known of the sessions: the login is let through.
LookFails ==
    /\ pc = "look"
    /\ Admit("failed")

LookEnough ==
    /\ pc = "look"
    /\ Readable(vault)
    /\ Cardinality(live) < Threshold
    /\ Admit("ok")

\* At the threshold: clean up, if the preview has candidates.
LookFull ==
    /\ pc = "look"
    /\ Readable(vault)
    /\ Cardinality(live) >= Threshold
    /\ Len(Spare(vault)) > Durable
    /\ pc' = "list"
    /\ bundle' = vault
    /\ UNCHANGED <<vault, editor, op, mine, sid, todo, kept, changed, guard, platform, history>>

\* Mutant of LookAgain: the cleanup is taken for the room it was to make.
LookAgainNot ==
    /\ pc = "relook"
    /\ Admit("ok")

\* After the cleanup: only a second look that finds room lets the login through.
LookAgain ==
    /\ pc = "relook"
    /\ Readable(vault)
    /\ Cardinality(live) < Threshold
    /\ Admit("ok")

\* ErrSessionCapacityProtected: no candidates, a failed cleanup, or no room.
Blocked ==
    /\ \/ /\ pc = "look"
          /\ Cardinality(live) >= Threshold /\ Len(Spare(vault)) <= Durable
       \/ pc = "relook"
    /\ Release /\ ForgetLook
    /\ UNCHANGED <<vault, editor, hook, platform, history>>

------------------------------------------------------------------------------
\* PlatformSessionManager.Cleanup, by the handler or by the guard.

\* The list is read; entries that are gone leave the ledger of the cleanup.
List ==
    /\ pc = "list"
    /\ Readable(bundle)
    /\ todo' = Excess(bundle)
    /\ kept' = ToSet(bundle.ledger) \intersect live
    /\ pc' = "revoke"
    /\ UNCHANGED <<vault, editor, op, bundle, mine, sid, changed, guard, platform, history>>

\* Mutant of RevokeNext: a session whose revocation failed leaves the ledger.
RevokeNextDropsFailed ==
    /\ pc = "revoke" /\ todo # <<>>
    /\ todo' = Front(todo)
    /\ \/ live' = live \ {Last(todo)}
       \/ UNCHANGED live
    /\ kept' = kept \ {Last(todo)} /\ changed' = TRUE
    /\ UNCHANGED <<vault, editor, pc, op, bundle, mine, sid, guard, born, history>>

\* The newest of the excess goes first.  A failed revocation (its reply may be
\* lost) leaves the entry on the ledger.
RevokeNext ==
    /\ pc = "revoke" /\ todo # <<>>
    /\ todo' = Front(todo)
    /\ \/ live' = live \ {Last(todo)} /\ kept' = kept \ {Last(todo)} /\ changed' = TRUE
       \/ live' = live \ {Last(todo)} /\ UNCHANGED <<kept, changed>>
       \/ UNCHANGED <<live, kept, changed>>
    /\ UNCHANGED <<vault, editor, pc, op, bundle, mine, sid, guard, born, history>>

\* What a finished cleanup goes on to: the guard's second look, or nothing.
EndCleanup ==
    IF op = "login"
    THEN /\ pc' = "relook"
         /\ todo' = <<>> /\ kept' = {} /\ changed' = FALSE
         /\ UNCHANGED <<op, bundle, mine, sid>>
    ELSE Release

RevokedNone ==
    /\ pc = "revoke" /\ todo = <<>>
    /\ ~changed
    /\ EndCleanup
    /\ UNCHANGED <<vault, editor, guard, platform, history>>

SaveClean ==
    /\ pc = "revoke" /\ todo = <<>>
    /\ changed
    /\ vault' = [bundle EXCEPT !.ledger = Only(@, kept)]
    /\ EndCleanup
    /\ UNCHANGED <<editor, guard, platform, history>>

------------------------------------------------------------------------------
\* Login and Refresh hand out a parent session; the broker records and saves it.
Given(s) ==
    /\ sid' = s
    /\ owned' = owned \union {s}
    /\ pc' = "saveLogin"
    /\ UNCHANGED <<vault, editor, op, bundle, mine, todo, kept, changed, guard, lost, stale>>

Login ==
    /\ pc = "login"
    /\ \E s \in Sids \ born :
        /\ Given(s)
        /\ live' = live \union {s} /\ born' = born \union {s}

Refresh ==
    /\ pc = "refresh"
    /\ Readable(bundle)
    /\ \/ Given(bundle.token) /\ UNCHANGED platform
       \/ \E s \in Sids \ born :
            /\ Given(s)
            /\ live' = (live \ {bundle.token}) \union {s}
            /\ born' = born \union {s}

\* persistParentSessionLocked.
SaveLogin ==
    /\ pc = "saveLogin"
    /\ vault' = [token |-> sid,
                 ledger |-> Track(bundle.ledger, SessionIDFromAccessToken(sid))]
    /\ lost' = lost \union ((ToSet(bundle.ledger) \union {sid}) \ ToSet(vault'.ledger))
    /\ Release /\ ForgetLook
    /\ UNCHANGED <<editor, hook, platform, owned, stale>>

------------------------------------------------------------------------------
\* RevokeOne: the platform revokes the session, the ledger entry goes.
RevokeOne ==
    /\ pc = "revokeOne"
    /\ live' = live \ {sid}
    /\ \/ /\ sid \in ToSet(bundle.ledger)
          /\ pc' = "saveOne"
          /\ UNCHANGED <<op, bundle, mine, sid, todo, kept, changed>>
       \/ sid \notin ToSet(bundle.ledger) /\ Release
    /\ UNCHANGED <<vault, editor, guard, born, history>>

SaveOne ==
    /\ pc = "saveOne"
    /\ vault' = [bundle EXCEPT !.ledger = Only(@, Sids \ {sid})]
    /\ Release
    /\ UNCHANGED <<editor, guard, platform, history>>

\* RevokeAllOthers: revoke, read the list again, keep what is still listed.
RevokeOthers ==
    /\ pc = "revokeOthers"
    /\ Readable(bundle)
    /\ live' = {bundle.token}
    /\ pc' = "listOthers"
    /\ UNCHANGED <<vault, editor, op, bundle, mine, sid, todo, kept, changed, guard, born, history>>

SaveOthers ==
    /\ pc = "listOthers"
    /\ Readable(bundle)
    /\ vault' = [bundle EXCEPT !.ledger = Only(@, live)]
    /\ Release
    /\ UNCHANGED <<editor, guard, platform, history>>

------------------------------------------------------------------------------
\* A session was handed out and its record is not saved.
Unrecorded == IF pc = "saveLogin" /\ sid \notin ToSet(vault.ledger) THEN {sid} ELSE {}

\* The request fails, with or without its effect on the platform, or the vault
\* cannot be written (pc is then a step that saves).
Fail ==
    /\ pc \notin {"idle", "look", "relook"}
    /\ \/ pc = "login" /\ \E s \in Sids \ born :
            /\ live' = live \union {s} /\ born' = born \union {s}
            /\ owned' = owned \union {s} /\ lost' = lost \union {s}
       \/ pc = "refresh" /\ Readable(bundle) /\ \E s \in Sids \ born :
            /\ live' = (live \ {bundle.token}) \union {s} /\ born' = born \union {s}
            /\ owned' = owned \union {s} /\ lost' = lost \union {s}
       \/ pc = "revokeOne" /\ live' = live \ {sid} /\ UNCHANGED <<born, owned, lost>>
       \/ pc = "revokeOthers" /\ Readable(bundle)
          /\ live' = {bundle.token} /\ UNCHANGED <<born, owned, lost>>
       \/ lost' = lost \union Unrecorded /\ UNCHANGED <<platform, owned>>
    /\ Release /\ ForgetLook
    /\ UNCHANGED <<vault, editor, hook, stale>>

Crash ==
    /\ lost' = lost \union Unrecorded
    /\ hook' = FALSE
    /\ editor' = NoEdit
    /\ Release /\ ForgetLook
    /\ UNCHANGED <<vault, platform, owned, stale>>

------------------------------------------------------------------------------
LoginElsewhere(s) ==
    /\ s \notin born
    /\ live' = live \union {s} /\ born' = born \union {s}
    /\ arrived' = IF op = "login" THEN arrived + 1 ELSE arrived
    /\ UNCHANGED <<vault, editor, operation, hook, looked, history>>

\* A session expires or is logged out.
SessionEnds(s) ==
    /\ s \in live
    /\ live' = live \ {s}
    /\ UNCHANGED <<vault, editor, operation, guard, born, history>>

\* handleAccountUpdate, which takes no lock.  (Bound: no further edit once one
\* has written back an older bundle.)
EditLoad ==
    /\ editor = NoEdit /\ ~stale
    /\ editor' = vault
    /\ UNCHANGED <<vault, operation, guard, platform, history>>

EditSave ==
    /\ editor # NoEdit
    /\ vault' = editor
    /\ editor' = NoEdit
    /\ stale' = (stale \/ editor # vault)
    /\ UNCHANGED <<operation, guard, platform, owned, lost>>

Handler ==
    \/ Preview \/ BeginCleanup \/ BeginRevokeOne \/ BeginRevokeOthers
    \/ BeginRefresh \/ BeginLogin
    \/ LookFails \/ LookEnough \/ LookFull \/ LookAgain \/ Blocked
    \/ List \/ RevokeNext \/ RevokedNone \/ SaveClean
    \/ Login \/ Refresh \/ SaveLogin
    \/ RevokeOne \/ SaveOne \/ RevokeOthers \/ SaveOthers
    \/ Fail

Next ==
    \/ Handler
    \/ \E s \in Sids : LoginElsewhere(s) \/ SessionEnds(s)
    \/ EditLoad \/ EditSave \/ Crash

Spec == Init /\ [][Next]_vars

------------------------------------------------------------------------------
Entries == [token : Sids \union {NoSid}, ledger : Seq(Sids)]

TypeOK ==
    /\ vault \in Entries
    /\ editor \in Entries \union {NoEdit}
    /\ hook \in BOOLEAN
    /\ pc \in PCs /\ op \in Ops
    /\ bundle \in Entries /\ mine \in Entries
    /\ sid \in Sids \union {NoSid}
    /\ todo \in Seq(Sids) /\ kept \in SUBSET Sids /\ changed \in BOOLEAN
    /\ looked \in {"no", "failed", "ok"} /\ arrived \in Nat
    /\ live \in SUBSET born /\ born \in SUBSET Sids
    /\ owned \in SUBSET born /\ lost \in SUBSET owned /\ stale \in BOOLEAN

\* The ledger claims only sessions the workbench created, once each, and has no
\* more than MaxLedger of them, whatever is revoked, refreshed and edited.
Owned(l) == ToSet(l) \subseteq owned /\ IsInjective(l) /\ Len(l) <= MaxLedger
LedgerIsOwned == Owned(vault.ledger)

LedgerInv == TypeOK /\ LedgerIsOwned

\* The entries after s, without the current session.
Newer(b, s) ==
    {t \in ToSet(b.ledger) \ {b.token} :
        \E i, j \in DOMAIN b.ledger : i < j /\ b.ledger[i] = s /\ b.ledger[j] = t}

\* README.md:25 and the comment on CleanupPolicy: a cleanup revokes only
\* sessions the workbench created, never the current one, and never one of the
\* Durable newest spare ones of the ledger, of which some may meanwhile be gone.
CleanupIsConservative ==
    [][pc = "revoke" => \A s \in live \ live' :
        ~stale /\ todo' # todo =>
            /\ s \in owned \ {vault.token}
            /\ Cardinality(Newer(vault, s)) >= Durable]_vars

\* A session the workbench created stays on the ledger while the platform lists
\* it, through failed, lost and half done revocations and crashes: else no
\* cleanup would ever free it.  (Its record may be lost right after the login,
\* or age out, and a token that does not name its session makes none.)
NoSessionForgotten ==
    stale \/ owned \intersect live \subseteq
                ToSet(vault.ledger) \union lost \union Unrecorded

\* The comment at broker.go:276: saving the new session does not bring back an
\* entry a revocation has removed.
LedgerMovesForward ==
    [][~stale' => ToSet(vault'.ledger) \subseteq ToSet(vault.ledger) \union {sid}]_vars

\* A login the guard has let through finds fewer sessions than the threshold,
\* but for those that came since the look.
LoginRespectsCapacity ==
    pc = "login" /\ looked = "ok" => Cardinality(live) < Threshold + arrived

\* README.md:25: before an explicit login at the threshold the workbench cleans
\* up or refuses; only a list that cannot be read lets the login through.
LoginIsGuarded ==
    pc = "login" /\ Readable(vault) /\ Cardinality(live) >= Threshold + arrived => looked # "no"

------------------------------------------------------------------------------
(***************************************************************************)
(* The inductive invariant behind the properties above.                    *)
(***************************************************************************)
\* Every copy of the bundle holds such a ledger, and an operation that may
\* write one back works on what the vault holds, unless an older bundle came
\* in between.
CopiesAreLedgers ==
    /\ Owned(bundle.ledger) /\ Owned(mine.ledger)
    /\ editor # NoEdit => Owned(editor.ledger)
    /\ ~stale /\ pc \notin {"idle", "look", "relook"} => bundle = vault

\* The session that was given, or revoked, by the operation under way.
SidInStep ==
    /\ pc = "saveLogin" => sid \in owned
    /\ pc = "saveOne" => sid \in born \ live

\* What a cleanup is about to revoke has Durable newer entries after it, and
\* what it is about to forget is not listed any more.
CleanupInStep ==
    pc = "revoke" =>
        /\ ToSet(bundle.ledger) \intersect live \subseteq kept
        /\ \A s \in ToSet(todo) :
              /\ s \in ToSet(bundle.ledger) \ {bundle.token}
              /\ Cardinality(Newer(bundle, s)) >= Durable

\* Only a login is guarded, and what its guard found is forgotten with it.
GuardInStep ==
    /\ IsFiniteSet(live)
    /\ pc \in {"look", "relook", "login"} => op = "login"
    /\ looked # "no" => pc \in {"login", "saveLogin"}

SessionIInv ==
    /\ LedgerInv
    /\ NoSessionForgotten
    /\ LoginRespectsCapacity
    /\ CopiesAreLedgers
    /\ SidInStep
    /\ CleanupInStep
    /\ GuardInStep
==============================================================================
