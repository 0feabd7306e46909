----------------------------- MODULE BrokerProofs -----------------------------
(***************************************************************************)
(* Theorems about Broker, for any number of concurrent calls, of tokens    *)
(* and of faults, edits and deletions: one call at a time is inside the    *)
(* auth lock and knows the newest cookie, no save moves a session back, no *)
(* session is opened without need, and the vault has the password the user *)
(* entered last.                                                           *)
(***************************************************************************)
EXTENDS Broker, TLAPS

\* An account that has just been created, or has one session.
LEMMA InitBrokerIInv == Init => BrokerIInv
  <1> SUFFICES ASSUME Init PROVE BrokerIInv
    OBVIOUS
  <1>1. PICK n \in {0, 1} :
          /\ vault = [pw |-> 1, parent |-> n, lottery |-> 0, cookie |-> n]
          /\ issued = n /\ live = 1..n /\ cookie = n
    BY DEF Init
  <1>2. Inside = {}
    BY DEF Init, Inside
  <1>3. TypeOK
    BY <1>1 DEF Init, TypeOK, Bundles, Blank, PCs, AllOps
  <1>4. OneInside
    BY <1>2, BrokerAssumption DEF Init, OneInside
  <1>5. AbsentIsBlank /\ PasswordsAgree
    BY <1>1, <1>2 DEF Init, AbsentIsBlank, PasswordsAgree
  <1>6. NewCookieIsSaved
    BY <1>1, <1>2 DEF Init, NewCookieIsSaved, CopyIsNewest
  <1>7. TokensInOrder /\ SessionIsNeeded
    BY <1>1, <1>2 DEF Init, TokensInOrder, SessionIsNeeded, Blank
  <1>8. QED
    BY <1>3, <1>4, <1>5, <1>6, <1>7 DEF BrokerIInv

\* A call outside the lock that stays outside.
LEMMA OutsideInv ==
    ASSUME BrokerIInv, NEW c \in Callers,
           \/ \E o \in Ops : CallServed(c, o) \/ Call(c, o)
           \/ CallRenew(c) \/ Leave(c) \/ EnterServed(c)
    PROVE  BrokerIInv'
  <1> USE BrokerAssumption
      DEF BrokerIInv, TypeOK, session, platform, user, Goto, PCs, AllOps
  <1>1. /\ UNCHANGED <<vault, present, lock, second, live, cookie, issued, expired,
                       status, editor, password, trouble>>
        /\ pc[c] \in {"idle", "queued", "done"}
        /\ pc' \in {[pc EXCEPT ![c] = "idle"], [pc EXCEPT ![c] = "queued"], [pc EXCEPT ![c] = "done"]}
        /\ mine' \in {mine, [mine EXCEPT ![c] = vault], [mine EXCEPT ![c] = Blank]}
    BY DEF CallServed, Call, CallRenew, Leave, EnterServed
  <1>2. Inside' = Inside /\ c \notin Inside
    BY <1>1 DEF Inside
  <1>3. \A d \in Inside : pc'[d] = pc[d] /\ mine'[d] = mine[d]
    BY <1>1, <1>2 DEF Inside
  <1>4. TypeOK'
    <2>1. op' \in [Callers -> AllOps \union {"renewParent", "renewLottery"}]
      BY DEF CallServed, Call, CallRenew, Leave, EnterServed
    <2>2. Blank \in Bundles
      BY DEF Blank, Bundles
    <2>3. QED
      BY <1>1, <2>1, <2>2
  <1>5. OneInside' /\ AbsentIsBlank' /\ PasswordsAgree'
    BY <1>1, <1>2, <1>3 DEF OneInside, AbsentIsBlank, PasswordsAgree
  <1>6. NewCookieIsSaved'
    BY <1>1, <1>2, <1>3 DEF NewCookieIsSaved, CopyIsNewest
  <1>7. TokensInOrder'
    BY <1>1, <1>2, <1>3 DEF TokensInOrder, Blank
  <1>8. SessionIsNeeded'
    <2>1. pc'[c] = "queued" /\ op'[c] = "renewParent" => mine'[c].parent \notin live
      BY DEF CallServed, Call, CallRenew, Leave, EnterServed, SessionIsNeeded
    <2>2. op' \in {op, [op EXCEPT ![c] = op'[c]]}
      BY DEF CallServed, Call, CallRenew, Leave, EnterServed
    <2>3. QED
      BY <1>1, <2>1, <2>2 DEF SessionIsNeeded, Usable
  <1>9. QED
    BY <1>4, <1>5, <1>6, <1>7, <1>8

\* What a call starts with when it has taken the lock: the saved bundle, but
\* for the token that was rejected, and a reason to open a session unless it
\* goes on with the saved one.
LEMMA EnterFacts ==
    ASSUME BrokerIInv, NEW c \in Callers, Enter(c)
    PROVE  /\ pc'[c] \in {"bridge", "guard", "validate", "refresh"}
           /\ mine'[c] \in {vault, [vault EXCEPT !.parent = 0], [vault EXCEPT !.lottery = 0]}
           /\ pc'[c] \in {"validate", "bridge"} => mine'[c].parent = vault.parent /\ vault.parent # 0
           /\ pc'[c] # "bridge" => ~Usable(vault.parent) \/ vault.parent \notin live
  <1> USE DEF BrokerIInv, TypeOK, Bundles
  <1>1. /\ pc[c] = "queued"
        /\ ~Serves(vault, c, op[c])
        /\ mine'[c] = Opening(vault, c)
        /\ pc'[c] = Stage(Opening(vault, c), c)
    BY DEF Enter, Goto
  <1>2. op[c] \in {"parent", "lottery", "reauth", "renewParent", "renewLottery"}
    BY DEF AllOps
  <1>3. CASE op[c] \in {"parent", "reauth"}
    BY <1>1, <1>3 DEF Serves, Opening, Stage, WantsLottery, Usable
  <1>4. CASE op[c] = "lottery"
    BY <1>1, <1>4 DEF Serves, Opening, Stage, WantsLottery, Usable
  <1>5. CASE op[c] = "renewParent"
    <2>1. mine[c].parent \notin live
      BY <1>1, <1>5 DEF SessionIsNeeded
    <2>2. ~Usable(vault.parent) \/ vault.parent = mine[c].parent
      BY <1>1, <1>5 DEF Serves
    <2>3. Opening(vault, c) = [vault EXCEPT !.parent = 0]
      BY <1>5 DEF Opening
    <2>4. QED
      BY <1>1, <1>5, <2>1, <2>2, <2>3 DEF Stage, WantsLottery
  <1>6. CASE op[c] = "renewLottery"
    <2>1. Opening(vault, c) = [vault EXCEPT !.lottery = 0]
      BY <1>6 DEF Opening
    <2>2. QED
      BY <1>1, <1>6, <2>1 DEF Stage, WantsLottery, Usable
  <1>7. QED
    BY <1>2, <1>3, <1>4, <1>5, <1>6

\* The lock is taken and the bundle loaded again.
LEMMA EnterInv ==
    ASSUME BrokerIInv, NEW c \in Callers, Enter(c)
    PROVE  BrokerIInv'
  <1> USE BrokerAssumption DEF BrokerIInv, TypeOK, PCs
  <1>1. /\ lock = Nobody /\ lock' = c /\ pc[c] = "queued"
        /\ UNCHANGED <<vault, present, op, second, live, cookie, issued, expired,
                       status, editor, password, trouble>>
        /\ pc' = [pc EXCEPT ![c] = pc'[c]]
        /\ mine' = [mine EXCEPT ![c] = mine'[c]]
    BY DEF Enter, Goto, session, platform, user
  <1>2. Inside = {} /\ Inside' = {c}
    BY <1>1, EnterFacts DEF Inside, OneInside
  <1>3. /\ mine'[c] \in Bundles
        /\ mine'[c].pw = vault.pw /\ mine'[c].cookie = vault.cookie
        /\ mine'[c].parent \in {0, vault.parent}
    BY EnterFacts DEF Bundles
  <1>4. TypeOK'
    BY <1>1, <1>3, EnterFacts
  <1>5. OneInside'
    BY <1>1, <1>2 DEF OneInside
  <1>6. AbsentIsBlank' /\ PasswordsAgree'
    <2>1. mine'[c].pw = 0 => mine'[c] = Blank /\ pc'[c] \in {"refresh", "guard"}
      <3> SUFFICES ASSUME mine'[c].pw = 0
                   PROVE  mine'[c] = Blank /\ pc'[c] \in {"refresh", "guard"}
        OBVIOUS
      <3>1. vault = Blank
        BY <1>3 DEF AbsentIsBlank
      <3>2. mine'[c] = Blank
        BY <3>1, EnterFacts DEF Blank
      <3>3. QED
        BY <3>1, <3>2, EnterFacts DEF Blank
    <2>2. QED
      BY <1>1, <1>2, <1>3, <2>1 DEF AbsentIsBlank, PasswordsAgree, Blank
  <1>7. NewCookieIsSaved'
    <2>1. trouble \subseteq {"delete"} /\ present /\ cookie # 0 => vault.cookie = cookie
      BY <1>2 DEF NewCookieIsSaved, Inside
    <2>2. ~present => mine'[c].pw = 0
      BY <1>3 DEF AbsentIsBlank, Blank
    <2>3. QED
      BY <1>1, <1>2, <1>3, <2>1, <2>2 DEF NewCookieIsSaved, CopyIsNewest
  <1>8. TokensInOrder'
    <2>1. pc'[c] \in {"validate", "bridge"} => present
      BY EnterFacts DEF AbsentIsBlank, Blank
    <2>2. QED
      BY <1>1, <1>2, <1>3, <2>1, EnterFacts DEF TokensInOrder, Bundles
  <1>9. SessionIsNeeded'
    BY <1>1, EnterFacts DEF SessionIsNeeded, Usable
  <1>10. QED
    BY <1>4, <1>5, <1>6, <1>7, <1>8, <1>9

\* The call inside the lock is alone.
LEMMA InsideIsOne ==
    ASSUME BrokerIInv, NEW c \in Inside
    PROVE  c \in Callers /\ Inside = {c} /\ lock = c
  BY DEF BrokerIInv, OneInside, Inside

\* The saved token is rejected, accepted, or bridged again after a refresh.
LEMMA ValidateInv ==
    ASSUME BrokerIInv, NEW c \in Callers,
           ValidateAccepted(c) \/ ValidateRejected(c) \/ BridgeRejected(c)
    PROVE  BrokerIInv'
  <1> USE DEF BrokerIInv, TypeOK, Bundles, PCs
  <1>1. /\ UNCHANGED <<vault, present, lock, op, live, cookie, issued, expired,
                       status, editor, password, trouble>>
        /\ pc[c] \in {"validate", "bridge"}
        /\ pc' = [pc EXCEPT ![c] = pc'[c]] /\ pc'[c] \in {"saveParent", "refresh"}
        /\ pc'[c] = "saveParent" => mine' = mine
        /\ pc'[c] = "refresh" =>
              /\ mine' \in {mine, [mine EXCEPT ![c].parent = 0]}
              /\ second'[c] \/ (pc[c] = "validate" /\ second' = second)
        /\ second' \in {second, [second EXCEPT ![c] = TRUE]}
    BY DEF ValidateAccepted, ValidateRejected, BridgeRejected, Goto, session, platform, user
  <1>2. c \in Inside /\ Inside = {c} /\ lock = c /\ Inside' = {c}
    BY <1>1, InsideIsOne DEF Inside
  <1>3. /\ mine[c] \in Bundles /\ mine'[c] \in Bundles
        /\ mine' = [mine EXCEPT ![c] = mine'[c]]
        /\ mine'[c].pw = mine[c].pw /\ mine'[c].cookie = mine[c].cookie
        /\ mine'[c].parent \in {0, mine[c].parent}
    BY <1>1
  <1>4. mine[c].pw # 0
    BY <1>1, <1>2 DEF AbsentIsBlank
  <1>5. TypeOK' /\ OneInside'
    <2>1. second' \in [Callers -> BOOLEAN]
      BY <1>1
    <2>2. pc' \in [Callers -> PCs]
      BY <1>1
    <2>3. mine' \in [Callers -> Bundles]
      BY <1>3
    <2>4. QED
      BY <1>1, <1>2, <2>1, <2>2, <2>3 DEF OneInside
  <1>6. AbsentIsBlank' /\ PasswordsAgree'
    BY <1>1, <1>2, <1>3, <1>4 DEF AbsentIsBlank, PasswordsAgree
  <1>7. NewCookieIsSaved'
    BY <1>1, <1>2, <1>3, <1>4 DEF NewCookieIsSaved, CopyIsNewest
  <1>8. TokensInOrder'
    BY <1>1, <1>2, <1>3 DEF TokensInOrder
  <1>9. SessionIsNeeded'
    BY <1>1 DEF SessionIsNeeded, Usable
  <1>10. QED
    BY <1>5, <1>6, <1>7, <1>8, <1>9

\* A refresh or a login: the new token is newer than all others.
LEMMA NewSessionInv ==
    ASSUME BrokerIInv, NEW c \in Callers, Refresh(c) \/ Login(c)
    PROVE  BrokerIInv'
  <1> USE DEF BrokerIInv, TypeOK, Bundles, PCs
  <1>1. PICK new \in Nat : NewSession(c, new)
    BY DEF Refresh, Login
  <1>2. /\ UNCHANGED <<vault, present, lock, op, second, expired, status, editor, password, trouble>>
        /\ pc[c] \in {"refresh", "login"} /\ pc' = [pc EXCEPT ![c] = "saveParent"]
    BY DEF Refresh, Login, Goto, session, user
  <1>3. c \in Inside /\ Inside = {c} /\ lock = c /\ Inside' = {c}
    BY <1>2, InsideIsOne DEF Inside
  <1>4. mine[c].pw # 0
    BY <1>2, <1>3 DEF Refresh, Login, AbsentIsBlank, Blank
  <1>5. /\ issued' = issued + 1 /\ live' = live \union {issued'} /\ cookie' = new
        /\ mine'[c] \in Bundles /\ mine' = [mine EXCEPT ![c] = mine'[c]]
        /\ mine'[c].pw = mine[c].pw /\ mine'[c].parent = issued' /\ mine'[c].cookie = new
    <2>1. /\ issued' = issued + 1 /\ live' = live \union {issued'} /\ cookie' = new
          /\ mine' = [mine EXCEPT ![c].parent = issued', ![c].lottery = 0, ![c].cookie = new]
      BY <1>1 DEF NewSession
    <2>2. mine' = [mine EXCEPT ![c] =
                     [mine[c] EXCEPT !.parent = issued', !.lottery = 0, !.cookie = new]]
      BY <2>1
    <2>3. mine'[c] = [mine[c] EXCEPT !.parent = issued', !.lottery = 0, !.cookie = new]
      BY <2>2
    <2>4. mine' = [mine EXCEPT ![c] = mine'[c]]
      BY <2>2, <2>3
    <2>5. issued' \in Nat /\ mine[c] \in Bundles
      BY <2>1
    <2>6. QED
      BY <2>1, <2>3, <2>4, <2>5
  <1>6. TypeOK' /\ OneInside'
    <2>1. live' \in SUBSET (1..issued')
      BY <1>5
    <2>2. QED
      BY <1>2, <1>3, <1>5, <2>1 DEF OneInside
  <1>7. AbsentIsBlank' /\ PasswordsAgree'
    BY <1>2, <1>3, <1>4, <1>5 DEF AbsentIsBlank, PasswordsAgree
  <1>8. NewCookieIsSaved'
    BY <1>2, <1>3, <1>5 DEF NewCookieIsSaved, CopyIsNewest
  <1>9. TokensInOrder'
    BY <1>2, <1>3, <1>5 DEF TokensInOrder
  <1>10. SessionIsNeeded'
    <2>1. \A d \in Callers : pc'[d] = "queued" => pc[d] = "queued" /\ mine'[d] = mine[d]
      BY <1>2, <1>5
    <2>2. vault.parent \notin live => vault.parent \notin live'
      BY <1>5 DEF TokensInOrder
    <2>3. \A d \in Callers : mine[d].parent \notin live => mine[d].parent \notin live'
      BY <1>5 DEF TokensInOrder
    <2>4. QED
      BY <1>2, <2>1, <2>2, <2>3 DEF SessionIsNeeded, Usable
  <1>11. QED
    BY <1>6, <1>7, <1>8, <1>9, <1>10

\* The capacity hook: the copy may be loaded again, the password stays.
LEMMA GuardInv ==
    ASSUME BrokerIInv, NEW c \in Callers, Guard(c)
    PROVE  BrokerIInv'
  <1> USE DEF BrokerIInv, TypeOK, Bundles, PCs
  <1>1. /\ UNCHANGED <<vault, present, lock, op, second, live, cookie, issued, expired,
                       status, editor, password, trouble>>
        /\ pc[c] = "guard" /\ pc' = [pc EXCEPT ![c] = "login"] /\ mine[c].pw # 0
    BY DEF Guard, Goto, session, platform, user
  <1>2. PICK b \in {mine[c], vault} : mine' = [mine EXCEPT ![c] = [b EXCEPT !.pw = mine[c].pw]]
    BY DEF Guard
  <1>3. c \in Inside /\ Inside = {c} /\ lock = c /\ Inside' = {c}
    BY <1>1, InsideIsOne DEF Inside
  <1>4. /\ mine'[c] \in Bundles /\ mine' = [mine EXCEPT ![c] = mine'[c]]
        /\ mine'[c].pw = mine[c].pw
        /\ mine'[c].parent \in {mine[c].parent, vault.parent}
    BY <1>2
  <1>5. TypeOK' /\ OneInside'
    BY <1>1, <1>3, <1>4 DEF OneInside
  <1>6. AbsentIsBlank' /\ PasswordsAgree'
    BY <1>1, <1>3, <1>4 DEF AbsentIsBlank, PasswordsAgree
  <1>7. NewCookieIsSaved'
    BY <1>1, <1>3, <1>4 DEF NewCookieIsSaved, CopyIsNewest
  <1>8. TokensInOrder'
    BY <1>1, <1>3, <1>4 DEF TokensInOrder
  <1>9. SessionIsNeeded'
    BY <1>1, <1>4 DEF SessionIsNeeded, Usable
  <1>10. QED
    BY <1>5, <1>6, <1>7, <1>8, <1>9

\* A lottery token for the parent session.
LEMMA BridgeInv ==
    ASSUME BrokerIInv, NEW c \in Callers, Bridge(c)
    PROVE  BrokerIInv'
  <1> USE DEF BrokerIInv, TypeOK, Bundles, PCs
  <1>1. /\ UNCHANGED <<vault, present, lock, op, second, cookie, expired,
                       status, editor, password, trouble>>
        /\ pc[c] = "bridge" /\ pc' = [pc EXCEPT ![c] = "saveLottery"]
        /\ issued' = issued + 1 /\ live' = live \union {issued'}
        /\ mine' = [mine EXCEPT ![c].lottery = issued']
    BY DEF Bridge, Goto, session, user
  <1>2. c \in Inside /\ Inside = {c} /\ lock = c /\ Inside' = {c}
    BY <1>1, InsideIsOne DEF Inside
  <1>3. /\ mine'[c] \in Bundles /\ mine' = [mine EXCEPT ![c] = mine'[c]]
        /\ mine'[c].pw = mine[c].pw /\ mine'[c].parent = mine[c].parent
        /\ mine'[c].cookie = mine[c].cookie
    BY <1>1
  <1>4. mine[c].pw # 0
    BY <1>1, <1>2 DEF AbsentIsBlank
  <1>5. TypeOK' /\ OneInside'
    <2>1. live' \in SUBSET (1..issued')
      BY <1>1
    <2>2. QED
      BY <1>1, <1>2, <1>3, <2>1 DEF OneInside
  <1>6. AbsentIsBlank' /\ PasswordsAgree'
    BY <1>1, <1>2, <1>3, <1>4 DEF AbsentIsBlank, PasswordsAgree
  <1>7. NewCookieIsSaved'
    BY <1>1, <1>2, <1>3, <1>4 DEF NewCookieIsSaved, CopyIsNewest
  <1>8. TokensInOrder'
    BY <1>1, <1>2, <1>3 DEF TokensInOrder
  <1>9. SessionIsNeeded'
    <2>1. \A d \in Callers : pc'[d] = "queued" => pc[d] = "queued" /\ mine'[d] = mine[d]
      BY <1>1
    <2>2. vault.parent \notin live => vault.parent \notin live'
      BY <1>1 DEF TokensInOrder
    <2>3. \A d \in Callers : mine[d].parent \notin live => mine[d].parent \notin live'
      BY <1>1 DEF TokensInOrder
    <2>4. QED
      BY <1>1, <2>1, <2>2, <2>3 DEF SessionIsNeeded, Usable
  <1>10. QED
    BY <1>5, <1>6, <1>7, <1>8, <1>9

\* The vault takes over a copy that is newer than what it holds.
LEMMA SaveInv ==
    ASSUME BrokerIInv, NEW c \in Callers, SaveParent(c) \/ SaveLottery(c)
    PROVE  BrokerIInv'
  <1> USE BrokerAssumption DEF BrokerIInv, TypeOK, Bundles, PCs
  <1>1. /\ UNCHANGED <<op, mine, live, cookie, issued, expired, status, editor, password, trouble>>
        /\ vault' = mine[c] /\ present' = TRUE
        /\ pc[c] \in {"saveParent", "saveLottery"}
        /\ pc' = [pc EXCEPT ![c] = pc'[c]]
        /\ \/ pc'[c] = "bridge" /\ UNCHANGED <<lock, second>>
           \/ pc'[c] = "done" /\ lock' = Nobody /\ second' = [second EXCEPT ![c] = FALSE]
    BY DEF SaveParent, SaveLottery, Save, Return, Goto, platform, user
  <1>2. c \in Inside /\ Inside = {c} /\ lock = c
    BY <1>1, InsideIsOne DEF Inside
  <1>3. Inside' = IF pc'[c] = "bridge" THEN {c} ELSE {}
    BY <1>1, <1>2 DEF Inside
  <1>4. mine[c] \in Bundles /\ mine[c].pw # 0
    BY <1>1, <1>2 DEF AbsentIsBlank
  <1>5. TypeOK' /\ OneInside'
    <2>1. second' \in [Callers -> BOOLEAN]
      BY <1>1
    <2>2. pc' \in [Callers -> PCs]
      BY <1>1
    <2>3. QED
      BY <1>1, <1>2, <1>3, <1>4, <2>1, <2>2 DEF OneInside
  <1>6. AbsentIsBlank' /\ PasswordsAgree'
    BY <1>1, <1>2, <1>3, <1>4 DEF AbsentIsBlank, PasswordsAgree
  <1>7. NewCookieIsSaved'
    BY <1>1, <1>2, <1>3, <1>4 DEF NewCookieIsSaved, CopyIsNewest
  <1>8. TokensInOrder'
    BY <1>1, <1>2, <1>3, <1>4 DEF TokensInOrder
  <1>9. SessionIsNeeded'
    <2>1. \A d \in Callers : pc'[d] \notin {"validate", "refresh", "guard", "login"}
      BY <1>1, <1>2 DEF Inside
    <2>2. QED
      BY <1>1, <2>1 DEF SessionIsNeeded
  <1>10. QED
    BY <1>5, <1>6, <1>7, <1>8, <1>9

\* The call gives up; after a save that failed the new cookie is lost.
LEMMA FailInv ==
    ASSUME BrokerIInv, NEW c \in Callers, Fail(c)
    PROVE  BrokerIInv'
  <1> USE BrokerAssumption DEF BrokerIInv, TypeOK, PCs
  <1>1. /\ UNCHANGED <<vault, present, live, cookie, issued, expired, status, editor, password>>
        /\ pc' = [pc EXCEPT ![c] = "idle"] /\ lock' = Nobody
        /\ mine' = [mine EXCEPT ![c] = Blank] /\ op' = [op EXCEPT ![c] = "parent"]
        /\ second' = [second EXCEPT ![c] = FALSE]
        /\ pc[c] \notin {"idle", "queued", "done"}
        /\ \/ pc[c] # "saveParent" /\ trouble' = trouble
           \/ trouble' = trouble \union {"fault"}
    BY DEF Fail, Return, Goto, Trouble, session, platform, user
  <1>2. c \in Inside /\ Inside = {c} /\ lock = c /\ Inside' = {}
    BY <1>1, InsideIsOne DEF Inside
  <1>3. TypeOK' /\ OneInside'
    <2>1. Blank \in Bundles
      BY DEF Blank, Bundles
    <2>2. QED
      BY <1>1, <1>2, <2>1 DEF OneInside, AllOps
  <1>4. AbsentIsBlank' /\ PasswordsAgree'
    BY <1>1, <1>2 DEF AbsentIsBlank, PasswordsAgree
  <1>5. NewCookieIsSaved'
    BY <1>1, <1>2 DEF NewCookieIsSaved, CopyIsNewest, Inside
  <1>6. TokensInOrder'
    BY <1>1, <1>2 DEF TokensInOrder, Blank
  <1>7. SessionIsNeeded'
    BY <1>1 DEF SessionIsNeeded, Usable
  <1>8. QED
    BY <1>3, <1>4, <1>5, <1>6, <1>7

\* A crash forgets the calls and the edit.
LEMMA CrashInv ==
    ASSUME BrokerIInv, Crash
    PROVE  BrokerIInv'
  <1> USE BrokerAssumption DEF BrokerIInv, TypeOK
  <1>1. /\ UNCHANGED <<vault, present, live, cookie, issued, expired, status, password>>
        /\ pc' = [c \in Callers |-> "idle"] /\ lock' = Nobody
        /\ mine' = [c \in Callers |-> Blank] /\ op' = [c \in Callers |-> "parent"]
        /\ second' = [c \in Callers |-> FALSE]
        /\ editor' = NoEdit /\ trouble' = trouble \union {"fault"}
    BY DEF Crash, Trouble, session, platform
  <1>2. Inside' = {}
    BY <1>1 DEF Inside
  <1>3. TypeOK' /\ OneInside'
    <2>1. Blank \in Bundles
      BY DEF Blank, Bundles
    <2>2. QED
      BY <1>1, <1>2, <2>1 DEF OneInside, AllOps, PCs
  <1>4. AbsentIsBlank' /\ PasswordsAgree'
    BY <1>1, <1>2 DEF AbsentIsBlank, PasswordsAgree
  <1>5. NewCookieIsSaved'
    BY <1>1 DEF NewCookieIsSaved
  <1>6. TokensInOrder' /\ SessionIsNeeded'
    BY <1>1, <1>2 DEF TokensInOrder, SessionIsNeeded, Blank
  <1>7. QED
    BY <1>3, <1>4, <1>5, <1>6

\* The platform and the clock: fewer tokens are accepted, fewer are usable.
LEMMA PlatformInv ==
    ASSUME BrokerIInv, Revoke \/ \E t \in 1..issued : Expire(t) \/ Reject(t)
    PROVE  BrokerIInv'
  <1> USE DEF BrokerIInv, TypeOK
  <1>1. /\ UNCHANGED <<vault, present, lock, pc, op, mine, second, issued,
                       status, editor, password, trouble>>
        /\ live' \subseteq live /\ expired \subseteq expired' /\ cookie' \in {0, cookie}
        /\ expired' \in SUBSET Nat
    <2>1. CASE Revoke
      BY <2>1 DEF Revoke, session, calls, user
    <2>2. CASE \E t \in 1..issued : Expire(t) \/ Reject(t)
      <3>1. PICK t \in 1..issued : Expire(t) \/ Reject(t)
        BY <2>2
      <3>2. CASE Expire(t)
        BY <3>2 DEF Expire, session, calls, platform, user
      <3>3. CASE Reject(t)
        BY <3>3 DEF Reject, session, calls, user
      <3>4. QED
        BY <3>1, <3>2, <3>3
    <2>3. QED
      BY <2>1, <2>2
  <1>2. Inside' = Inside
    BY <1>1 DEF Inside
  <1>3. TypeOK' /\ OneInside'
    BY <1>1, <1>2 DEF OneInside
  <1>4. AbsentIsBlank' /\ PasswordsAgree' /\ TokensInOrder'
    BY <1>1, <1>2 DEF AbsentIsBlank, PasswordsAgree, TokensInOrder
  <1>5. NewCookieIsSaved'
    BY <1>1, <1>2 DEF NewCookieIsSaved, CopyIsNewest
  <1>6. SessionIsNeeded'
    BY <1>1 DEF SessionIsNeeded, Usable
  <1>7. QED
    BY <1>3, <1>4, <1>5, <1>6

\* An edit between load and save.
LEMMA EditInv ==
    ASSUME BrokerIInv, EditLoad \/ EditSave
    PROVE  BrokerIInv'
  <1> USE BrokerAssumption DEF BrokerIInv, TypeOK
  <1>1. UNCHANGED <<lock, pc, op, mine, second, live, cookie, issued, expired, status>>
    BY DEF EditLoad, EditSave, session, calls, platform
  <1>2. Inside' = Inside
    BY <1>1 DEF Inside
  <1>3. CASE EditLoad
    <2>1. /\ UNCHANGED <<vault, present, password>> /\ editor' = vault
          /\ trouble' = trouble \union {"edit"}
      BY <1>3 DEF EditLoad, Trouble, session
    <2>2. TypeOK' /\ OneInside'
      BY <1>1, <1>2, <2>1 DEF OneInside
    <2>3. AbsentIsBlank' /\ PasswordsAgree'
      BY <1>1, <1>2, <2>1 DEF AbsentIsBlank, PasswordsAgree
    <2>4. NewCookieIsSaved' /\ SessionIsNeeded'
      BY <1>1, <2>1 DEF NewCookieIsSaved, SessionIsNeeded
    <2>5. TokensInOrder'
      BY <1>1, <1>2, <2>1 DEF TokensInOrder, Bundles
    <2>6. QED
      BY <2>2, <2>3, <2>4, <2>5
  <1>4. CASE EditSave
    <2>1. /\ editor # NoEdit /\ editor' = NoEdit /\ password' = 2
          /\ vault' = [editor EXCEPT !.pw = 2] /\ present' = TRUE
          /\ trouble' \in {trouble, trouble \union {"crossed"}}
          /\ Inside # {} => "crossed" \in trouble'
      BY <1>4 DEF EditSave, Save
    <2>2. /\ editor \in Bundles /\ vault' \in Bundles
          /\ vault'.pw = 2 /\ vault'.parent = editor.parent
      BY <2>1 DEF Bundles
    <2>3. "edit" \in trouble
      BY <2>1 DEF NewCookieIsSaved
    <2>4. TypeOK' /\ OneInside'
      BY <1>1, <1>2, <2>1, <2>2 DEF OneInside
    <2>5. AbsentIsBlank' /\ PasswordsAgree'
      BY <1>1, <1>2, <2>1, <2>2 DEF AbsentIsBlank, PasswordsAgree
    <2>6. NewCookieIsSaved' /\ SessionIsNeeded'
      BY <1>1, <2>1, <2>3 DEF NewCookieIsSaved, SessionIsNeeded
    <2>7. TokensInOrder'
      BY <1>1, <1>2, <2>1, <2>2 DEF TokensInOrder
    <2>8. QED
      BY <2>4, <2>5, <2>6, <2>7
  <1>5. QED
    BY <1>3, <1>4

\* The three writes of a deletion.
LEMMA DeleteInv ==
    ASSUME BrokerIInv, DeleteDisable \/ DeleteCredentials \/ DeleteRecord
    PROVE  BrokerIInv'
  <1> USE BrokerAssumption DEF BrokerIInv, TypeOK
  <1>1. /\ UNCHANGED <<lock, pc, op, mine, second, live, cookie, issued, expired, editor, password>>
        /\ status' \in {"enabled", "disabled", "erased", "gone"}
        /\ trouble' \in {trouble, trouble \union {"delete"}}
        /\ \/ UNCHANGED <<vault, present>>
           \/ vault' = Blank /\ present' = FALSE
    BY DEF DeleteDisable, DeleteCredentials, DeleteRecord, Trouble, session, calls, platform
  <1>2. Inside' = Inside
    BY <1>1 DEF Inside
  <1>3. TypeOK' /\ OneInside'
    <2>1. Blank \in Bundles
      BY DEF Blank, Bundles
    <2>2. QED
      BY <1>1, <1>2, <2>1 DEF OneInside
  <1>4. AbsentIsBlank' /\ PasswordsAgree'
    BY <1>1, <1>2 DEF AbsentIsBlank, PasswordsAgree
  <1>5. NewCookieIsSaved'
    BY <1>1, <1>2 DEF NewCookieIsSaved, CopyIsNewest
  <1>6. TokensInOrder'
    <2>1. \A c \in Inside : mine[c].parent \in Nat
      BY DEF Inside, Bundles
    <2>2. vault' = vault \/ (vault'.parent = 0 /\ ~present')
      BY <1>1 DEF Blank
    <2>3. QED
      BY <1>1, <1>2, <2>1, <2>2 DEF TokensInOrder
  <1>7. SessionIsNeeded'
    BY <1>1 DEF SessionIsNeeded, Usable, Blank
  <1>8. QED
    BY <1>3, <1>4, <1>5, <1>6, <1>7

LEMMA NextBrokerIInv == BrokerIInv /\ [Next]_vars => BrokerIInv'
  <1> SUFFICES ASSUME BrokerIInv, [Next]_vars PROVE BrokerIInv'
    OBVIOUS
  <1>1. CASE UNCHANGED vars
    BY <1>1
    DEF vars, session, calls, platform, user, BrokerIInv, TypeOK, OneInside, AbsentIsBlank,
        PasswordsAgree, NewCookieIsSaved, CopyIsNewest, TokensInOrder, SessionIsNeeded,
        Inside, Usable
  <1>2. ASSUME NEW c \in Callers, Request(c) PROVE BrokerIInv'
    BY <1>2, OutsideInv, EnterInv, ValidateInv, NewSessionInv, GuardInv, BridgeInv, SaveInv,
       FailInv DEF Request
  <1>3. QED
    BY <1>1, <1>2, CrashInv, PlatformInv, EditInv, DeleteInv DEF Next, User

LEMMA BrokerIInvariant == Spec => []BrokerIInv
  BY InitBrokerIInv, NextBrokerIInv, PTL DEF Spec

(***************************************************************************)
(* One call at a time is inside the auth lock; without faults and edits    *)
(* its copy, and between two calls the vault, has the refresh cookie that  *)
(* the platform accepts now.                                               *)
(***************************************************************************)
THEOREM BrokerInvariant == Spec => []BrokerInv
  <1>1. BrokerIInv => BrokerInv
    BY BrokerAssumption
    DEF BrokerIInv, BrokerInv, OneInside, NewCookieIsSaved, SavedIsNewest, Inside, TypeOK
  <1>2. QED
    BY <1>1, BrokerIInvariant, PTL

(***************************************************************************)
(* The vault has the password the user entered last, unless a call was     *)
(* inside the lock when the edit was saved.                                *)
(***************************************************************************)
THEOREM PasswordIsKept == Spec => []PasswordIsLastEntered
  <1>1. BrokerIInv => PasswordIsLastEntered
    BY DEF BrokerIInv, PasswordsAgree, PasswordIsLastEntered
  <1>2. QED
    BY <1>1, BrokerIInvariant, PTL

(***************************************************************************)
(* No call writes back an older session than the vault holds.              *)
(***************************************************************************)
THEOREM NoSaveGoesBack == Spec => SavesMoveForward
  <1> DEFINE Forward == \A c \in Inside :
                 pc[c] \in {"saveParent", "saveLottery"} /\ vault' # vault /\ pc' # pc =>
                     vault'.parent >= vault.parent
  <1>1. BrokerIInv /\ [Next]_vars => [Forward]_vars
    <2> SUFFICES ASSUME BrokerIInv, Next, vault' # vault, pc' # pc,
                        NEW d \in Inside, pc[d] \in {"saveParent", "saveLottery"}
                 PROVE  vault'.parent >= vault.parent
      OBVIOUS
    <2>1. PICK c \in Callers : SaveParent(c) \/ SaveLottery(c)
      BY DEF Next, Request, CallServed, Call, CallRenew, Leave, EnterServed, Enter,
             ValidateAccepted, ValidateRejected, Refresh, Guard, Login, Bridge, BridgeRejected,
             Fail, Crash, Expire, Reject, Revoke, User, EditLoad, EditSave, DeleteDisable,
             DeleteCredentials, DeleteRecord, session, calls
    <2>2. c \in Inside /\ pc[c] \in {"saveParent", "saveLottery"} /\ vault' = mine[c]
      BY <2>1 DEF SaveParent, SaveLottery, Save, Inside
    <2>3. vault.parent <= mine[c].parent /\ vault.parent \in Nat /\ mine[c].parent \in Nat
      BY <2>2 DEF BrokerIInv, TokensInOrder, TypeOK, Bundles, Inside
    <2>4. QED
      BY <2>2, <2>3
  <1>2. QED
    BY <1>1, BrokerIInvariant, PTL DEF Spec, SavesMoveForward

(***************************************************************************)
(* A refresh or a login happens only when the saved session is unusable,   *)
(* rejected by the platform, or rejected by Bridge: calls that waited, and *)
(* several rejections of one token, lead to one new session.               *)
(***************************************************************************)
THEOREM EverySessionIsNeeded == Spec => NoNeedlessSession
  <1> DEFINE Needed == \A c \in Callers :
                 /\ "edit" \notin trouble
                 /\ pc[c] \in {"refresh", "login"} /\ issued' # issued /\ pc'[c] = "saveParent"
                 => second[c] \/ ~Usable(vault.parent) \/ vault.parent \notin live
  <1>1. BrokerIInv => Needed
    BY DEF BrokerIInv, SessionIsNeeded
  <1>2. BrokerIInv /\ [Next]_vars => [Needed]_vars
    BY <1>1
  <1>3. QED
    BY <1>2, BrokerIInvariant, PTL DEF Spec, NoNeedlessSession
===============================================================================
