---------------------------- MODULE RegistryProofs ----------------------------
(***************************************************************************)
(* Theorems about FileVault and about Registry, for any set of accounts,   *)
(* codes, bundles, requests and FileVault values: the writers of one value *)
(* never lose an entry to each other, the two stores agree on the accounts *)
(* there are, and no account inherits anything of a deleted one.           *)
(***************************************************************************)
EXTENDS Registry, WellFoundedInduction, TLAPS

\* The invariant holds at the start: nobody is writing.
LEMMA VaultInvInit == VaultInit => VaultInv
  BY VaultAssumption DEF VaultInit, VaultInv, VaultTypeOK, OneWriterPerInstance, CopyIsCurrent, Contents, Nothing

\* A writer that is not alone in its FileVault value does not exist.
LEMMA AloneInInstance ==
    ASSUME VaultInv, NEW w \in Writers, target[w] # NoAccount,
           NEW v \in Writers \ {w}, InstanceOf[v] = InstanceOf[w]
    PROVE  target[v] = NoAccount
  BY DEF VaultInv, OneWriterPerInstance

\* No step breaks the invariant.
LEMMA VaultInvStep == VaultInv /\ [VaultNext]_vaultVars => VaultInv'
<1> SUFFICES ASSUME VaultInv, [VaultNext]_vaultVars PROVE VaultInv'
  OBVIOUS
<1> USE VaultAssumption DEF Contents, Nothing
<1>1. ASSUME NEW w \in Writers, NEW a \in Accounts, Open(w, a) PROVE VaultInv'
  <2>1. VaultTypeOK'
    BY <1>1 DEF VaultInv, VaultTypeOK, Open
  <2>2. OneWriterPerInstance'
    BY <1>1 DEF Open, VaultInv, VaultTypeOK, OneWriterPerInstance
  <2>3. CopyIsCurrent'
    <3>1. w \notin overtaken
      BY <1>1 DEF Open, VaultInv, CopyIsCurrent
    <3>2. QED
      BY <1>1, <3>1 DEF Open, VaultInv, VaultTypeOK, CopyIsCurrent
  <2> QED BY <2>1, <2>2, <2>3 DEF VaultInv
<1>2. ASSUME NEW w \in Writers, target[w] # NoAccount, Close(w),
             Abandon(w) \/ \E entry \in Bundles \union {NoBundle} : Replace(w, entry)
      PROVE  VaultInv'
  <2>1. VaultTypeOK'
    BY <1>2 DEF VaultInv, VaultTypeOK, Close, Abandon, Replace
  <2>2. OneWriterPerInstance'
    BY <1>2 DEF Close, VaultInv, VaultTypeOK, OneWriterPerInstance
  <2>3. /\ target'[w] = NoAccount /\ copy'[w] = Nothing /\ w \notin overtaken'
        /\ \A v \in Writers \ {w} : target'[v] = target[v] /\ copy'[v] = copy[v]
    BY <1>2 DEF Close, Abandon, Replace, VaultInv, VaultTypeOK
  <2>4. ASSUME NEW v \in Writers \ {w}, v \notin overtaken'
        PROVE  copy[v] = IF target[v] = NoAccount THEN Nothing ELSE file'
    <3>1. CASE Abandon(w)
      BY <2>4, <3>1 DEF Abandon, VaultInv, CopyIsCurrent
    <3>2. CASE \E entry \in Bundles \union {NoBundle} : Replace(w, entry)
      <4>1. target[v] = NoAccount
        BY <1>2, <2>4, <3>2, AloneInInstance DEF Replace
      <4>2. QED
        BY <4>1 DEF VaultInv, CopyIsCurrent
    <3>3. QED
      BY <1>2, <3>1, <3>2
  <2>5. ASSUME NEW v \in overtaken' PROVE v \in Writers /\ target'[v] # NoAccount
    <3>1. v \in Writers \ {w}
      BY <2>1, <2>3, <2>5 DEF VaultTypeOK
    <3>2. target[v] # NoAccount
      BY <1>2, <2>5, <3>1 DEF Abandon, Replace, VaultInv, CopyIsCurrent
    <3>3. QED
      BY <2>3, <3>1, <3>2
  <2>6. CopyIsCurrent'
    BY <2>3, <2>4, <2>5 DEF CopyIsCurrent
  <2> QED BY <2>1, <2>2, <2>6 DEF VaultInv
<1>3. ASSUME NEW w \in Writers, NEW b \in Bundles, Save(w, b) PROVE VaultInv'
  BY <1>2, <1>3 DEF Save
<1>4. ASSUME NEW w \in Writers, Delete(w) PROVE VaultInv'
  BY <1>2, <1>4 DEF Delete
<1>5. ASSUME NEW w \in Writers, GiveUp(w) PROVE VaultInv'
  BY <1>2, <1>5 DEF GiveUp
<1>6. CASE VaultCrash
  BY <1>6 DEF VaultCrash, VaultInv, VaultTypeOK, OneWriterPerInstance, CopyIsCurrent
<1>7. CASE UNCHANGED vaultVars
  BY <1>7 DEF vaultVars, VaultInv, VaultTypeOK, OneWriterPerInstance, CopyIsCurrent
<1> QED BY <1>1, <1>3, <1>4, <1>5, <1>6, <1>7 DEF VaultNext

\* Whatever fails, the writers of a FileVault value take turns, and what one of
\* them writes back is stale only if another value has written since it read.
THEOREM VaultInvariant == VaultSpec => []VaultInv
  BY VaultInvInit, VaultInvStep, PTL DEF VaultSpec

\* A step of the vault is a Put of one account, writes back a stale copy, or
\* leaves the file alone.
LEMMA VaultStepIsPut ==
    VaultInv /\ [VaultNext]_vaultVars =>
        [Map!MapNext \/ \E w \in Writers : WritesBackStale(w)]_file
<1> DEFINE Apart == [Map!MapNext \/ \E w \in Writers : WritesBackStale(w)]_file
<1> SUFFICES ASSUME VaultInv, [VaultNext]_vaultVars PROVE Apart
  OBVIOUS
<1> USE VaultAssumption DEF Contents
<1>1. ASSUME NEW w \in Writers, target[w] # NoAccount, Close(w),
             NEW entry \in Bundles \union {NoBundle}, Replace(w, entry)
      PROVE  Apart
  <2>1. CASE w \in overtaken
    <3>1. target'[w] = NoAccount
      BY <1>1 DEF Close, VaultInv, VaultTypeOK
    <3>2. QED
      BY <2>1, <3>1 DEF WritesBackStale
  <2>2. CASE w \notin overtaken
    <3>1. target[w] \in Accounts /\ file' = [file EXCEPT ![target[w]] = entry]
      BY <1>1, <2>2 DEF Replace, VaultInv, VaultTypeOK, CopyIsCurrent
    <3>2. Map!MapNext
      BY <3>1 DEF Map!MapNext, Map!Put
    <3>3. QED
      BY <3>2
  <2>3. QED
    BY <2>1, <2>2
<1>2. ASSUME NEW w \in Writers, NEW b \in Bundles, Save(w, b) PROVE Apart
  BY <1>1, <1>2 DEF Save
<1>3. ASSUME NEW w \in Writers, Delete(w) PROVE Apart
  BY <1>1, <1>3 DEF Delete, Abandon
<1>4. ASSUME NEW w \in Writers, NEW a \in Accounts, Open(w, a) PROVE UNCHANGED file
  BY <1>4 DEF Open
<1>5. ASSUME NEW w \in Writers, GiveUp(w) PROVE UNCHANGED file
  BY <1>5 DEF GiveUp, Abandon
<1>6. CASE VaultCrash
  BY <1>6 DEF VaultCrash
<1>7. CASE UNCHANGED vaultVars
  BY <1>7 DEF vaultVars
<1> QED BY <1>2, <1>3, <1>4, <1>5, <1>6, <1>7 DEF VaultNext

\* A save or a deletion changes the entry of its own account only, unless it
\* writes back a copy that another FileVault value has overtaken.
THEOREM VaultKeepsEntriesApart == VaultSpec => EntriesStayApart
  BY VaultInvariant, VaultStepIsPut, PTL DEF VaultSpec, EntriesStayApart

\* With one FileVault value nobody is overtaken.
LEMMA NobodyIsOvertaken ==
    OneInstance /\ VaultInv /\ overtaken = {} /\ [VaultNext]_vaultVars => (overtaken = {})'
<1> SUFFICES ASSUME OneInstance, VaultInv, overtaken = {}, [VaultNext]_vaultVars
             PROVE  overtaken' = {}
  OBVIOUS
<1>1. ASSUME NEW w \in Writers, Abandon(w) \/ \E entry : Replace(w, entry)
      PROVE  overtaken' = {}
  BY <1>1 DEF Abandon, Replace, OneInstance
<1>2. ASSUME NEW w \in Writers, Delete(w) \/ GiveUp(w) \/ \E b \in Bundles : Save(w, b)
      PROVE  overtaken' = {}
  <2>1. Abandon(w) \/ \E entry : Replace(w, entry)
    BY <1>2 DEF Delete, GiveUp, Save
  <2>2. QED
    BY <1>1, <2>1
<1>3. CASE VaultCrash \/ UNCHANGED vaultVars \/ \E w \in Writers, a \in Accounts : Open(w, a)
  BY <1>3 DEF VaultCrash, vaultVars, Open
<1> QED BY <1>2, <1>3 DEF VaultNext

\* With one FileVault value, whole-file replacement implements a map whose
\* entries change one at a time: no operation on an account disturbs another
\* account's credentials, crashes and failed writes included.  This is what
\* the server would have if the broker and the handlers shared their value.
THEOREM VaultImplementsMap == OneInstance /\ VaultSpec => AccountsStayApart
<1>1. OneInstance => OneInstance'
  BY DEF OneInstance
<1>2. VaultInit => overtaken = {} /\ Map!MapInit
  BY DEF VaultInit, Contents, Map!MapInit
<1>3. VaultInv /\ overtaken = {} /\ [VaultNext]_vaultVars => [Map!MapNext]_file
  BY VaultStepIsPut DEF WritesBackStale
<1> QED BY <1>1, <1>2, <1>3, VaultInvariant, NobodyIsOvertaken, PTL
        DEF VaultSpec, AccountsStayApart, Map!MapSpec

------------------------------------------------------------------------------
(***************************************************************************)
(* The vault under handlers, broker, session requests and migration.       *)
(***************************************************************************)
\* A write of one entry while nobody is between read and rename.
LEMMA PutWhenFree ==
    ASSUME VaultInv, \A w \in Writers : target[w] = NoAccount,
           NEW a \in Accounts, NEW b \in Bundles,
           file' = [file EXCEPT ![a] = b], UNCHANGED <<mu, target, copy, overtaken>>
    PROVE  VaultInv' /\ Map!MapNext
  <1>1. VaultTypeOK'
    BY DEF VaultInv, VaultTypeOK, Contents
  <1>2. OneWriterPerInstance' /\ CopyIsCurrent'
    BY DEF VaultInv, OneWriterPerInstance, CopyIsCurrent
  <1>3. Map!MapNext
    BY DEF Map!MapNext, Map!Put
  <1>4. QED
    BY <1>1, <1>2, <1>3 DEF VaultInv

\* Every step of the registry is a step of the vault, a write of one entry
\* while the vault is free, or leaves the vault alone.
LEMMA VaultStep ==
    ASSUME RegistryIInv, [Next]_vars
    PROVE  VaultInv' /\ [Map!MapNext \/ \E w \in Writers : WritesBackStale(w)]_file
  <1> DEFINE Apart == [Map!MapNext \/ \E w \in Writers : WritesBackStale(w)]_file
  <1>1. VaultInv
    BY DEF RegistryIInv, RegistryInv
  <1>2. VaultNext \/ UNCHANGED vaultVars => VaultInv' /\ Apart
    BY <1>1, VaultInvStep, VaultStepIsPut
  <1> HIDE DEF Apart
  <1>3. ASSUME NEW w \in Writers, Handler(w) \/ Business(w) PROVE VaultNext \/ UNCHANGED vaultVars
    <2>1. CASE OpenVault(w) \/ OpenSession(w)
      <3>1. call[w].id \in Accounts
        BY <2>1 DEF OpenVault, OpenSession, RegistryIInv, RequestsInStep
      <3>2. QED
        BY <2>1, <3>1 DEF OpenVault, OpenSession, VaultNext
    <2>2. CASE \/ SaveCredentials(w) \/ ForgetCredentials(w) \/ VaultFails(w)
               \/ SaveSession(w) \/ SessionFails(w)
      BY <2>2 DEF SaveCredentials, ForgetCredentials, VaultFails, SaveSession, SessionFails, VaultNext
    <2>3. QED
      BY <1>3, <2>1, <2>2
      DEF Handler, Business, CreateRecord, BeginEdit, BeginSchedules, BeginDelete, EnterHandler,
          Enter, UpdateRecord, RemoveScoped, Unregister, SetSchedules, NotFound, StoreFails,
          BeginBusiness, BeginManage, LoadSession, ReleaseAuth, Work, EndWork
  <1>4. CASE Crash \/ Start
    BY <1>2, <1>4 DEF Crash, Start, VaultNext, Apart
  <1>5. CASE Migration
    <2>1. ASSUME NEW a \in Legacy, Import(a) PROVE VaultInv' /\ Apart
      <3>1. \A w \in Writers : target[w] = NoAccount
        BY <2>1 DEF Import, RegistryIInv, RequestsInStep, NothingOutlivesServer
      <3>2. a \in Accounts
        BY RegistryAssumption
      <3>3. QED
        BY <1>1, <2>1, <3>1, <3>2, PutWhenFree DEF Import, Apart
    <2>2. QED
      BY <1>2, <1>5, <2>1 DEF Migration, MigrateBegin, MigrateFails, MigrateFinish, WriteVersion4, Apart
  <1>6. CASE UNCHANGED vars
    BY <1>2, <1>6 DEF vars, Apart
  <1>7. QED
    BY <1>2, <1>3, <1>4, <1>5, <1>6 DEF Next, Apart

\* A set of naturals has a least element: the library's minimal elements of a
\* well-founded relation, for <.
LEMMA LeastOfNaturals ==
    ASSUME NEW T, T \subseteq Nat, T # {}
    PROVE  \E x \in T : \A y \in T : x <= y
  <1> DEFINE R == OpToRel(<, Nat)
  <1>1. IsWellFoundedOn(R, Nat)
    BY NatLessThanWellFounded, Zenon
  <1>2. ASSUME NEW x \in Nat, NEW y \in Nat, <<x, y>> \notin R PROVE ~(x < y)
    BY <1>2 DEF OpToRel
  <1> HIDE DEF R
  <1>3. PICK x \in T : \A y \in T : ~(<<y, x>> \in R)
    BY <1>1, WFMin
  <1>4. ASSUME NEW y \in T PROVE x <= y
    <2>1. ~(y < x)
      BY <1>2, <1>3
    <2>2. QED
      BY <2>1
  <1>5. QED
    BY <1>4

\* Highest is an upper bound: the highest code is the one farthest from M
\* counted downwards.
LEMMA HighestOfCodes ==
    ASSUME NEW M \in Nat, NEW S, S \subseteq 1..M
    PROVE  Highest(S) \in 0..M /\ \A n \in S : n <= Highest(S)
  <1>1. CASE S = {}
    BY <1>1 DEF Highest
  <1>2. CASE S # {}
    <2> DEFINE T == {M - n : n \in S}
    <2>1. T \subseteq Nat /\ T # {}
      <3>1. \A n \in S : n \in 1..M
        OBVIOUS
      <3>2. \A n \in 1..M : M - n \in Nat
        OBVIOUS
      <3>3. T \subseteq Nat
        BY <3>1, <3>2
      <3>4. QED
        BY <1>2, <3>3
    <2>2. PICK x \in T : \A y \in T : x <= y
      BY <2>1, LeastOfNaturals
    <2>3. PICK m \in S : x = M - m
      BY <2>2
    <2>4. \A n \in S : n <= m
      <3>1. TAKE n \in S
      <3>2. M - n \in T
        OBVIOUS
      <3>3. M - m <= M - n
        BY <2>2, <2>3, <3>2
      <3>4. QED
        BY <3>3
    <2>5. Highest(S) \in S /\ \A n \in S : n <= Highest(S)
      BY <1>2, <2>3, <2>4 DEF Highest
    <2>6. \A n \in S : n \in 0..M
      <3>1. \A n \in S : n \in 1..M
        OBVIOUS
      <3>2. QED
        BY <3>1
    <2>7. QED
      BY <2>5, <2>6
  <1>3. QED
    BY <1>1, <1>2

------------------------------------------------------------------------------
(***************************************************************************)
(* The requests.                                                           *)
(***************************************************************************)
\* What a request that has begun knows.
LEMMA RequestRuns ==
    ASSUME RegistryIInv, NEW w \in Writers, pc[w] # "idle"
    PROVE  server = "up" /\ call[w].id \in Accounts /\ call[w].id # NoAccount
  BY VaultAssumption DEF RegistryIInv, RequestsInStep, NothingOutlivesServer

\* What the end of an operation on the vault does to the file: its own entry is
\* written, and the entries of other accounts change only where they are struck.
LEMMA VaultWrite ==
    ASSUME VaultInv, NEW w \in Writers, target[w] \in Accounts,
           GiveUp(w) \/ Delete(w) \/ \E b \in Bundles : Save(w, b)
    PROVE  /\ target' = [target EXCEPT ![w] = NoAccount]
           /\ copy' = [copy EXCEPT ![w] = Nothing]
           /\ Struck(w) \subseteq Accounts
           /\ \A b \in Accounts \ {target[w]} :
                 /\ file'[b] \in {file[b], copy[w][b]}
                 /\ b \notin Struck(w) => file'[b] = file[b]
           /\ GiveUp(w) => file' = file
           /\ Delete(w) => \/ copy[w][target[w]] = NoBundle
                           \/ file'[target[w]] = NoBundle
           /\ (\E b \in Bundles : Save(w, b)) => file'[target[w]] # NoBundle
  <1> DEFINE a == target[w]
  <1>1. copy[w] \in Contents /\ a # NoAccount
    BY VaultAssumption DEF VaultInv, VaultTypeOK
  <1>2. Close(w)
    BY DEF GiveUp, Delete, Save
  <1>3. Struck(w) \subseteq Accounts /\ \A b \in Accounts \ {a} : b \notin Struck(w) => file'[b] = file[b]
    BY DEF Struck
  <1>4. CASE GiveUp(w) \/ (Delete(w) /\ copy[w][a] = NoBundle)
    <2>1. file' = file
      BY <1>4 DEF GiveUp, Delete, Abandon
    <2>2. ~(\E b \in Bundles : Save(w, b)) \/ file'[a] # NoBundle
      BY <1>1, VaultAssumption DEF Save, Replace, Contents
    <2>3. Delete(w) => copy[w][a] = NoBundle \/ file'[a] = NoBundle
      BY <1>1 DEF Delete, Replace, Contents
    <2>4. QED
      BY <1>2, <1>3, <2>1, <2>2, <2>3 DEF Close
  <1>5. CASE Delete(w) /\ copy[w][a] # NoBundle
    <2>1. file' = [copy[w] EXCEPT ![a] = NoBundle]
      BY <1>5 DEF Delete, Replace
    <2>2. file'[a] = NoBundle /\ \A b \in Accounts \ {a} : file'[b] = copy[w][b]
      BY <1>1, <2>1 DEF Contents
    <2>3. ~(\E b \in Bundles : Save(w, b))
      BY <1>1, <2>1, VaultAssumption DEF Save, Replace, Contents
    <2>4. GiveUp(w) => file' = file
      BY DEF GiveUp, Abandon
    <2>5. QED
      BY <1>2, <1>3, <2>2, <2>3, <2>4 DEF Close
  <1>6. CASE \E b \in Bundles : Save(w, b)
    <2>1. PICK b \in Bundles : file' = [copy[w] EXCEPT ![a] = b]
      BY <1>6 DEF Save, Replace
    <2>2. file'[a] # NoBundle /\ \A c \in Accounts \ {a} : file'[c] = copy[w][c]
      BY <1>1, <2>1, VaultAssumption DEF Contents
    <2>3. GiveUp(w) => file' = file
      BY DEF GiveUp, Abandon
    <2>4. Delete(w) => copy[w][a] = NoBundle \/ file'[a] = NoBundle
      BY <1>1 DEF Delete, Replace, Contents
    <2>5. QED
      BY <1>2, <1>3, <2>2, <2>3, <2>4 DEF Close
  <1>7. QED
    BY <1>4, <1>5, <1>6

\* A step that leaves the stores and the copies alone and lets no deletion be
\* enabled again keeps what deletions have disabled.
LEMMA StaysDisabled ==
    ASSUME RegistryIInv, UNCHANGED reg, reenabled \subseteq reenabled' \union {w \in Writers : pc'[w] = "idle"},
           RequestsInStep',
           \A w \in Writers : Deleting(w)' => Deleting(w) /\ call'[w].id = call[w].id
    PROVE  DisabledStays'
  <1>1. SUFFICES ASSUME NEW w \in Writers, w \notin reenabled', Deleting(w)'
                 PROVE  reg'[call'[w].id] # "enabled"
    BY DEF DisabledStays
  <1>2. pc'[w] # "idle"
    BY <1>1 DEF Deleting, RequestsInStep
  <1>3. w \notin reenabled
    BY <1>1, <1>2
  <1>4. QED
    BY <1>1, <1>3 DEF RegistryIInv, DisabledStays

\* A request begins on an account that is registered.
LEMMA BeginInv ==
    ASSUME RegistryIInv, VaultInv', NEW w \in Writers, NEW a \in Accounts,
           NEW op \in {"edit", "login", "schedules", "delete", "business", "manage"},
           NEW step, NEW status,
           Enter(w, a, op, step, status),
           op = "schedules" => step = "schedules" /\ status = "none",
           op \in {"business", "manage"} => step = "begun" /\ status = "none",
           op \in {"edit", "login", "delete"} => step = "record" /\ status \in Statuses,
           op = "delete" => status = "disabled"
    PROVE  RegistryIInv'
  <1>1. /\ UNCHANGED <<file, mu, target, copy, version, reg, seq, sched, scoped, server,
                       imported, reenabled, forgotten>>
        /\ server = "up" /\ pc[w] = "idle" /\ Registered(a)
        /\ pc' = [pc EXCEPT ![w] = step]
        /\ call' = [call EXCEPT ![w] = [op |-> op, id |-> a, status |-> status]]
        /\ disturbed' = IF op \in Changing /\ \E v \in Writers \ {w} :
                                                call[v].id = a /\ call[v].op \in Changing
                        THEN disturbed \union {a} ELSE disturbed
    BY DEF Enter, Meet, vaultVars, regVars
  <1>2. a # NoAccount
    BY VaultAssumption
  <1>3. RegistryInv'
    BY <1>1 DEF RegistryIInv, RegistryInv, RegistryTypeOK, Registered
  <1>4. RequestsInStep'
    BY <1>1, <1>2 DEF RegistryIInv, RequestsInStep, Statuses
  <1>5. NothingOutlivesServer' /\ ImportedIsSaved'
    BY <1>1 DEF RegistryIInv, NothingOutlivesServer, ImportedIsSaved, Registered
  <1>6. UnusedIsEmpty'
    BY <1>1 DEF RegistryIInv, UnusedIsEmpty, Registered, RequestsInStep
  <1>7. call \in [Writers -> [op : {"none", "create", "edit", "login", "schedules", "delete",
                                   "business", "manage"},
                              id : Accounts \union {NoAccount},
                              status : Statuses \union {"none"}]]
        /\ pc'[w] = step /\ call'[w].op = op /\ call'[w].id = a /\ call[w].op = "none"
        /\ step \in {"record", "schedules", "begun"}
        /\ \A v \in Writers \ {w} : call'[v] = call[v] /\ pc'[v] = pc[v]
    BY <1>1 DEF RegistryIInv, RequestsInStep
  <1>8. DisabledStays'
    <2>1. \A v \in Writers : Deleting(v)' => Deleting(v) /\ call'[v].id = call[v].id
      BY <1>7 DEF Deleting
    <2>2. QED
      BY <1>1, <1>4, <2>1, StaysDisabled
  <1>9. StoresAgree'
    <2>1. ASSUME NEW b \in Accounts, \A v \in Writers : call'[v].id = b => call'[v].op \notin {"create", "delete"}
          PROVE  \A v \in Writers : call[v].id = b => call[v].op \notin {"create", "delete"}
      BY <1>7, <2>1
    <2>2. QED
      BY <1>1, <2>1
      DEF RegistryIInv, StoresAgree, CredentialsHaveAccount, AccountsHaveCredentials, Registered
  <1>10. UndisturbedIsWhole'
    <2>1. SUFFICES ASSUME NEW b \in Accounts, b \notin disturbed', NEW u \in Writers,
                          call'[u].id = b, call'[u].op \in Changing
                   PROVE  /\ \A v \in Writers : call'[v].id = b /\ call'[v].op \in Changing => v = u
                          /\ Registered(b)
                          /\ file[b] = NoBundle <=> Halfway(u)'
                          /\ call'[u].op = "delete" /\ pc'[u] = "vault" => copy[u][b] # NoBundle
      BY <1>1 DEF UndisturbedIsWhole, Registered
    <2>2. b \notin disturbed
      BY <1>1, <2>1
    <2>3. CASE u = w
      <3>1. b = a /\ op \in Changing /\ \A v \in Writers \ {w} : ~(call[v].id = a /\ call[v].op \in Changing)
        BY <1>1, <1>7, <2>1, <2>3
      <3>2. \A v \in Writers : call[v].id = a => call[v].op \notin {"create", "delete"}
        BY <1>7, <3>1 DEF Changing
      <3>3. file[a] # NoBundle
        BY <1>1, <2>2, <3>1, <3>2 DEF RegistryIInv, StoresAgree, AccountsHaveCredentials
      <3>4. ~Halfway(w)'
        BY <1>7 DEF Halfway
      <3>5. QED
        BY <1>1, <1>7, <2>3, <3>1, <3>3, <3>4
    <2>4. CASE u # w
      <3>1. call[u].id = b /\ call[u].op \in Changing /\ (Halfway(u)' <=> Halfway(u))
        BY <1>7, <2>1, <2>4 DEF Halfway
      <3>2. ~(call'[w].id = b /\ call'[w].op \in Changing)
        BY <1>1, <1>7, <2>1, <2>4, <3>1
      <3>3. /\ \A v \in Writers : call[v].id = b /\ call[v].op \in Changing => v = u
            /\ Registered(b) /\ (file[b] = NoBundle <=> Halfway(u))
            /\ call[u].op = "delete" /\ pc[u] = "vault" => copy[u][b] # NoBundle
        BY <2>2, <3>1 DEF RegistryIInv, UndisturbedIsWhole
      <3>4. QED
        BY <1>7, <2>4, <3>1, <3>2, <3>3
    <2>5. QED
      BY <2>3, <2>4
  <1>11. QED
    BY <1>3, <1>4, <1>5, <1>6, <1>8, <1>9, <1>10 DEF RegistryIInv

\* A creation takes a code that has nothing and that nobody works on.
LEMMA CreateInv ==
    ASSUME RegistryIInv, VaultInv', NEW w \in Writers, CreateRecord(w)
    PROVE  RegistryIInv'
  <1> DEFINE a == NextCode
  <1>1. /\ UNCHANGED <<file, mu, target, copy, version, sched, scoped, server, imported, forgotten>>
        /\ server = "up" /\ pc[w] = "idle" /\ ~Registered(a) /\ a \in Codes
        /\ reg' = [reg EXCEPT ![a] = "enabled"] /\ seq' = a
        /\ pc' = [pc EXCEPT ![w] = "open"]
        /\ call' = [call EXCEPT ![w] = [op |-> "create", id |-> a, status |-> "none"]]
        /\ reenabled' = reenabled \union Deletions(a)
        /\ disturbed' = IF \E v \in Writers \ {w} : call[v].id = a /\ call[v].op \in Changing
                        THEN disturbed \union {a} ELSE disturbed
    BY DEF CreateRecord, Meet, vaultVars, Changing
  <1>2. \A c \in Codes : Registered(c) => c <= a
    <2> DEFINE live == {c \in Codes : Registered(c)}
               top == Highest(live)
    <2>1. live \subseteq 1..MaxCode /\ MaxCode \in Nat
      BY RegistryAssumption DEF Codes
    <2>2. top \in Nat /\ \A c \in live : c <= top
      BY <2>1, HighestOfCodes
    <2>3. seq \in Nat /\ (seq # 0 => \A c \in live : c <= seq)
      BY <2>1 DEF RegistryIInv, RegistryInv, RegistryTypeOK
    <2>4. \A c \in live : c \in Nat
      BY DEF Codes
    <2>5. a = (IF seq = 0 THEN top ELSE seq) + 1
      BY DEF NextCode
    <2> HIDE DEF top, a
    <2>6. \A c \in live : c <= a
      BY <2>2, <2>3, <2>4, <2>5
    <2>7. QED
      BY <2>6
  <1>3. seq # 0 => seq < a
    BY RegistryAssumption DEF NextCode, RegistryIInv, RegistryInv, RegistryTypeOK
  <1>4. a \in Accounts /\ a \in 1..MaxCode /\ a # 0 /\ a # NoAccount /\ a \notin Legacy
    BY <1>1, RegistryAssumption, VaultAssumption DEF Codes
  <1> HIDE DEF a
  <1>5. RegistryInv'
    <2>1. a \in 0..MaxCode
      BY <1>4, RegistryAssumption
    <2>2. \A c \in Codes : Registered(c)' => c <= a
      BY <1>1, <1>2, <1>4 DEF Registered, RegistryIInv, RegistryInv, RegistryTypeOK, Codes
    <2>3. RegistryTypeOK'
      BY <1>1, <1>4, <2>1 DEF RegistryIInv, RegistryInv, RegistryTypeOK, Statuses, Deletions
    <2>4. QED
      BY <1>1, <2>2, <2>3 DEF RegistryInv
  <1>6. RequestsInStep'
    BY <1>1, <1>4 DEF RegistryIInv, RequestsInStep
  <1>7. NothingOutlivesServer' /\ ImportedIsSaved'
    BY <1>1, <1>4 DEF RegistryIInv, NothingOutlivesServer, ImportedIsSaved
  <1>8. UnusedIsEmpty'
    <2>1. ASSUME NEW c \in Codes, c \notin forgotten, ~Registered(c)', seq' = 0 \/ seq' < c
          PROVE  ~Registered(c) /\ (seq = 0 \/ seq < c) /\ c # a
      <3>1. a < c /\ c # a /\ ~Registered(c)
        BY <1>1, <1>4, <2>1
        DEF Registered, RegistryIInv, RegistryInv, RegistryTypeOK, Codes
      <3>2. seq \in Nat /\ c \in Nat /\ a \in Nat
        BY <1>4, RegistryAssumption DEF RegistryIInv, RegistryInv, RegistryTypeOK, Codes
      <3>3. QED
        BY <1>3, <3>1, <3>2
    <2>2. QED
      BY <1>1, <2>1 DEF RegistryIInv, UnusedIsEmpty, RequestsInStep
  <1>9. /\ pc'[w] = "open" /\ call'[w].op = "create" /\ call'[w].id = a /\ call[w].op = "none"
        /\ \A v \in Writers \ {w} : call'[v] = call[v] /\ pc'[v] = pc[v]
        /\ reg'[a] = "enabled" /\ \A b \in Accounts \ {a} : reg'[b] = reg[b]
    BY <1>1, <1>4 DEF RegistryIInv, RegistryInv, RegistryTypeOK, RequestsInStep
  <1>10. DisabledStays'
    <2>1. SUFFICES ASSUME NEW v \in Writers, v \notin reenabled', Deleting(v)'
                   PROVE  reg'[call'[v].id] # "enabled"
      BY DEF DisabledStays
    <2>2. v # w /\ Deleting(v) /\ call'[v] = call[v]
      BY <1>9, <2>1 DEF Deleting
    <2>3. v \notin reenabled /\ call[v].id # a
      BY <1>1, <2>1, <2>2 DEF Deletions
    <2>4. call[v].id \in Accounts
      BY <2>2 DEF Deleting, RegistryIInv, RequestsInStep
    <2>5. QED
      BY <1>9, <2>2, <2>3, <2>4 DEF RegistryIInv, DisabledStays
  <1>11. StoresAgree'
    <2>1. ASSUME NEW b \in Accounts, file[b] # NoBundle, b \notin disturbed'
          PROVE  reg'[b] # "none" \/ (version = 3 /\ b \in Legacy)
      BY <1>1, <1>9, <2>1 DEF RegistryIInv, StoresAgree, CredentialsHaveAccount, Registered
    <2>2. ASSUME NEW b \in Accounts, reg'[b] # "none", b \notin disturbed',
                 \A v \in Writers : call'[v].id = b => call'[v].op \notin {"create", "delete"}
          PROVE  file[b] # NoBundle
      <3>1. b # a
        BY <1>9, <2>2
      <3>2. \A v \in Writers : call[v].id = b => call[v].op \notin {"create", "delete"}
        BY <1>9, <2>2
      <3>3. QED
        BY <1>1, <1>9, <2>2, <3>1, <3>2 DEF RegistryIInv, StoresAgree, AccountsHaveCredentials, Registered
    <2>3. QED
      BY <1>1, <2>1, <2>2 DEF StoresAgree, CredentialsHaveAccount, AccountsHaveCredentials, Registered
  <1>12. UndisturbedIsWhole'
    <2>1. SUFFICES ASSUME NEW b \in Accounts, b \notin disturbed', NEW u \in Writers,
                          call'[u].id = b, call'[u].op \in Changing
                   PROVE  /\ \A v \in Writers : call'[v].id = b /\ call'[v].op \in Changing => v = u
                          /\ reg'[b] # "none"
                          /\ file[b] = NoBundle <=> Halfway(u)'
                          /\ call'[u].op = "delete" /\ pc'[u] = "vault" => copy[u][b] # NoBundle
      BY <1>1 DEF UndisturbedIsWhole, Registered
    <2>2. b \notin disturbed
      BY <1>1, <2>1
    <2>3. CASE u = w
      <3>1. b = a /\ \A v \in Writers \ {w} : ~(call[v].id = a /\ call[v].op \in Changing)
        BY <1>1, <1>9, <2>1, <2>3
      <3>2. file[a] = NoBundle
        BY <1>1, <1>4, <2>2, <3>1 DEF RegistryIInv, StoresAgree, CredentialsHaveAccount
      <3>3. Halfway(w)'
        BY <1>9 DEF Halfway
      <3>4. QED
        BY <1>9, <2>3, <3>1, <3>2, <3>3
    <2>4. CASE u # w
      <3>1. call[u].id = b /\ call[u].op \in Changing /\ (Halfway(u)' <=> Halfway(u))
        BY <1>9, <2>1, <2>4 DEF Halfway
      <3>2. b # a
        BY <1>1, <2>1, <2>4, <3>1
      <3>3. /\ \A v \in Writers : call[v].id = b /\ call[v].op \in Changing => v = u
            /\ Registered(b) /\ (file[b] = NoBundle <=> Halfway(u))
            /\ call[u].op = "delete" /\ pc[u] = "vault" => copy[u][b] # NoBundle
        BY <2>2, <3>1 DEF RegistryIInv, UndisturbedIsWhole
      <3>4. QED
        BY <1>9, <2>4, <3>1, <3>2, <3>3 DEF Registered
    <2>5. QED
      BY <2>3, <2>4
  <1>13. QED
    BY <1>5, <1>6, <1>7, <1>8, <1>10, <1>11, <1>12 DEF RegistryIInv

\* A step in the middle of a request: it keeps every account registered or not,
\* changes entries of other accounts only where it disturbs them, and leaves an
\* undisturbed account whole.
LEMMA MoveInv ==
    ASSUME RegistryIInv, VaultInv', RequestsInStep', DisabledStays', NEW w \in Writers, NEW a,
           pc[w] # "idle", a = call[w].id, call'[w].id = a, call'[w].op = call[w].op,
           \A v \in Writers \ {w} : pc'[v] = pc[v] /\ call'[v] = call[v] /\ copy'[v] = copy[v],
           UNCHANGED <<version, seq, server, imported, forgotten>>,
           sched' \subseteq sched, scoped' \subseteq scoped \union {a}, reenabled' \subseteq Writers,
           disturbed \subseteq disturbed', disturbed' \subseteq Accounts,
           reg' \in [Accounts -> Statuses \union {"none"}],
           \A b \in Accounts : reg'[b] = "none" <=> reg[b] = "none",
           \A b \in Accounts : copy'[w][b] \in {copy[w][b], file[b], NoBundle},
           \A b \in Accounts \ {a} :
              /\ file'[b] \in {file[b], copy[w][b]}
              /\ b \notin disturbed' => file'[b] = file[b],
           a \notin disturbed' =>
               /\ IF call[w].op \in Changing THEN file'[a] = NoBundle <=> Halfway(w)'
                                             ELSE file'[a] = NoBundle <=> file[a] = NoBundle
               /\ call[w].op = "delete" /\ pc'[w] = "vault" => copy'[w][a] # NoBundle
    PROVE  RegistryIInv'
  <1>1. server = "up" /\ a \in Accounts
    BY RequestRuns
  <1>2. \A b \in Accounts : Registered(b)' <=> Registered(b)
    BY DEF Registered
  <1>3. \A v \in Writers : call'[v].id = call[v].id /\ call'[v].op = call[v].op
    OBVIOUS
  <1>4. RegistryInv'
    <2>1. RegistryTypeOK'
      BY <1>1 DEF RegistryIInv, RegistryInv, RegistryTypeOK
    <2>2. \A c \in Codes : c \in Accounts
      BY RegistryAssumption
    <2>3. QED
      BY <1>2, <2>1, <2>2 DEF RegistryIInv, RegistryInv
  <1>5. NothingOutlivesServer' /\ ImportedIsSaved'
    BY <1>1, <1>2 DEF RegistryIInv, NothingOutlivesServer, ImportedIsSaved
  <1>6. UnusedIsEmpty'
    <2>1. ASSUME NEW c \in Codes, c \notin forgotten, ~Registered(c)', seq = 0 \/ seq < c
          PROVE  /\ c \notin scoped' \union sched'
                 /\ file'[c] = NoBundle
                 /\ \A v \in Writers : call[v].id # c /\ copy'[v][c] = NoBundle
      <3>1. c \in Accounts
        BY RegistryAssumption
      <3>2. /\ c \notin scoped \union sched /\ file[c] = NoBundle
            /\ \A v \in Writers : call[v].id # c /\ copy[v][c] = NoBundle
        BY <1>2, <2>1, <3>1 DEF RegistryIInv, UnusedIsEmpty
      <3>3. file'[c] = NoBundle
        BY <3>1, <3>2
      <3>4. copy'[w][c] = NoBundle
        BY <3>1, <3>2
      <3>5. QED
        BY <3>2, <3>3, <3>4
    <2>2. QED
      BY <1>3, <2>1 DEF UnusedIsEmpty
  <1>7. ASSUME NEW b \in Accounts, b \notin disturbed', NEW u \in Writers,
               call[u].id = b, call[u].op \in Changing
        PROVE  /\ \A v \in Writers : call[v].id = b /\ call[v].op \in Changing => v = u
               /\ Registered(b)
               /\ file[b] = NoBundle <=> Halfway(u)
               /\ call[u].op = "delete" /\ pc[u] = "vault" => copy[u][b] # NoBundle
    BY <1>7 DEF RegistryIInv, UndisturbedIsWhole
  <1>8. StoresAgree'
    <2>1. ASSUME NEW b \in Accounts, file'[b] # NoBundle, b \notin disturbed'
          PROVE  Registered(b)' \/ (version = 3 /\ b \in Legacy)
      <3>1. CASE b = a /\ call[w].op \in Changing
        BY <1>1, <1>2, <1>7, <2>1, <3>1
      <3>2. CASE ~(b = a /\ call[w].op \in Changing)
        BY <1>2, <2>1, <3>2 DEF RegistryIInv, StoresAgree, CredentialsHaveAccount
      <3>3. QED
        BY <3>1, <3>2
    <2>2. ASSUME NEW b \in Accounts, Registered(b)', b \notin disturbed',
                 \A v \in Writers : call'[v].id = b => call'[v].op \notin {"create", "delete"}
          PROVE  file'[b] # NoBundle
      <3>1. file[b] # NoBundle
        BY <1>2, <1>3, <2>2 DEF RegistryIInv, StoresAgree, AccountsHaveCredentials
      <3>2. CASE b = a /\ call[w].op \in Changing
        <4>1. ~Halfway(w)'
          BY <1>3, <2>2, <3>2 DEF Halfway, RequestsInStep, Changing
        <4>2. QED
          BY <2>2, <3>2, <4>1
      <3>3. CASE ~(b = a /\ call[w].op \in Changing)
        BY <2>2, <3>1, <3>3
      <3>4. QED
        BY <3>2, <3>3
    <2>3. QED
      BY <2>1, <2>2 DEF StoresAgree, CredentialsHaveAccount, AccountsHaveCredentials
  <1>9. UndisturbedIsWhole'
    <2>1. SUFFICES ASSUME NEW b \in Accounts, b \notin disturbed', NEW u \in Writers,
                          call[u].id = b, call[u].op \in Changing
                   PROVE  /\ Registered(b)'
                          /\ file'[b] = NoBundle <=> Halfway(u)'
                          /\ call[u].op = "delete" /\ pc'[u] = "vault" => copy'[u][b] # NoBundle
      BY <1>3, <1>7 DEF UndisturbedIsWhole
    <2>2. Registered(b)'
      BY <1>2, <1>7, <2>1
    <2>3. CASE u = w
      BY <2>1, <2>2, <2>3
    <2>4. CASE u # w
      <3>1. /\ Halfway(u)' <=> Halfway(u)
            /\ pc'[u] = pc[u] /\ copy'[u] = copy[u]
        BY <2>4 DEF Halfway
      <3>2. ~(b = a /\ call[w].op \in Changing)
        BY <1>7, <2>1, <2>4
      <3>3. file'[b] = NoBundle <=> file[b] = NoBundle
        BY <2>1, <3>2
      <3>4. QED
        BY <1>7, <2>1, <2>2, <3>1, <3>3
    <2>5. QED
      BY <2>3, <2>4
  <1>10. QED
    BY <1>4, <1>5, <1>6, <1>8, <1>9 DEF RegistryIInv

\* The last step of a request.  What it leaves behind on an undisturbed account
\* is an account with credentials, or neither.
LEMMA ReturnInv ==
    ASSUME RegistryIInv, VaultInv', DisabledStays', NEW w \in Writers, NEW a,
           pc[w] # "idle", a = call[w].id,
           pc' = [pc EXCEPT ![w] = "idle"], call' = [call EXCEPT ![w] = NoCall],
           target' = [target EXCEPT ![w] = NoAccount],
           UNCHANGED <<version, seq, scoped, server, imported>>,
           sched' \subseteq sched \union {a}, reenabled' \subseteq Writers,
           disturbed \subseteq disturbed', disturbed' \subseteq Accounts,
           forgotten \subseteq forgotten', forgotten' \subseteq Accounts,
           reg' \in [Accounts -> Statuses \union {"none"}],
           \A b \in Accounts \ {a} : reg'[b] = reg[b],
           reg[a] = "none" => reg'[a] = "none",
           reg[a] # "none" /\ reg'[a] = "none" => a \in forgotten' \/ seq # 0,
           \A b \in Accounts : copy'[w][b] \in {copy[w][b], NoBundle},
           \A v \in Writers \ {w} : copy'[v] = copy[v],
           \A b \in Accounts \ {a} :
              /\ file'[b] \in {file[b], copy[w][b]}
              /\ b \notin disturbed' => file'[b] = file[b],
           a \notin disturbed' =>
               IF call[w].op \in Changing
               THEN file'[a] # NoBundle <=> reg'[a] # "none"
               ELSE file'[a] = file[a] /\ (reg'[a] = "none" <=> reg[a] = "none")
    PROVE  RegistryIInv'
  <1>1. server = "up" /\ a \in Accounts /\ a # NoAccount
    BY RequestRuns
  <1>2. /\ pc'[w] = "idle" /\ call'[w].op = "none" /\ call'[w].id = NoAccount
        /\ \A v \in Writers \ {w} : pc'[v] = pc[v] /\ call'[v] = call[v]
    BY DEF NoCall, RegistryIInv, RequestsInStep
  <1>3. \A b \in Accounts : Registered(b)' => Registered(b)
    BY DEF Registered
  <1>4. RegistryInv'
    <2>1. RegistryTypeOK'
      BY <1>1 DEF RegistryIInv, RegistryInv, RegistryTypeOK
    <2>2. \A c \in Codes : c \in Accounts
      BY RegistryAssumption
    <2>3. QED
      BY <1>3, <2>1, <2>2 DEF RegistryIInv, RegistryInv
  <1>5. RequestsInStep'
    BY <1>1 DEF RegistryIInv, RegistryInv, VaultInv, VaultTypeOK, RequestsInStep, NoCall
  <1>6. NothingOutlivesServer' /\ ImportedIsSaved'
    BY <1>1, <1>3 DEF RegistryIInv, NothingOutlivesServer, ImportedIsSaved
  <1>7. UnusedIsEmpty'
    <2>1. ASSUME NEW c \in Codes, c \notin forgotten', ~Registered(c)', seq = 0 \/ seq < c
          PROVE  /\ c \notin scoped \union sched'
                 /\ file'[c] = NoBundle
                 /\ \A v \in Writers : call'[v].id # c /\ copy'[v][c] = NoBundle
      <3>1. c \in Accounts /\ c # NoAccount /\ seq \in Nat /\ c \in Nat
        BY RegistryAssumption, VaultAssumption DEF RegistryIInv, RegistryInv, RegistryTypeOK, Codes
      <3>2. c # a
        <4>1. CASE Registered(c)
          <5>1. seq # 0 => c <= seq
            BY <4>1 DEF RegistryIInv, RegistryInv
          <5>2. QED
            BY <2>1, <3>1, <4>1, <5>1 DEF Registered
        <4>2. CASE ~Registered(c)
          BY <2>1, <4>2 DEF RegistryIInv, UnusedIsEmpty
        <4>3. QED
          BY <4>1, <4>2
      <3>3. ~Registered(c)
        BY <2>1, <3>1, <3>2 DEF Registered
      <3>4. /\ c \notin scoped \union sched /\ file[c] = NoBundle
            /\ \A v \in Writers : call[v].id # c /\ copy[v][c] = NoBundle
        BY <2>1, <3>3 DEF RegistryIInv, UnusedIsEmpty
      <3>5. file'[c] = NoBundle /\ copy'[w][c] = NoBundle
        BY <3>1, <3>2, <3>4
      <3>6. QED
        BY <1>2, <3>1, <3>2, <3>4, <3>5
    <2>2. QED
      BY <2>1 DEF UnusedIsEmpty
  <1>8. ASSUME NEW b \in Accounts, b \notin disturbed', NEW u \in Writers,
               call[u].id = b, call[u].op \in Changing
        PROVE  /\ \A v \in Writers : call[v].id = b /\ call[v].op \in Changing => v = u
               /\ Registered(b)
               /\ file[b] = NoBundle <=> Halfway(u)
               /\ call[u].op = "delete" /\ pc[u] = "vault" => copy[u][b] # NoBundle
    BY <1>8 DEF RegistryIInv, UndisturbedIsWhole
  <1>9. StoresAgree'
    <2>1. ASSUME NEW b \in Accounts, file'[b] # NoBundle, b \notin disturbed'
          PROVE  Registered(b)' \/ (version = 3 /\ b \in Legacy)
      <3>1. CASE b = a
        BY <2>1, <3>1 DEF Registered, RegistryIInv, StoresAgree, CredentialsHaveAccount
      <3>2. CASE b # a
        BY <2>1, <3>2 DEF RegistryIInv, StoresAgree, CredentialsHaveAccount, Registered
      <3>3. QED
        BY <3>1, <3>2
    <2>2. ASSUME NEW b \in Accounts, Registered(b)', b \notin disturbed',
                 \A v \in Writers : call'[v].id = b => call'[v].op \notin {"create", "delete"}
          PROVE  file'[b] # NoBundle
      <3>1. CASE b = a /\ call[w].op \in Changing
        BY <2>2, <3>1 DEF Registered
      <3>2. CASE ~(b = a /\ call[w].op \in Changing)
        <4>1. \A v \in Writers : call[v].id = b => call[v].op \notin {"create", "delete"}
          BY <1>2, <2>2, <3>2 DEF Changing
        <4>2. file[b] # NoBundle
          BY <1>3, <2>2, <4>1 DEF RegistryIInv, StoresAgree, AccountsHaveCredentials
        <4>3. QED
          BY <2>2, <3>2, <4>2
      <3>3. QED
        BY <3>1, <3>2
    <2>3. QED
      BY <2>1, <2>2 DEF StoresAgree, CredentialsHaveAccount, AccountsHaveCredentials
  <1>10. UndisturbedIsWhole'
    <2>1. SUFFICES ASSUME NEW b \in Accounts, b \notin disturbed', NEW u \in Writers,
                          call'[u].id = b, call'[u].op \in Changing
                   PROVE  /\ \A v \in Writers : call'[v].id = b /\ call'[v].op \in Changing => v = u
                          /\ Registered(b)'
                          /\ file'[b] = NoBundle <=> Halfway(u)'
                          /\ call'[u].op = "delete" /\ pc'[u] = "vault" => copy'[u][b] # NoBundle
      BY DEF UndisturbedIsWhole
    <2>2. u # w /\ call'[u] = call[u] /\ pc'[u] = pc[u] /\ copy'[u] = copy[u]
      BY <1>2, <2>1 DEF Changing
    <2>3. Halfway(u)' <=> Halfway(u)
      BY <2>2 DEF Halfway
    <2>4. ~(b = a /\ call[w].op \in Changing)
      BY <1>8, <2>1, <2>2
    <2>5. file'[b] = file[b] /\ (Registered(b)' <=> Registered(b))
      BY <2>1, <2>4 DEF Registered
    <2>6. \A v \in Writers : call'[v].id = b /\ call'[v].op \in Changing => v = u
      BY <1>2, <1>8, <2>1, <2>2 DEF Changing
    <2>7. QED
      BY <1>8, <2>1, <2>2, <2>3, <2>5, <2>6
  <1>11. QED
    BY <1>4, <1>5, <1>6, <1>7, <1>9, <1>10 DEF RegistryIInv

\* What the copies of the vault can be after a step that does not end a write.
LEMMA OpenCopies ==
    ASSUME VaultInv, NEW w \in Writers, NEW a, Open(w, a)
    PROVE  /\ copy'[w] = file /\ file' = file
           /\ \A v \in Writers \ {w} : copy'[v] = copy[v]
  BY DEF Open, VaultInv, VaultTypeOK

\* registry.Update ends an edit and is the first step of the other two.
LEMMA UpdateInv ==
    ASSUME RegistryIInv, VaultInv', NEW w \in Writers, UpdateRecord(w)
    PROVE  RegistryIInv'
  <1> DEFINE a == call[w].id
  <1>1. /\ pc[w] \in {"record", "login"} /\ pc[w] # "idle" /\ Registered(a)
        /\ reg' = [reg EXCEPT ![a] = call[w].status]
        /\ reenabled' = IF call[w].status = "enabled" THEN reenabled \union Deletions(a) ELSE reenabled
        /\ UNCHANGED <<file, mu, target, copy, version, seq, sched, scoped, server,
                       imported, disturbed, forgotten>>
    BY DEF UpdateRecord, vaultVars
  <1>2. /\ a \in Accounts /\ call[w].status \in Statuses /\ call[w].op \in {"edit", "login", "delete"}
        /\ call[w].op = "delete" => call[w].status = "disabled"
    BY <1>1, RequestRuns DEF RegistryIInv, RequestsInStep
  <1>3. /\ reg' \in [Accounts -> Statuses \union {"none"}]
        /\ reg'[a] # "none" /\ reg[a] # "none" /\ reg'[a] = call[w].status
        /\ \A b \in Accounts \ {a} : reg'[b] = reg[b]
        /\ disturbed' \subseteq Accounts /\ forgotten' \subseteq Accounts
        /\ reenabled' \subseteq Writers
    BY <1>1, <1>2 DEF RegistryIInv, RegistryInv, RegistryTypeOK, Registered, Statuses, Deletions
  <1>4. /\ pc'[w] \in {"idle", "login", "open"}
        /\ pc'[w] # "idle" => call'[w].id = a /\ call'[w].op = call[w].op
        /\ \A v \in Writers \ {w} : pc'[v] = pc[v] /\ call'[v] = call[v]
    BY <1>1 DEF UpdateRecord, RegistryIInv, RequestsInStep
  <1>5. RequestsInStep'
    BY <1>1, SMTT(30) DEF UpdateRecord, RegistryIInv, RequestsInStep, Statuses, NoCall
  <1>6. DisabledStays'
    <2>1. SUFFICES ASSUME NEW v \in Writers, v \notin reenabled', Deleting(v)'
                   PROVE  reg'[call'[v].id] # "enabled"
      BY DEF DisabledStays
    <2>2. CASE v = w
      <3>1. pc'[w] # "idle"
        BY <1>5, <2>1, <2>2 DEF Deleting, RequestsInStep
      <3>2. call[w].op = "delete" /\ call'[w].id = a
        BY <1>4, <2>1, <2>2, <3>1 DEF Deleting
      <3>3. QED
        BY <1>2, <1>3, <2>2, <3>2
    <2>3. CASE v # w
      <3>1. Deleting(v) /\ call'[v] = call[v] /\ v \notin reenabled
        BY <1>1, <1>4, <2>1, <2>3 DEF Deleting
      <3>2. call[v].id \in Accounts /\ reg[call[v].id] # "enabled"
        BY <3>1 DEF Deleting, RegistryIInv, RequestsInStep, DisabledStays
      <3>3. call[v].id = a => call[w].status # "enabled"
        BY <1>1, <2>1, <3>1 DEF Deletions
      <3>4. QED
        BY <1>3, <3>1, <3>2, <3>3
    <2>4. QED
      BY <2>2, <2>3
  <1>7. a \notin disturbed /\ call[w].op \in Changing => file[a] # NoBundle
    BY <1>1, <1>2 DEF RegistryIInv, UndisturbedIsWhole, Halfway
  <1>8. CASE call[w].op = "edit"
    <2>1. pc' = [pc EXCEPT ![w] = "idle"] /\ call' = [call EXCEPT ![w] = NoCall]
      BY <1>8 DEF UpdateRecord
    <2>2. target' = [target EXCEPT ![w] = NoAccount]
      BY <1>1 DEF RegistryIInv, RegistryInv, VaultInv, VaultTypeOK, RequestsInStep
    <2>3. call[w].op \notin Changing
      BY <1>8 DEF Changing
    <2> HIDE DEF a
    <2>4. QED
      BY <1>1, <1>3, <1>6, <2>1, <2>2, <2>3, ReturnInv DEF a
  <1>9. CASE call[w].op # "edit"
    <2>1. call'[w].id = a /\ call'[w].op = call[w].op /\ pc'[w] \in {"login", "open"}
      BY <1>1, <1>9 DEF UpdateRecord, RegistryIInv, RequestsInStep
    <2>2. call[w].op \in Changing /\ ~Halfway(w)'
      BY <1>2, <1>9, <2>1 DEF Changing, Halfway
    <2> HIDE DEF a
    <2>3. QED
      BY <1>1, <1>3, <1>4, <1>5, <1>6, <1>7, <2>1, <2>2, MoveInv DEF a
  <1>10. QED
    BY <1>8, <1>9


------------------------------------------------------------------------------
(***************************************************************************)
(* The steps in the middle of a request.                                   *)
(***************************************************************************)
\* A request that goes on to its next step is where its kind of request can be,
\* and keeps what deletions have disabled.
LEMMA GotoStays ==
    ASSUME RegistryIInv, NEW w \in Writers, NEW step, pc[w] \notin {"idle", "record"},
           Goto(w, step), UNCHANGED reg,
           call[w].op \notin {"edit", "schedules"},
           call[w].op = "create" => step \in {"vault", "undo"},
           call[w].op = "login" => step = "vault",
           call[w].op = "delete" => step \in {"vault", "remove", "unregister"},
           call[w].op \in {"business", "manage"} => step \in {"begun", "loaded", "saving"},
           target' = [target EXCEPT ![w] =
                          IF step \in {"vault", "saving"} THEN call[w].id ELSE NoAccount]
    PROVE  /\ RequestsInStep' /\ DisabledStays' /\ UNCHANGED call
           /\ pc'[w] = step /\ \A v \in Writers \ {w} : pc'[v] = pc[v]
           /\ reenabled' \subseteq Writers
  <1>1. /\ pc' = [pc EXCEPT ![w] = step] /\ UNCHANGED <<call, reenabled>>
        /\ step \in {"vault", "remove", "unregister", "undo", "begun", "loaded", "saving"}
        /\ call[w].op \in {"create", "login", "delete", "business", "manage"}
    BY DEF Goto, RegistryIInv, RequestsInStep
  <1>2. pc'[w] = step /\ \A v \in Writers \ {w} : pc'[v] = pc[v]
    BY <1>1 DEF RegistryIInv, RequestsInStep
  <1>3. RequestsInStep'
    <2>1. target' \in [Writers -> Accounts \union {NoAccount}] /\ call[w].id \in Accounts
      BY <1>1, RequestRuns DEF RegistryIInv, RegistryInv, VaultInv, VaultTypeOK
    <2>2. pc' \in [Writers -> {"idle", "record", "login", "open", "vault", "remove",
                               "unregister", "undo", "schedules", "begun", "loaded", "saving"}]
      BY <1>1 DEF RegistryIInv, RequestsInStep
    <2>3. /\ target'[w] = IF step \in {"vault", "saving"} THEN call[w].id ELSE NoAccount
          /\ \A v \in Writers \ {w} : target'[v] = target[v]
      BY DEF RegistryIInv, RegistryInv, VaultInv, VaultTypeOK
    <2>4. ASSUME NEW v \in Writers
          PROVE  /\ pc'[v] = "idle" <=> call[v].op = "none"
                 /\ pc'[v] = "idle" <=> call[v].id = NoAccount
                 /\ call[v].op = "create" => pc'[v] \in {"open", "vault", "undo"}
                 /\ call[v].op = "edit" => pc'[v] = "record"
                 /\ call[v].op = "login" => pc'[v] \in {"record", "login", "open", "vault"}
                 /\ call[v].op = "schedules" <=> pc'[v] = "schedules"
                 /\ call[v].op = "delete" => pc'[v] \in {"record", "open", "vault", "remove", "unregister"}
                 /\ call[v].op \in {"business", "manage"} <=> pc'[v] \in {"begun", "loaded", "saving"}
                 /\ pc'[v] \in {"record", "login"} => call[v].status \in Statuses
                 /\ call[v].op = "delete" /\ pc'[v] = "record" => call[v].status = "disabled"
                 /\ target'[v] = IF pc'[v] \in {"vault", "saving"} THEN call[v].id ELSE NoAccount
      <3>1. CASE v = w
        <4>1. call[w].id # NoAccount
          BY <2>1, VaultAssumption
        <4>2. QED
          BY <1>1, <1>2, <2>3, <3>1, <4>1
      <3>2. CASE v # w
        BY <1>2, <2>3, <3>2 DEF RegistryIInv, RequestsInStep
      <3>3. QED
        BY <3>1, <3>2
    <2>5. QED
      BY <1>1, <2>2, <2>4 DEF RegistryIInv, RequestsInStep
  <1>4. \A v \in Writers : Deleting(v)' => Deleting(v) /\ call'[v].id = call[v].id
    BY <1>1, <1>2 DEF Deleting
  <1>5. DisabledStays'
    BY <1>1, <1>3, <1>4, StaysDisabled
  <1>6. QED
    BY <1>1, <1>2, <1>3, <1>5 DEF RegistryIInv, RegistryInv, RegistryTypeOK

\* What the account of a request is like while nothing has disturbed it.
LEMMA WholeAccount ==
    ASSUME RegistryIInv, NEW w \in Writers, pc[w] # "idle", call[w].id \notin disturbed,
           call[w].op \in Changing
    PROVE  /\ Registered(call[w].id)
           /\ file[call[w].id] = NoBundle <=> Halfway(w)
           /\ call[w].op = "delete" /\ pc[w] = "vault" => copy[w][call[w].id] # NoBundle
  BY RequestRuns DEF RegistryIInv, UndisturbedIsWhole

\* The read of a request's operation on the vault.
LEMMA OpenInv ==
    ASSUME RegistryIInv, VaultInv', NEW w \in Writers, OpenVault(w) \/ OpenSession(w)
    PROVE  RegistryIInv'
  <1> DEFINE a == call[w].id
             step == IF call[w].op \in Changing THEN "vault" ELSE "saving"
  <1>1. /\ pc[w] \in {"open", "loaded"} /\ Open(w, a) /\ Goto(w, step)
        /\ UNCHANGED <<regVars, server, imported, disturbed, forgotten>>
    BY DEF OpenVault, OpenSession, Changing, RegistryIInv, RequestsInStep
  <1>2. call[w].op \in {"create", "login", "delete", "business", "manage"} /\ pc[w] \notin {"idle", "record"}
    BY <1>1 DEF RegistryIInv, RequestsInStep
  <1>3. /\ call[w].op \in Changing => step = "vault"
        /\ call[w].op \notin Changing => step = "saving"
    OBVIOUS
  <1> HIDE DEF step
  <1>4. target' = [target EXCEPT ![w] = IF step \in {"vault", "saving"} THEN call[w].id ELSE NoAccount]
    BY <1>1, <1>3 DEF Open
  <1>5. /\ RequestsInStep' /\ DisabledStays' /\ UNCHANGED call
        /\ pc'[w] = step /\ \A v \in Writers \ {w} : pc'[v] = pc[v]
        /\ reenabled' \subseteq Writers
    BY <1>1, <1>2, <1>3, <1>4, GotoStays DEF regVars, Changing
  <1>6. copy'[w] = file /\ file' = file /\ \A v \in Writers \ {w} : copy'[v] = copy[v]
    BY <1>1, OpenCopies DEF RegistryIInv, RegistryInv
  <1>7. ASSUME a \notin disturbed, call[w].op \in Changing
        PROVE  /\ file[a] = NoBundle <=> Halfway(w)'
               /\ call[w].op = "delete" => file[a] # NoBundle
    <2>1. pc[w] = "open" /\ pc'[w] = "vault"
      BY <1>1, <1>3, <1>5, <1>7 DEF Changing, RegistryIInv, RequestsInStep
    <2>2. Halfway(w)' <=> call[w].op = "create"
      BY <1>5, <2>1 DEF Halfway
    <2>3. Halfway(w) <=> call[w].op = "create"
      BY <2>1 DEF Halfway
    <2>4. QED
      BY <1>2, <1>7, <2>2, <2>3, WholeAccount
  <1>8. UNCHANGED <<version, reg, seq, sched, scoped>> /\ disturbed \subseteq Accounts
        /\ reg \in [Accounts -> Statuses \union {"none"}]
    BY <1>1 DEF regVars, RegistryIInv, RegistryInv, RegistryTypeOK
  <1>9. call[w].op = "delete" => call[w].op \in Changing
    BY DEF Changing
  <1> HIDE DEF a
  <1>10. QED
    BY <1>1, <1>2, <1>5, <1>6, <1>7, <1>8, <1>9, MoveInv DEF a

\* The end of an operation on the vault in the middle of a request.
LEMMA VaultMoveInv ==
    ASSUME RegistryIInv, VaultInv', NEW w \in Writers,
           \/ ForgetCredentials(w)
           \/ VaultFails(w) /\ call[w].op = "create"
           \/ SaveSession(w) \/ SessionFails(w)
    PROVE  RegistryIInv'
  <1> DEFINE a == call[w].id
             step == IF call[w].op = "delete" THEN "remove"
                     ELSE IF call[w].op = "create" THEN "undo" ELSE "loaded"
  <1>1. /\ pc[w] \in {"vault", "saving"} /\ call[w].op \in {"create", "delete", "business", "manage"}
        /\ GiveUp(w) \/ Delete(w) \/ \E b \in Bundles : Save(w, b)
        /\ UNCHANGED <<regVars, server, imported, forgotten>>
    BY DEF ForgetCredentials, VaultFails, SaveSession, SessionFails, RegistryIInv, RequestsInStep
  <1>2. pc[w] # "idle" /\ a \in Accounts /\ target[w] = a /\ Goto(w, step)
    BY <1>1, RequestRuns
    DEF ForgetCredentials, VaultFails, SaveSession, SessionFails, RegistryIInv, RequestsInStep
  <1>3. /\ call[w].op = "delete" => step = "remove"
        /\ call[w].op = "create" => step = "undo"
        /\ call[w].op \in {"business", "manage"} => step = "loaded"
    OBVIOUS
  <1>4. /\ target' = [target EXCEPT ![w] = NoAccount]
        /\ copy' = [copy EXCEPT ![w] = Nothing]
        /\ Struck(w) \subseteq Accounts
        /\ \A b \in Accounts \ {a} :
              /\ file'[b] \in {file[b], copy[w][b]}
              /\ b \notin Struck(w) => file'[b] = file[b]
        /\ GiveUp(w) => file' = file
        /\ Delete(w) => copy[w][a] = NoBundle \/ file'[a] = NoBundle
        /\ (\E b \in Bundles : Save(w, b)) => file'[a] # NoBundle
    BY <1>1, <1>2, VaultWrite DEF RegistryIInv, RegistryInv
  <1> HIDE DEF step
  <1>5. /\ RequestsInStep' /\ DisabledStays' /\ UNCHANGED call
        /\ pc'[w] = step /\ \A v \in Writers \ {w} : pc'[v] = pc[v]
        /\ reenabled' \subseteq Writers
    <2>1. step \notin {"vault", "saving"}
      BY <1>1, <1>3
    <2>2. target' = [target EXCEPT ![w] = IF step \in {"vault", "saving"} THEN call[w].id ELSE NoAccount]
      BY <1>4, <2>1
    <2>3. pc[w] \notin {"idle", "record"} /\ UNCHANGED reg
      BY <1>1 DEF regVars
    <2>4. QED
      BY <1>1, <1>2, <1>3, <2>2, <2>3, GotoStays
  <1>6. /\ copy'[w] = Nothing /\ \A v \in Writers \ {w} : copy'[v] = copy[v]
        /\ \A b \in Accounts : copy'[w][b] = NoBundle
    BY <1>4 DEF RegistryIInv, RegistryInv, VaultInv, VaultTypeOK, Nothing
  <1>7. /\ disturbed \subseteq disturbed' /\ disturbed' \subseteq Accounts
        /\ \A b \in Accounts \ {a} : b \notin disturbed' => file'[b] = file[b]
        /\ SaveSession(w) => file[a] # NoBundle \/ a \in disturbed'
    BY <1>2, <1>4
    DEF ForgetCredentials, VaultFails, SaveSession, SessionFails, DisturbStruck, RegistryIInv,
        RegistryInv, RegistryTypeOK
  <1>8. ASSUME a \notin disturbed'
        PROVE  /\ IF call[w].op \in Changing THEN file'[a] = NoBundle <=> Halfway(w)'
                                             ELSE file'[a] = NoBundle <=> file[a] = NoBundle
               /\ ~(call[w].op = "delete" /\ pc'[w] = "vault")
    <2>1. a \notin disturbed
      BY <1>7, <1>8
    <2>2. CASE ForgetCredentials(w)
      <3>1. call[w].op = "delete" /\ pc[w] = "vault" /\ Delete(w)
        BY <2>2 DEF ForgetCredentials
      <3>2. copy[w][a] # NoBundle
        BY <1>2, <2>1, <3>1, WholeAccount DEF Changing
      <3>3. file'[a] = NoBundle /\ Halfway(w)' /\ pc'[w] # "vault"
        BY <1>3, <1>4, <1>5, <3>1, <3>2 DEF Halfway
      <3>4. QED
        BY <3>1, <3>3 DEF Changing
    <2>3. CASE VaultFails(w) /\ call[w].op = "create"
      <3>1. file' = file /\ Halfway(w) /\ Halfway(w)'
        BY <1>4, <1>5, <2>3 DEF VaultFails, Halfway
      <3>2. QED
        BY <1>2, <2>1, <2>3, <3>1, WholeAccount DEF Changing
    <2>4. CASE SaveSession(w) \/ SessionFails(w)
      <3>1. call[w].op \in {"business", "manage"}
        BY <2>4 DEF SaveSession, SessionFails, RegistryIInv, RequestsInStep
      <3>2. CASE SaveSession(w)
        BY <1>4, <1>7, <1>8, <3>1, <3>2 DEF SaveSession, Changing
      <3>3. CASE SessionFails(w)
        BY <1>4, <3>1, <3>3 DEF SessionFails, Changing
      <3>4. QED
        BY <2>4, <3>2, <3>3
    <2>5. QED
      BY <2>2, <2>3, <2>4
  <1>9. UNCHANGED <<version, reg, seq, sched, scoped>> /\ reg \in [Accounts -> Statuses \union {"none"}]
    BY <1>1 DEF regVars, RegistryIInv, RegistryInv, RegistryTypeOK
  <1> HIDE DEF a
  <1>10. QED
    BY <1>1, <1>2, <1>4, <1>5, <1>6, <1>7, <1>8, <1>9, MoveInv DEF a

\* The steps that do not touch the vault.
LEMMA SessionInv ==
    ASSUME RegistryIInv, VaultInv', NEW w \in Writers,
           RemoveScoped(w) \/ LoadSession(w) \/ ReleaseAuth(w) \/ Work(w)
    PROVE  RegistryIInv'
  <1> DEFINE a == call[w].id
             step == IF RemoveScoped(w) THEN "unregister"
                     ELSE IF LoadSession(w) THEN "loaded" ELSE "begun"
  <1>1. /\ pc[w] \in {"remove", "begun", "loaded"}
        /\ UNCHANGED <<file, mu, target, copy, version, reg, seq, server, imported, disturbed, forgotten>>
        /\ sched' \subseteq sched /\ scoped' \subseteq scoped \union {a}
    BY DEF RemoveScoped, LoadSession, ReleaseAuth, Work, vaultVars, regVars, history
  <1>2. /\ call[w].op \in {"delete", "business", "manage"} /\ pc[w] \notin {"idle", "record"}
        /\ call[w].op = "delete" <=> pc[w] = "remove"
    BY <1>1 DEF RegistryIInv, RequestsInStep
  <1>3. /\ Goto(w, step)
        /\ call[w].op = "delete" => step = "unregister"
        /\ call[w].op \in {"business", "manage"} => step \in {"begun", "loaded"}
    <2>1. CASE RemoveScoped(w)
      BY <1>2, <2>1 DEF RemoveScoped
    <2>2. CASE LoadSession(w)
      BY <1>2, <2>2 DEF LoadSession, RemoveScoped
    <2>3. CASE ReleaseAuth(w)
      BY <1>2, <2>3 DEF LoadSession, RemoveScoped, ReleaseAuth
    <2>4. CASE Work(w)
      <3>1. step = "begun" \/ step = "loaded"
        BY <2>4 DEF LoadSession, RemoveScoped, Work
      <3>2. ~LoadSession(w)
        BY <2>4 DEF Work, LoadSession, Goto, RegistryIInv, RequestsInStep
      <3>3. pc' = [pc EXCEPT ![w] = "begun"] /\ UNCHANGED <<call, reenabled>> /\ step = "begun"
        BY <2>4, <3>2 DEF Work, RemoveScoped, history, RegistryIInv, RequestsInStep
      <3>4. QED
        BY <1>2, <2>4, <3>3 DEF Goto, Work
    <2>5. QED
      BY <2>1, <2>2, <2>3, <2>4
  <1>4. target' = [target EXCEPT ![w] = NoAccount]
    BY <1>1 DEF RegistryIInv, RegistryInv, VaultInv, VaultTypeOK, RequestsInStep
  <1> HIDE DEF step
  <1>5. /\ RequestsInStep' /\ DisabledStays' /\ UNCHANGED call
        /\ pc'[w] = step /\ \A v \in Writers \ {w} : pc'[v] = pc[v]
        /\ reenabled' \subseteq Writers
    <2>1. step \notin {"vault", "saving"}
      BY <1>2, <1>3
    <2>2. target' = [target EXCEPT ![w] = IF step \in {"vault", "saving"} THEN call[w].id ELSE NoAccount]
      BY <1>4, <2>1
    <2>3. QED
      BY <1>1, <1>2, <1>3, <2>2, GotoStays
  <1>6. ASSUME a \notin disturbed, call[w].op \in Changing
        PROVE  (file[a] = NoBundle <=> Halfway(w)') /\ pc'[w] # "vault"
    <2>1. call[w].op = "delete" /\ pc[w] = "remove" /\ pc'[w] = "unregister"
      BY <1>2, <1>3, <1>5, <1>6 DEF Changing
    <2>2. Halfway(w) /\ Halfway(w)'
      BY <1>5, <2>1 DEF Halfway
    <2>3. QED
      BY <1>2, <1>6, <2>1, <2>2, WholeAccount
  <1>7. call[w].op = "delete" => call[w].op \in Changing
    BY DEF Changing
  <1>8. disturbed \subseteq Accounts /\ reg \in [Accounts -> Statuses \union {"none"}]
    BY DEF RegistryIInv, RegistryInv, RegistryTypeOK
  <1> HIDE DEF a
  <1>9. QED
    BY <1>1, <1>2, <1>5, <1>6, <1>7, <1>8, MoveInv DEF a

------------------------------------------------------------------------------
(***************************************************************************)
(* The ends of the requests.                                               *)
(***************************************************************************)
\* A request that ends takes nothing back that deletions have disabled.
LEMMA ReturnStays ==
    ASSUME RegistryIInv, NEW w \in Writers, Return(w), \A b \in Accounts : reg'[b] \in {reg[b], "none"}
    PROVE  /\ DisabledStays' /\ reenabled' \subseteq Writers
           /\ pc' = [pc EXCEPT ![w] = "idle"] /\ call' = [call EXCEPT ![w] = NoCall]
  <1>1. /\ pc' = [pc EXCEPT ![w] = "idle"] /\ call' = [call EXCEPT ![w] = NoCall]
        /\ reenabled' = reenabled \ {w}
    BY DEF Return
  <1>2. SUFFICES ASSUME NEW v \in Writers, v \notin reenabled', Deleting(v)'
                 PROVE  reg'[call'[v].id] # "enabled"
    BY <1>1 DEF DisabledStays, RegistryIInv, RegistryInv, RegistryTypeOK
  <1>3. v # w /\ call'[v] = call[v] /\ Deleting(v) /\ v \notin reenabled
    BY <1>1, <1>2 DEF Deleting, NoCall, RegistryIInv, RequestsInStep
  <1>4. call[v].id \in Accounts /\ reg[call[v].id] # "enabled"
    BY <1>3 DEF Deleting, RegistryIInv, RequestsInStep, DisabledStays
  <1>5. QED
    BY <1>3, <1>4

\* The last write of a creation or of an edit, and the failed write of the
\* requests that have nothing to take back.
LEMMA VaultEndInv ==
    ASSUME RegistryIInv, VaultInv', NEW w \in Writers,
           \/ SaveCredentials(w)
           \/ VaultFails(w) /\ call[w].op # "create"
    PROVE  RegistryIInv'
  <1> DEFINE a == call[w].id
  <1>1. /\ pc[w] = "vault" /\ Return(w)
        /\ GiveUp(w) \/ Delete(w) \/ \E b \in Bundles : Save(w, b)
        /\ UNCHANGED <<regVars, server, imported, forgotten>>
    BY DEF SaveCredentials, VaultFails
  <1>2. /\ a \in Accounts /\ target[w] = a /\ call[w].op \in Changing
        /\ Halfway(w) <=> call[w].op = "create"
    BY <1>1, RequestRuns DEF RegistryIInv, RequestsInStep, Changing, Halfway
  <1>3. /\ target' = [target EXCEPT ![w] = NoAccount]
        /\ copy' = [copy EXCEPT ![w] = Nothing]
        /\ Struck(w) \subseteq Accounts
        /\ \A b \in Accounts \ {a} :
              /\ file'[b] \in {file[b], copy[w][b]}
              /\ b \notin Struck(w) => file'[b] = file[b]
        /\ GiveUp(w) => file' = file
        /\ (\E b \in Bundles : Save(w, b)) => file'[a] # NoBundle
    BY <1>1, <1>2, VaultWrite DEF RegistryIInv, RegistryInv
  <1>4. /\ \A v \in Writers \ {w} : copy'[v] = copy[v]
        /\ \A b \in Accounts : copy'[w][b] = NoBundle
    BY <1>3 DEF RegistryIInv, RegistryInv, VaultInv, VaultTypeOK, Nothing
  <1>5. /\ disturbed \subseteq disturbed' /\ disturbed' \subseteq Accounts
        /\ \A b \in Accounts \ {a} : b \notin disturbed' => file'[b] = file[b]
    BY <1>2, <1>3
    DEF SaveCredentials, VaultFails, DisturbStruck, RegistryIInv, RegistryInv, RegistryTypeOK
  <1>6. ASSUME a \notin disturbed' PROVE file'[a] # NoBundle /\ reg[a] # "none"
    <2>1. a \notin disturbed /\ Registered(a) /\ (file[a] = NoBundle <=> Halfway(w))
      BY <1>1, <1>2, <1>5, <1>6, WholeAccount
    <2>2. CASE SaveCredentials(w)
      BY <1>3, <2>1, <2>2 DEF SaveCredentials, Registered
    <2>3. CASE VaultFails(w) /\ call[w].op # "create"
      BY <1>2, <1>3, <2>1, <2>3 DEF VaultFails, Registered
    <2>4. QED
      BY <2>2, <2>3
  <1>7. /\ UNCHANGED <<version, reg, seq, sched, scoped>> /\ reg \in [Accounts -> Statuses \union {"none"}]
        /\ forgotten \subseteq Accounts
    BY <1>1 DEF regVars, RegistryIInv, RegistryInv, RegistryTypeOK
  <1>8. /\ DisabledStays' /\ reenabled' \subseteq Writers
        /\ pc' = [pc EXCEPT ![w] = "idle"] /\ call' = [call EXCEPT ![w] = NoCall]
    BY <1>1, <1>7, ReturnStays
  <1>9. /\ pc[w] # "idle" /\ call[w].op \in Changing
        /\ sched' \subseteq sched \union {a} /\ forgotten \subseteq forgotten' /\ forgotten' \subseteq Accounts
        /\ \A b \in Accounts : copy'[w][b] \in {copy[w][b], NoBundle}
        /\ UNCHANGED <<version, seq, scoped, server, imported>>
        /\ reg' \in [Accounts -> Statuses \union {"none"}] /\ reg' = reg
        /\ \A b \in Accounts \ {a} :
              /\ file'[b] \in {file[b], copy[w][b]}
              /\ b \notin disturbed' => file'[b] = file[b]
        /\ a \notin disturbed' => (file'[a] # NoBundle <=> reg'[a] # "none")
        /\ target' = [target EXCEPT ![w] = NoAccount]
    BY <1>1, <1>2, <1>3, <1>4, <1>5, <1>6, <1>7
  <1>10. /\ \A v \in Writers \ {w} : copy'[v] = copy[v]
         /\ disturbed \subseteq disturbed' /\ disturbed' \subseteq Accounts
    BY <1>4, <1>5
  <1> HIDE DEF a
  <1>11. QED
    BY <1>8, <1>9, <1>10, ReturnInv DEF a

\* registry.Delete: an undisturbed account that goes has no credentials left.
LEMMA UnregisterInv ==
    ASSUME RegistryIInv, VaultInv', NEW w \in Writers, Unregister(w)
    PROVE  RegistryIInv'
  <1> DEFINE a == call[w].id
  <1>1. /\ pc[w] \in {"unregister", "undo"} /\ pc[w] # "idle" /\ Return(w)
        /\ reg' = [reg EXCEPT ![a] = "none"]
        /\ forgotten' = IF seq = 0 THEN forgotten \union {a} ELSE forgotten
        /\ UNCHANGED <<file, mu, target, copy, version, seq, sched, scoped, server, imported, disturbed>>
    BY DEF Unregister, vaultVars
  <1>2. a \in Accounts /\ Halfway(w) /\ call[w].op \in Changing
    BY <1>1, RequestRuns DEF RegistryIInv, RequestsInStep, Halfway, Changing
  <1>3. target' = [target EXCEPT ![w] = NoAccount]
    BY <1>1 DEF RegistryIInv, RegistryInv, VaultInv, VaultTypeOK, RequestsInStep
  <1>4. a \notin disturbed => file[a] = NoBundle
    BY <1>1, <1>2, WholeAccount
  <1>5. /\ reg' \in [Accounts -> Statuses \union {"none"}] /\ reg'[a] = "none"
        /\ \A b \in Accounts \ {a} : reg'[b] = reg[b]
        /\ disturbed \subseteq Accounts /\ forgotten \subseteq forgotten'
        /\ forgotten' \subseteq Accounts
        /\ a \in forgotten' \/ seq # 0
    BY <1>1, <1>2 DEF RegistryIInv, RegistryInv, RegistryTypeOK
  <1>6. \A b \in Accounts : reg'[b] \in {reg[b], "none"}
    BY <1>5
  <1>7. /\ DisabledStays' /\ reenabled' \subseteq Writers
        /\ pc' = [pc EXCEPT ![w] = "idle"] /\ call' = [call EXCEPT ![w] = NoCall]
    BY <1>1, <1>6, ReturnStays
  <1>8. /\ pc[w] # "idle" /\ call[w].op \in Changing
        /\ UNCHANGED <<file, copy, version, seq, scoped, server, imported, disturbed>>
        /\ sched' \subseteq sched \union {a}
        /\ a \notin disturbed' => (file'[a] # NoBundle <=> reg'[a] # "none")
    BY <1>1, <1>2, <1>4, <1>5
  <1> HIDE DEF a
  <1>9. QED
    BY <1>3, <1>5, <1>7, <1>8, ReturnInv DEF a

\* The requests that end without a write, and the one that writes schedules.
LEMMA EndInv ==
    ASSUME RegistryIInv, VaultInv', NEW w \in Writers,
           SetSchedules(w) \/ NotFound(w) \/ StoreFails(w) \/ EndWork(w)
    PROVE  RegistryIInv'
  <1> DEFINE a == call[w].id
  <1>1. /\ pc[w] \in {"record", "login", "schedules", "remove", "unregister", "undo", "begun"}
        /\ pc[w] # "idle" /\ Return(w)
        /\ UNCHANGED <<file, mu, target, copy, version, reg, seq, scoped, server, imported, forgotten>>
        /\ sched' \subseteq sched \union {a}
        /\ \/ disturbed' = disturbed
           \/ disturbed' = disturbed \union {a}
    BY DEF SetSchedules, NotFound, StoreFails, EndWork, vaultVars, regVars
  <1>2. a \in Accounts
    BY <1>1, RequestRuns
  <1>3. target' = [target EXCEPT ![w] = NoAccount]
    BY <1>1 DEF RegistryIInv, RegistryInv, VaultInv, VaultTypeOK, RequestsInStep
  <1>4. ASSUME a \notin disturbed', call[w].op \in Changing
        PROVE  reg[a] # "none" /\ file[a] # NoBundle
    <2>1. a \notin disturbed /\ Registered(a) /\ (file[a] = NoBundle <=> Halfway(w))
      BY <1>1, <1>2, <1>4, WholeAccount
    <2>2. ~Halfway(w)
      <3>1. CASE StoreFails(w)
        BY <1>4, <3>1 DEF StoreFails
      <3>2. CASE NotFound(w)
        BY <2>1, <3>2 DEF NotFound
      <3>3. CASE SetSchedules(w) \/ EndWork(w)
        BY <1>4, <3>3 DEF SetSchedules, EndWork, Changing, RegistryIInv, RequestsInStep
      <3>4. QED
        BY <3>1, <3>2, <3>3
    <2>3. QED
      BY <2>1, <2>2 DEF Registered
  <1>5. /\ reg \in [Accounts -> Statuses \union {"none"}]
        /\ disturbed' \subseteq Accounts /\ disturbed \subseteq disturbed' /\ forgotten \subseteq Accounts
    BY <1>1, <1>2 DEF RegistryIInv, RegistryInv, RegistryTypeOK
  <1>6. /\ DisabledStays' /\ reenabled' \subseteq Writers
        /\ pc' = [pc EXCEPT ![w] = "idle"] /\ call' = [call EXCEPT ![w] = NoCall]
    BY <1>1, ReturnStays
  <1> HIDE DEF a
  <1>7. QED
    BY <1>1, <1>2, <1>3, <1>4, <1>5, <1>6, ReturnInv DEF a

------------------------------------------------------------------------------
(***************************************************************************)
(* The end of the process and the migration.                               *)
(***************************************************************************)
\* The process ends: no request is left, what was halfway is disturbed, and a
\* version 3 file forgets its accounts and codes.
LEMMA CrashInv ==
    ASSUME RegistryIInv, VaultInv', Crash
    PROVE  RegistryIInv'
  <1>1. /\ server' = "down" /\ UNCHANGED <<file, version, scoped, imported>>
        /\ target' = [w \in Writers |-> NoAccount] /\ copy' = [w \in Writers |-> Nothing]
        /\ pc' = [w \in Writers |-> "idle"] /\ call' = [w \in Writers |-> NoCall]
        /\ reenabled' = {}
        /\ disturbed' = disturbed \union {call[w].id : w \in {v \in Writers : Halfway(v)}}
                          \union {a \in Accounts : version = 3 /\ Registered(a)}
    BY DEF Crash, VaultCrash
  <1>2. \A w \in Writers : Halfway(w) => call[w].id \in Accounts
    BY DEF Halfway, RegistryIInv, RequestsInStep
  <1>3. RequestsInStep' /\ DisabledStays' /\ ImportedIsSaved' /\ UndisturbedIsWhole'
    BY <1>1 DEF RequestsInStep, DisabledStays, Deleting, ImportedIsSaved, UndisturbedIsWhole, NoCall, Changing
  <1>4. ASSUME NEW c \in Codes
        PROVE  c \in Accounts /\ c # NoAccount /\ Nothing[c] = NoBundle
    BY <1>4, RegistryAssumption, VaultAssumption DEF Nothing
  <1>5. CASE version = 3
    <2>1. /\ reg' = [a \in Accounts |-> "none"] /\ seq' = 0 /\ sched' = {}
          /\ forgotten' = forgotten \union 1..seq
      BY <1>5 DEF Crash
    <2>2. seq \in 0..MaxCode /\ seq \in Nat /\ MaxCode \in Nat
      BY RegistryAssumption DEF RegistryIInv, RegistryInv, RegistryTypeOK
    <2>3. 1..seq \subseteq Accounts
      BY <2>2, RegistryAssumption DEF Codes
    <2>4. RegistryInv'
      BY <1>1, <1>2, <2>1, <2>2, <2>3 DEF RegistryIInv, RegistryInv, RegistryTypeOK
    <2>5. NothingOutlivesServer'
      BY <1>1, <2>1 DEF NothingOutlivesServer, Registered
    <2>6. UnusedIsEmpty'
      <3>1. ASSUME NEW c \in Codes, c \notin forgotten'
            PROVE  c \notin scoped /\ file[c] = NoBundle
        <4>1. c \in Nat /\ c # 0 /\ c \in Accounts
          BY RegistryAssumption DEF Codes
        <4>2. seq = 0 \/ seq < c
          BY <2>1, <2>2, <3>1, <4>1 DEF Codes
        <4>3. ~Registered(c)
          BY <1>5, <2>2, <4>1, <4>2 DEF RegistryIInv, RegistryInv, NothingOutlivesServer
        <4>4. QED
          BY <2>1, <3>1, <4>2, <4>3 DEF RegistryIInv, UnusedIsEmpty
      <3>2. QED
        BY <1>1, <1>4, <2>1, <3>1 DEF UnusedIsEmpty, NoCall
    <2>7. StoresAgree'
      BY <1>1, <1>5, <2>1
      DEF RegistryIInv, StoresAgree, CredentialsHaveAccount, AccountsHaveCredentials, Registered
    <2>8. QED
      BY <1>3, <2>4, <2>5, <2>6, <2>7 DEF RegistryIInv
  <1>6. CASE version # 3
    <2>1. UNCHANGED <<reg, seq, sched, forgotten>>
      BY <1>6 DEF Crash
    <2>2. RegistryInv'
      BY <1>1, <1>2, <2>1 DEF RegistryIInv, RegistryInv, RegistryTypeOK, Registered
    <2>3. NothingOutlivesServer'
      BY <1>1, <1>6 DEF NothingOutlivesServer
    <2>4. UnusedIsEmpty'
      BY <1>1, <1>4, <2>1 DEF RegistryIInv, UnusedIsEmpty, NoCall, Registered
    <2>5. StoresAgree'
      <3>1. ASSUME NEW b \in Accounts, Registered(b), b \notin disturbed' PROVE file[b] # NoBundle
        <4>1. CASE \E w \in Writers : call[w].id = b /\ call[w].op \in {"create", "delete"}
          BY <1>1, <3>1, <4>1 DEF RegistryIInv, UndisturbedIsWhole, Changing
        <4>2. CASE ~\E w \in Writers : call[w].id = b /\ call[w].op \in {"create", "delete"}
          BY <1>1, <3>1, <4>2 DEF RegistryIInv, StoresAgree, AccountsHaveCredentials
        <4>3. QED
          BY <4>1, <4>2
      <3>2. QED
        BY <1>1, <2>1, <3>1
        DEF RegistryIInv, StoresAgree, CredentialsHaveAccount, AccountsHaveCredentials, Registered
    <2>6. QED
      BY <1>3, <2>2, <2>3, <2>4, <2>5 DEF RegistryIInv
  <1>7. QED
    BY <1>5, <1>6

\* While the server is down nobody works, and a version 3 file has no account.
LEMMA ServerDown ==
    ASSUME RegistryIInv, server # "up"
    PROVE  /\ \A w \in Writers : pc[w] = "idle" /\ call[w].op = "none" /\ call[w].id = NoAccount
                                 /\ target[w] = NoAccount /\ copy[w] = Nothing
           /\ version = 3 => seq = 0 /\ \A a \in Accounts : ~Registered(a)
  <1>1. \A w \in Writers : pc[w] = "idle" /\ call[w].op = "none" /\ call[w].id = NoAccount
                           /\ target[w] = NoAccount
    BY DEF RegistryIInv, NothingOutlivesServer, RequestsInStep
  <1>2. \A w \in Writers : copy[w] = Nothing
    BY <1>1 DEF RegistryIInv, RegistryInv, VaultInv, CopyIsCurrent
  <1>3. QED
    BY <1>1, <1>2 DEF RegistryIInv, NothingOutlivesServer

LEMMA StartInv ==
    ASSUME RegistryIInv, VaultInv', Start \/ MigrateBegin \/ MigrateFails
    PROVE  RegistryIInv'
  <1>1. /\ UNCHANGED <<file, mu, target, copy, version, reg, seq, sched, scoped, pc, call,
                       reenabled, disturbed, forgotten>>
        /\ server' \in {"up", "down", "migrating"} /\ server # "up"
        /\ server' = "migrating" => version = 3 /\ imported' = {}
        /\ imported' \in {imported, {}}
    BY DEF Start, MigrateBegin, MigrateFails, vaultVars, regVars, history
  <1>2. RegistryInv'
    BY <1>1 DEF RegistryIInv, RegistryInv, RegistryTypeOK, Registered
  <1>3. RequestsInStep' /\ UnusedIsEmpty' /\ DisabledStays'
    BY <1>1 DEF RegistryIInv, RequestsInStep, UnusedIsEmpty, DisabledStays, Deleting, Registered
  <1>4. NothingOutlivesServer' /\ ImportedIsSaved'
    BY <1>1, ServerDown DEF NothingOutlivesServer, ImportedIsSaved, Registered
  <1>5. StoresAgree' /\ UndisturbedIsWhole'
    BY <1>1
    DEF RegistryIInv, StoresAgree, CredentialsHaveAccount, AccountsHaveCredentials,
        UndisturbedIsWhole, Halfway, Registered
  <1>6. QED
    BY <1>2, <1>3, <1>4, <1>5 DEF RegistryIInv

LEMMA ImportInv ==
    ASSUME RegistryIInv, VaultInv', NEW a \in Legacy, Import(a)
    PROVE  RegistryIInv'
  <1>1. /\ UNCHANGED <<mu, target, copy, version, reg, seq, sched, scoped, server, pc, call,
                       reenabled, disturbed, forgotten>>
        /\ server = "migrating" /\ version = 3 /\ imported' = imported \union {a}
    BY DEF Import, regVars, history, RegistryIInv, NothingOutlivesServer
  <1>2. /\ a \in Accounts /\ a \notin Codes /\ Codes \subseteq Accounts
        /\ \A b \in imported : b \in Accounts
    BY RegistryAssumption DEF RegistryIInv, RegistryInv, RegistryTypeOK
  <1>3. file'[a] # NoBundle /\ \A b \in Accounts \ {a} : file'[b] = file[b]
    BY <1>2, VaultAssumption DEF Import, RegistryIInv, RegistryInv, VaultInv, VaultTypeOK, Contents
  <1>4. RegistryInv'
    BY <1>1 DEF RegistryIInv, RegistryInv, RegistryTypeOK, Registered
  <1>5. RequestsInStep' /\ DisabledStays' /\ NothingOutlivesServer' /\ ImportedIsSaved'
    BY <1>1, <1>2, <1>3
    DEF RegistryIInv, RequestsInStep, DisabledStays, NothingOutlivesServer, ImportedIsSaved,
        Deleting, Registered
  <1>6. UnusedIsEmpty'
    BY <1>1, <1>2, <1>3 DEF RegistryIInv, UnusedIsEmpty, Registered
  <1>7. StoresAgree' /\ UndisturbedIsWhole'
    BY <1>1, <1>2, <1>3, ServerDown
    DEF RegistryIInv, StoresAgree, CredentialsHaveAccount, AccountsHaveCredentials,
        UndisturbedIsWhole, Registered, Changing
  <1>8. QED
    BY <1>4, <1>5, <1>6, <1>7 DEF RegistryIInv

\* The file is written once every account has its credentials.
LEMMA FinishInv ==
    ASSUME RegistryIInv, VaultInv', MigrateFinish
    PROVE  RegistryIInv'
  <1>1. /\ UNCHANGED <<file, mu, target, copy, seq, sched, scoped, imported, pc, call,
                       reenabled, disturbed, forgotten>>
        /\ server = "migrating" /\ imported = Legacy
        /\ server' = "down" /\ version' = 4 /\ version = 3
        /\ reg' = [a \in Accounts |-> IF a \in Legacy THEN "enabled" ELSE "none"]
    BY DEF MigrateFinish, WriteVersion4, vaultVars, history, RegistryIInv, NothingOutlivesServer
  <1>2. seq = 0 /\ \A a \in Accounts : ~Registered(a)
    BY <1>1, ServerDown
  <1>3. \A w \in Writers : pc[w] = "idle" /\ call[w].op = "none" /\ call[w].id = NoAccount
    BY <1>1, ServerDown
  <1>4. Codes \subseteq Accounts /\ (\A c \in Codes : c \notin Legacy)
    BY RegistryAssumption
  <1>5. RegistryInv'
    BY <1>1, <1>2 DEF RegistryIInv, RegistryInv, RegistryTypeOK, Statuses
  <1>6. RequestsInStep' /\ DisabledStays' /\ NothingOutlivesServer' /\ ImportedIsSaved'
    BY <1>1, <1>3, <1>4
    DEF RegistryIInv, RequestsInStep, DisabledStays, Deleting, NothingOutlivesServer, ImportedIsSaved
  <1>7. UnusedIsEmpty'
    BY <1>1, <1>2, <1>4 DEF RegistryIInv, UnusedIsEmpty
  <1>8. StoresAgree'
    BY <1>1, <1>2
    DEF RegistryIInv, StoresAgree, CredentialsHaveAccount, AccountsHaveCredentials, Registered,
        ImportedIsSaved
  <1>9. UndisturbedIsWhole'
    BY <1>1, <1>3 DEF UndisturbedIsWhole, Changing
  <1>10. QED
    BY <1>5, <1>6, <1>7, <1>8, <1>9 DEF RegistryIInv

------------------------------------------------------------------------------
(***************************************************************************)
(* The invariant, and what it is for.                                      *)
(***************************************************************************)
LEMMA InitRegistryIInv == Init => RegistryIInv
<1> SUFFICES ASSUME Init PROVE RegistryIInv
  OBVIOUS
<1>1. VaultInv
  BY VaultInvInit DEF Init, VaultInit
<1>2. Codes \subseteq Accounts /\ Legacy \subseteq Accounts /\ \A c \in Codes : c \notin Legacy
  BY RegistryAssumption
<1>3. \A a \in Accounts : a # NoAccount /\ (file[a] # NoBundle <=> Registered(a)) /\ Nothing[a] = NoBundle
  BY VaultAssumption DEF Init, Nothing
<1>4. RegistryInv
  BY <1>1, <1>2, RegistryAssumption DEF Init, RegistryInv, RegistryTypeOK, Statuses
<1>5. \A w \in Writers : call[w].op = "none" /\ call[w].id = NoAccount /\ copy[w] = Nothing
  BY DEF Init, NoCall
<1>6. RequestsInStep /\ NothingOutlivesServer /\ DisabledStays /\ ImportedIsSaved
  BY DEF Init, RequestsInStep, NothingOutlivesServer, DisabledStays, Deleting, ImportedIsSaved,
         NoCall, Registered
<1>7. UnusedIsEmpty
  BY <1>2, <1>3, <1>5 DEF Init, UnusedIsEmpty
<1>8. StoresAgree /\ UndisturbedIsWhole
  BY <1>3, <1>5
  DEF Init, StoresAgree, CredentialsHaveAccount, AccountsHaveCredentials, UndisturbedIsWhole, Changing
<1>9. QED
  BY <1>4, <1>6, <1>7, <1>8 DEF RegistryIInv

LEMMA NextRegistryIInv == RegistryIInv /\ [Next]_vars => RegistryIInv'
<1> SUFFICES ASSUME RegistryIInv, [Next]_vars PROVE RegistryIInv'
  OBVIOUS
<1>1. VaultInv'
  BY VaultStep
<1>2. ASSUME NEW w \in Writers, NEW a \in Accounts,
             \/ BeginEdit(w, a) \/ BeginSchedules(w, a) \/ BeginDelete(w, a)
             \/ BeginBusiness(w, a) \/ BeginManage(w, a)
      PROVE  RegistryIInv'
  <2>1. CASE BeginEdit(w, a)
    BY <1>1, <2>1, BeginInv DEF BeginEdit, EnterHandler
  <2>2. CASE BeginSchedules(w, a)
    BY <1>1, <2>2, BeginInv DEF BeginSchedules, EnterHandler
  <2>3. CASE BeginDelete(w, a)
    BY <1>1, <2>3, BeginInv DEF BeginDelete, EnterHandler, Statuses
  <2>4. CASE BeginBusiness(w, a)
    BY <1>1, <2>4, BeginInv DEF BeginBusiness
  <2>5. CASE BeginManage(w, a)
    BY <1>1, <2>5, BeginInv DEF BeginManage
  <2>6. QED
    BY <1>2, <2>1, <2>2, <2>3, <2>4, <2>5
<1>3. ASSUME NEW w \in Writers, Handler(w) PROVE RegistryIInv'
  <2>1. CASE CreateRecord(w)
    BY <1>1, <2>1, CreateInv
  <2>2. CASE UpdateRecord(w)
    BY <1>1, <2>2, UpdateInv
  <2>3. CASE OpenVault(w)
    BY <1>1, <2>3, OpenInv
  <2>4. CASE ForgetCredentials(w) \/ VaultFails(w)
    BY <1>1, <2>4, VaultMoveInv, VaultEndInv
  <2>5. CASE SaveCredentials(w)
    BY <1>1, <2>5, VaultEndInv
  <2>6. CASE RemoveScoped(w)
    BY <1>1, <2>6, SessionInv
  <2>7. CASE Unregister(w)
    BY <1>1, <2>7, UnregisterInv
  <2>8. CASE SetSchedules(w) \/ NotFound(w) \/ StoreFails(w)
    BY <1>1, <2>8, EndInv
  <2>9. QED
    BY <1>2, <1>3, <2>1, <2>2, <2>3, <2>4, <2>5, <2>6, <2>7, <2>8 DEF Handler
<1>4. ASSUME NEW w \in Writers, Business(w) PROVE RegistryIInv'
  <2>1. CASE LoadSession(w) \/ ReleaseAuth(w) \/ Work(w)
    BY <1>1, <2>1, SessionInv
  <2>2. CASE OpenSession(w)
    BY <1>1, <2>2, OpenInv
  <2>3. CASE SaveSession(w) \/ SessionFails(w)
    BY <1>1, <2>3, VaultMoveInv
  <2>4. CASE EndWork(w)
    BY <1>1, <2>4, EndInv
  <2>5. QED
    BY <1>2, <1>4, <2>1, <2>2, <2>3, <2>4 DEF Business
<1>5. CASE Crash
  BY <1>1, <1>5, CrashInv
<1>6. CASE Start \/ Migration
  BY <1>1, <1>6, StartInv, ImportInv, FinishInv DEF Migration
<1>7. CASE UNCHANGED vars
  <2>1. UNCHANGED <<file, mu, target, copy, version, reg, seq, sched, scoped, server,
                    imported, pc, call, reenabled, disturbed, forgotten>>
    BY <1>7 DEF vars, vaultVars, regVars, history
  <2>2. RegistryInv' /\ RequestsInStep' /\ NothingOutlivesServer' /\ UnusedIsEmpty'
    BY <1>1, <2>1
    DEF RegistryIInv, RegistryInv, RegistryTypeOK, RequestsInStep, NothingOutlivesServer,
        UnusedIsEmpty, Registered
  <2>3. DisabledStays' /\ StoresAgree' /\ UndisturbedIsWhole' /\ ImportedIsSaved'
    BY <2>1
    DEF RegistryIInv, DisabledStays, StoresAgree, CredentialsHaveAccount,
        AccountsHaveCredentials, UndisturbedIsWhole, ImportedIsSaved, Halfway, Deleting,
        Registered
  <2>4. QED
    BY <2>2, <2>3 DEF RegistryIInv
<1>8. QED
  BY <1>3, <1>4, <1>5, <1>6, <1>7 DEF Next

\* The inductive invariant, for any number of FileVault values.
THEOREM RegistryIInvariant == Spec => []RegistryIInv
  BY InitRegistryIInv, NextRegistryIInv, PTL DEF Spec

\* The vault under handlers, broker, session requests and migration: each
\* FileVault value has one writer at a time, whose copy is what the file holds
\* unless the other value has written since; every registered code is below
\* the watermark.
THEOREM RegistryInvariant == Spec => []RegistryInv
  BY RegistryIInvariant, PTL DEF RegistryIInv

\* Between the steps of the requests, after any crash and during a migration,
\* the state file and the vault agree on the accounts there are, but for the
\* accounts that CredentialsHaveAccount and AccountsHaveCredentials except:
\* those with crossed or unfinished changes, and those whose credentials a
\* stale copy of the other FileVault value or a session saved after the
\* deletion has taken away or brought back.
THEOREM TwoStoresStayInAgreement == Spec => []StoresAgree
  BY RegistryIInvariant, PTL DEF RegistryIInv

\* With the broker and the handlers on FileVault values of their own, the
\* credentials of an account change under an operation on another account only
\* where a copy that the other value has overtaken is written back.
THEOREM HandlersKeepEntriesApart == Spec => EntriesStayApart
  BY RegistryIInvariant, VaultStep, PTL DEF EntriesStayApart, Spec

\* The code a creation takes is above the watermark.
LEMMA NextCodeIsUnused ==
    ASSUME RegistryIInv
    PROVE  seq = 0 \/ seq < NextCode
  BY RegistryAssumption DEF NextCode, RegistryIInv, RegistryInv, RegistryTypeOK

\* "deleted codes are never reused": a new account finds no credentials, no
\* schedule, no stored data and no running request under its code.
THEOREM NewAccountsInheritNothing == Spec => NothingInherited
<1> DEFINE Clean == \A c \in Codes \ forgotten :
              reg[c] = "none" /\ reg'[c] # "none" =>
                 /\ c \notin scoped \union sched \union Busy
                 /\ file[c] = NoBundle
<1>1. ASSUME RegistryIInv, Next PROVE Clean
  <2>1. SUFFICES ASSUME NEW c \in Codes, c \notin forgotten, reg[c] = "none", reg'[c] # "none"
                 PROVE  /\ c \notin scoped \union sched \union Busy
                        /\ file[c] = NoBundle
    OBVIOUS
  <2>2. c \in Accounts /\ c \notin Legacy /\ reg \in [Accounts -> Statuses \union {"none"}]
    BY <1>1, RegistryAssumption DEF RegistryIInv, RegistryInv, RegistryTypeOK
  <2>3. ASSUME NEW w \in Writers, CreateRecord(w) PROVE c = NextCode
    BY <2>1, <2>2, <2>3 DEF CreateRecord
  <2>4. CASE \E w \in Writers : CreateRecord(w)
    BY <1>1, <2>1, <2>3, <2>4, NextCodeIsUnused DEF RegistryIInv, UnusedIsEmpty, Registered, Busy
  <2>5. CASE \E w \in Writers : UpdateRecord(w) \/ Unregister(w)
    BY <2>1, <2>2, <2>5 DEF UpdateRecord, Unregister, Registered
  <2>6. CASE Crash \/ MigrateFinish
    BY <2>1, <2>2, <2>6 DEF Crash, MigrateFinish, WriteVersion4
  <2>7. CASE UNCHANGED reg
    BY <2>1, <2>7
  <2>8. QED
    BY <1>1, <2>4, <2>5, <2>6, <2>7
    DEF Next, Handler, BeginEdit, BeginSchedules, BeginDelete, EnterHandler, Enter, OpenVault,
        SaveCredentials, ForgetCredentials, VaultFails, RemoveScoped, SetSchedules, NotFound,
        StoreFails, Business, BeginBusiness, BeginManage, LoadSession, OpenSession, SaveSession,
        SessionFails, ReleaseAuth, Work, EndWork, Start, Migration, MigrateBegin, Import,
        MigrateFails, regVars
<1>2. RegistryIInv /\ [Next]_vars => [Clean]_vars
  BY <1>1
<1>3. QED
  BY <1>2, RegistryIInvariant, PTL DEF Spec, NothingInherited

\* "Disable first": from the disabling to the end of a deletion no business
\* request or task of the account begins, unless another request has enabled
\* the account again.
THEOREM DeletionsAreQuiet == Spec => DeletionIsQuiet
<1> DEFINE Quiet == \A v, w \in Writers :
              /\ Deleting(w) /\ w \notin reenabled
              /\ pc[v] = "idle" /\ call'[v].op = "business"
              => call'[v].id # call[w].id
<1>1. ASSUME RegistryIInv, Next PROVE Quiet
  <2>1. SUFFICES ASSUME NEW v \in Writers, NEW w \in Writers, Deleting(w), w \notin reenabled,
                        pc[v] = "idle", call'[v].op = "business", call'[v].id = call[w].id
                 PROVE  FALSE
    OBVIOUS
  <2>2. reg[call[w].id] # "enabled" /\ call[v].op = "none"
    BY <1>1, <2>1 DEF RegistryIInv, DisabledStays, RequestsInStep
  <2>3. call \in [Writers -> [op : {"none", "create", "edit", "login", "schedules", "delete",
                                    "business", "manage"},
                              id : Accounts \union {NoAccount},
                              status : Statuses \union {"none"}]]
    BY <1>1 DEF RegistryIInv, RequestsInStep
  <2>4. ASSUME NEW u \in Writers, NEW a \in Accounts, BeginBusiness(u, a) PROVE FALSE
    <3>1. u = v /\ reg[a] = "enabled" /\ call'[v].id = a
      BY <2>1, <2>2, <2>3, <2>4 DEF BeginBusiness, Enter
    <3>2. QED
      BY <2>1, <2>2, <3>1
  <2>5. ASSUME NEW u \in Writers, CreateRecord(u) PROVE FALSE
    BY <2>1, <2>2, <2>3, <2>5 DEF CreateRecord
  <2>6. ASSUME NEW u \in Writers, NEW a \in Accounts,
               BeginEdit(u, a) \/ BeginSchedules(u, a) \/ BeginDelete(u, a) \/ BeginManage(u, a)
        PROVE  FALSE
    BY <2>1, <2>2, <2>3, <2>6
    DEF BeginEdit, BeginSchedules, BeginDelete, BeginManage, EnterHandler, Enter
  <2>7. ASSUME NEW u \in Writers, UpdateRecord(u) PROVE FALSE
    BY <2>1, <2>2, <2>3, <2>7 DEF UpdateRecord, NoCall
  <2>8. ASSUME NEW u \in Writers, Return(u) PROVE FALSE
    BY <2>1, <2>2, <2>3, <2>8 DEF Return, NoCall
  <2>9. CASE UNCHANGED call
    BY <2>1, <2>2, <2>9
  <2>10. CASE Crash
    BY <2>1, <2>10 DEF Crash, NoCall
  <2>11. QED
    BY <1>1, <2>4, <2>5, <2>6, <2>7, <2>8, <2>9, <2>10
    DEF Next, Handler, OpenVault, SaveCredentials, ForgetCredentials, VaultFails, RemoveScoped,
        Unregister, SetSchedules, NotFound, StoreFails, Goto, Business, LoadSession, OpenSession,
        SaveSession, SessionFails, ReleaseAuth, Work, EndWork, Start, Migration, MigrateBegin,
        Import, MigrateFails, MigrateFinish, WriteVersion4
<1>2. RegistryIInv /\ [Next]_vars => [Quiet]_vars
  BY <1>1
<1>3. QED
  BY <1>2, RegistryIInvariant, PTL DEF Spec, DeletionIsQuiet
===============================================================================
