------------------------------- MODULE FileVault -------------------------------
(***************************************************************************)
(* The encrypted vault file of internal/secret/file_vault.go.  Every       *)
(* operation reads the whole file, changes the entry of one account in the *)
(* copy and replaces the whole file by it; what keeps two operations apart *)
(* is the mutex of the FileVault value they were called on.                *)
(*                                                                         *)
(* InstanceOf says which FileVault value a goroutine uses.  The server has *)
(* two on the same path: sharedBrokerLocked builds one for the broker and  *)
(* sharedVaultLocked another one for the account handlers and the session  *)
(* manager.                                                                *)
(*                                                                         *)
(* Encryption and the temporary file are left out: rename(2) replaces the  *)
(* file at once, and a crash before it leaves the old file.  Load changes  *)
(* nothing and is the reading half of the operations below.                *)
(***************************************************************************)
CONSTANTS
    Accounts,    \* account IDs
    Bundles,     \* credential bundles
    NoBundle,    \* the account has no entry
    Writers,     \* goroutines that save or delete credentials
    Instances,   \* FileVault values on the same path
    InstanceOf,  \* the FileVault value of each writer
    Nobody,      \* v.mu is free
    NoAccount    \* the writer is not in an operation

ASSUME VaultAssumption ==
    /\ NoBundle \notin Bundles
    /\ InstanceOf \in [Writers -> Instances]
    /\ Nobody \notin Writers
    /\ NoAccount \notin Accounts

VARIABLES
    file,        \* the vault file: an entry or NoBundle for each account
    mu,          \* mu[i]: the writer that holds v.mu of instance i
    target,      \* the account a writer works on, or NoAccount
    copy,        \* what readFile returned to the writer
    overtaken    \* history: writers that have read the file and since then
                 \* another FileVault value has written it

vaultVars == <<file, mu, target, copy, overtaken>>

Contents == [Accounts -> Bundles \union {NoBundle}]
Nothing == [a \in Accounts |-> NoBundle]

\* The program starts on any file that an earlier run left behind.
VaultInit ==
    /\ file \in Contents
    /\ mu = [i \in Instances |-> Nobody]
    /\ target = [w \in Writers |-> NoAccount]
    /\ copy = [w \in Writers |-> Nothing]
    /\ overtaken = {}

\* Mutant of Open: v.mu is not locked.
OpenUnlocked(w, a) ==
    /\ target[w] = NoAccount
    /\ mu' = [mu EXCEPT ![InstanceOf[w]] = w]
    /\ target' = [target EXCEPT ![w] = a]
    /\ copy' = [copy EXCEPT ![w] = file]
    /\ UNCHANGED <<file, overtaken>>

\* v.mu.Lock(), readFile().
Open(w, a) ==
    /\ target[w] = NoAccount
    /\ mu[InstanceOf[w]] = Nobody
    /\ mu' = [mu EXCEPT ![InstanceOf[w]] = w]
    /\ target' = [target EXCEPT ![w] = a]
    /\ copy' = [copy EXCEPT ![w] = file]
    /\ UNCHANGED <<file, overtaken>>

Close(w) ==
    /\ mu' = [mu EXCEPT ![InstanceOf[w]] = Nobody]
    /\ target' = [target EXCEPT ![w] = NoAccount]
    /\ copy' = [copy EXCEPT ![w] = Nothing]

\* Nothing was written.
Abandon(w) == UNCHANGED file /\ overtaken' = overtaken \ {w}

\* writeFile: the changed copy replaces the file under the eyes of the writers
\* of other FileVault values.
Replace(w, entry) ==
    /\ file' = [copy[w] EXCEPT ![target[w]] = entry]
    /\ overtaken' = (overtaken \ {w}) \union
          {v \in Writers : target[v] # NoAccount /\ InstanceOf[v] # InstanceOf[w]}

\* Save: the copy with the new bundle replaces the file.
Save(w, b) ==
    /\ target[w] # NoAccount
    /\ Replace(w, b)
    /\ Close(w)

\* Delete: the file is not written when the account has no entry.
Delete(w) ==
    /\ target[w] # NoAccount
    /\ IF copy[w][target[w]] = NoBundle THEN Abandon(w) ELSE Replace(w, NoBundle)
    /\ Close(w)

\* Mutant of GiveUp: the error path leaves v.mu locked.
GiveUpLocked(w) ==
    /\ target[w] # NoAccount
    /\ Abandon(w)
    /\ target' = [target EXCEPT ![w] = NoAccount]
    /\ copy' = [copy EXCEPT ![w] = Nothing]
    /\ UNCHANGED mu

\* Encryption or writeFile failed: the file is as it was.
GiveUp(w) ==
    /\ target[w] # NoAccount
    /\ Abandon(w)
    /\ Close(w)

\* The process dies between the read and the rename, and is started again.
VaultCrash ==
    /\ mu' = [i \in Instances |-> Nobody]
    /\ target' = [w \in Writers |-> NoAccount]
    /\ copy' = [w \in Writers |-> Nothing]
    /\ overtaken' = {}
    /\ UNCHANGED file

VaultNext ==
    \/ \E w \in Writers, a \in Accounts : Open(w, a)
    \/ \E w \in Writers, b \in Bundles : Save(w, b)
    \/ \E w \in Writers : Delete(w) \/ GiveUp(w)
    \/ VaultCrash

VaultSpec == VaultInit /\ [][VaultNext]_vaultVars

------------------------------------------------------------------------------
VaultTypeOK ==
    /\ file \in Contents
    /\ mu \in [Instances -> Writers \union {Nobody}]
    /\ target \in [Writers -> Accounts \union {NoAccount}]
    /\ copy \in [Writers -> Contents]
    /\ overtaken \subseteq Writers

\* The writers of one FileVault value take turns.
OneWriterPerInstance ==
    \A w \in Writers : target[w] # NoAccount <=> mu[InstanceOf[w]] = w

\* The copy a writer is about to write back is what the file holds now, unless
\* it was overtaken through another FileVault value.
CopyIsCurrent ==
    /\ \A w \in Writers \ overtaken : copy[w] = IF target[w] = NoAccount THEN Nothing ELSE file
    /\ \A w \in overtaken : target[w] # NoAccount

\* The inductive invariant, however many FileVault values there are.
VaultInv == VaultTypeOK /\ OneWriterPerInstance /\ CopyIsCurrent

OneInstance == \A v, w \in Writers : InstanceOf[v] = InstanceOf[w]

Map == INSTANCE VaultMap WITH entries <- file

\* Replacing the whole file is invisible: a save or a deletion changes the
\* entry of its own account only, whatever runs beside it and wherever it is
\* interrupted.  That takes one FileVault value.
AccountsStayApart == Map!MapSpec

\* What is left of it in a program with several FileVault values: the entry of
\* another account changes only when a writer writes back a copy that another
\* FileVault value has overtaken, never among the writers of one value.
WritesBackStale(w) == w \in overtaken /\ target'[w] = NoAccount
EntriesStayApart ==
    [][Map!MapNext \/ \E w \in Writers : WritesBackStale(w)]_file
===============================================================================
