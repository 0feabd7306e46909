------------------------------- MODULE VaultMap -------------------------------
(***************************************************************************)
(* What the rest of the program expects of secret.Vault: a map from        *)
(* accounts to credential bundles in which an operation on one account     *)
(* touches the entry of that account and no other.                         *)
(***************************************************************************)
CONSTANTS
    Accounts,    \* account IDs
    Bundles,     \* credential bundles
    NoBundle     \* the account has no entry

VARIABLE entries

MapInit == entries \in [Accounts -> Bundles \union {NoBundle}]

\* Save and Delete, as one indivisible step.
Put(a, b) == entries' = [entries EXCEPT ![a] = b]

MapNext == \E a \in Accounts, b \in Bundles \union {NoBundle} : Put(a, b)

MapSpec == MapInit /\ [][MapNext]_entries
===============================================================================
