---------------------------- MODULE MCPurchaseDraw ----------------------------
\* TLC instances of PurchaseDraw: the constants are given in the .cfg files.
EXTENDS PurchaseDraw, TLC

\* Requests and idempotency keys are interchangeable.
Symmetry == Permutations(Callers) \union Permutations(IdemKeys)
===============================================================================
