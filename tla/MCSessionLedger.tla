--------------------------- MODULE MCSessionLedger ---------------------------
\* TLC instance of SessionLedger: the constants are given in the .cfg files.
EXTENDS SessionLedger, TLC

Symmetry == Permutations(Unnamed) \union Permutations(Sids \ Unnamed)
==============================================================================
