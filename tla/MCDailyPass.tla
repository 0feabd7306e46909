----------------------------- MODULE MCDailyPass -----------------------------
\* TLC instance of DailyPass: the constants are given in the .cfg file.
EXTENDS DailyPass, TLC

Symmetry == Permutations(Callers) \union Permutations(IdemKeys)
==============================================================================
