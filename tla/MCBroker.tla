------------------------------- MODULE MCBroker -------------------------------
\* TLC instances of Broker: the constants are given in the .cfg files.
EXTENDS Broker, TLC

Symmetry == Permutations(Callers)
===============================================================================
