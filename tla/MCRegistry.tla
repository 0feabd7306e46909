------------------------------- MODULE MCRegistry -------------------------------
\* TLC instance of Registry: the two FileVault values of the server, one
\* goroutine that goes through the broker and two that run handlers.
EXTENDS Registry, TLC

CONSTANTS Brokered, Handlers   \* the goroutines by the value they use

AllAccounts == Legacy \union (1..MaxCode)
AllWriters == Brokered \union Handlers
TwoValues == [w \in AllWriters |-> IF w \in Brokered THEN BrokerVault ELSE HandlerVault]

\* The goroutines of one value run the same code.
Alike == Permutations(Brokered) \union Permutations(Handlers)
=================================================================================
