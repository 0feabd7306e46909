------------------------------ MODULE MCFileVault ------------------------------
\* TLC instance of FileVault: who uses which FileVault value.
EXTENDS FileVault, TLC

\* What server.go builds: the broker's value and the handlers' value.
BrokerAndHandlers == "broker" :> "brokerVault" @@ "handler" :> "handlerVault"
===============================================================================
