SPECIFICATION VaultSpec
CONSTANTS
    Accounts = {a, b}
    Bundles = {old, new}
    NoBundle = NoBundle
    Writers = {"broker", "handler"}
    Instances = {"brokerVault", "handlerVault"}
    InstanceOf <- BrokerAndHandlers
    Nobody = Nobody
    NoAccount = NoAccount
PROPERTY AccountsStayApart
