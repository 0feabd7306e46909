SPECIFICATION Spec
CONSTANTS
    Legacy = {l}
    MaxCode = 2
    MaxRequests = 3
    Accounts <- AllAccounts
    Bundles = {b}
    NoBundle = NoBundle
    Brokered = {r}
    Handlers = {h1, h2}
    Writers <- AllWriters
    Instances = {brokerVault, handlerVault}
    BrokerVault = brokerVault
    HandlerVault = handlerVault
    InstanceOf <- TwoValues
    Nobody = Nobody
    NoAccount = NoAccount
SYMMETRY Alike
INVARIANTS
    RegistryInv
    StoresAgree
PROPERTIES
    EntriesStayApart
    NothingInherited
    DeletionIsQuiet
