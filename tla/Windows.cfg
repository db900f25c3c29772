SPECIFICATION WindowsSpec
CONSTANTS
    Originals <- MCOriginals
    Others <- MCOthers
    Faults = {"crash", "external"}
    PlanOperations <- MCOperations
    Routes <- MCRoutes
    AdapterBound <- MCAdapterBound
    Firewall = "firewall_rule"
    NoJournal = NoJournal
    NoManager = NoManager
    MaxSession = 2
    MaxAdapter = 2
    MaxNetworkFaults = 1
    LifeQuotas <- MCQuotas
    Contexts = {here, there}
    Launchers = {l1, l2}
    ResetTargets <- MCTargets
    NoContext = NoContext
    Damaged = Damaged
INVARIANTS UserConfigRestored DisabledIsOff EnabledIsOwned WindowsTypeOK 
PROPERTIES NewerKept NetworkIsClean LedgerRefined EverybodyLeaves
