SPECIFICATION Spec
CONSTANTS
    Accounts = {alice, bob}
    Vault = vault
    EventIds = {e1, e2}
    MaxQueueLength = 2
    MinBootstrapAssets = 2
    Amounts = {1, 2}
    Navs = {0, 3}
    MaxUsdc = 3
    Operators = {}
    MaxBlock = 2
    MaxPlanSteps = 1
    TokenMayBurn = TRUE
SYMMETRY Symmetry
INVARIANTS TypeOK StrikesInOrder BooksBalance ShareEscrow QueuesMatchPending BucketsCloseTogether BootstrapNeverDust
PROPERTIES NoDilution StrikeSettles ShortfallNeverGrows
