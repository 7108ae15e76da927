SPECIFICATION SpecIndexed
CONSTANTS
    Accounts = {alice, bob}
    Vault = vault
    EventIds = {e1, e2}
    MaxQueueLength = 1
    MinBootstrapAssets = 1
    Amounts = {1}
    Navs = {0, 2}
    MaxUsdc = 2
    Operators = {bob}
    MaxBlock = 2
    MaxPlanSteps = 1
    TokenMayBurn = FALSE
    BlocksPerDay = 2
    MaxIndexed = 2
SYMMETRY EventSymmetry
INVARIANTS EscrowFloor IndexedBooks DailyLow
