SPECIFICATION SpecCycle
CONSTANTS
    Accounts = {alice, bob}
    Vault = vault
    EventIds = {1, 2, 3, 4}
    MaxQueueLength = 2
    MinBootstrapAssets = 10000
    Amounts = {1, 10000}
    Navs = {}
    MaxUsdc = 20000
    Operators = {}
    MaxBlock = 4
    MaxPlanSteps = 5
    TokenMayBurn = FALSE
    Prices = {10000, 9300, 8500}
    Leverage = 25000
    HfFloor = 13850
    HfDeleverage = 14550
    ReserveFloor = 0
    Haircut = 0
    Lltv = 9150
    OneUsdc = 100
    Requests = 3
SYMMETRY AccountSymmetry
INVARIANTS PricedAtWorth PlansPayRedemptions NeverOverLevered
