SPECIFICATION Spec
CONSTANTS
    Rows = {"usde-usdc", "reserve"}
    Row <- Catalog
    MaxLanes = 2
    Keys = {"safety-buffer", "auto-compound", "redemption-route"}
    Shares = {1, 4}
    Total = 5
    UndoDepth = 2
    MaxEdits = 6
CHECK_DEADLOCK FALSE
INVARIANTS AllocationsCover PublishesOneProduct QuoteIsComing
