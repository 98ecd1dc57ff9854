SPECIFICATION Spec
CONSTANTS
    Cap = 2
    Sizes = {1, 2}
    OrderTypes = {"Limit", "Market"}
    MaxMarkets = 2
    MaxLost = 1
    MaxBlank = 1
    NoRead = NoRead
INVARIANTS CommittedIsBounded
