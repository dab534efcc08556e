SPECIFICATION Spec
CONSTANTS
    Budgets <- TwoBudgets
    Costs <- One
    Offers <- SomeOffers
    MaxAsks = 1
    MaxUpdates = 2
    CrewSizes <- PairAndTeam
    MaxOpens = 2
INVARIANTS CarryHolds RouteSound InputThere
PROPERTIES Reported
CHECK_DEADLOCK FALSE
