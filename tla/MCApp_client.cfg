SPECIFICATION Spec
CONSTANTS
    Alma = Alma
    Bo = Bo
    Vacant = Vacant
    Unknown = Unknown
    NoHurdle = NoHurdle
    NoValue = NoValue
    Open = Open
    Scale = 100
    MonthsPerYear = 2
    EquityPasses = 6
    SizingPasses = 8
    Tolerance = 4
    UnitLoan = 1000
    Deals <- MCDeals
    RollDeals <- MCRollDeals
    Box <- MCBox
    Bays <- MCBays
    MaxBays = 3
    Headers <- MCHeaders
    Criteria <- MCCriteria
    Structures <- MCStructures
    Series <- MCSeries
    Curves <- MCCurves
    Reach = 4
    Sampling = 2
    Halvings = 4
    Tabs = {TabOne, TabTwo}
    Stored = Stored
    Fresh = Fresh
    Sample = Sample
    MaxEdits <- MCMaxEdits
    NothingSaved = NothingSaved
    Damaged = Damaged
    Alien = Alien
SYMMETRY AnyTab
INVARIANTS
    LeverageOnlyCostsItsInterest
    LoanIsAsAsked
    ScreenAgreesWithTheModel
    NothingPassesUnmeasured
    SplitIsEarned
    BreakevenIsARoot
    
CHECK_DEADLOCK FALSE
