SPECIFICATION Spec
CONSTANTS
    Minute = 8
    Capacities <- MCResizeCapacities
    TokenCounts <- MCTokens
    Headrooms <- MCHeadrooms
    FloorPercent = 50
    Pace <- MCPace
    MaxTime = 9
    MaxRefund = 0
    MaxOthers = 0
PROPERTY
    GrowthHandsOutNothing
