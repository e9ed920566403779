CONSTANTS
    c1 = c1  c2 = c2
    NoPrice = NoPrice  NoSymbol = NoSymbol
    Symbols = {s}
    Prices = {p}
    Crawlers = {c1, c2}
    Capacity = 1
    MaxStarts = 2
    t1 = t1  t2 = t2  i1 = i1  i2 = i2
    Tasks = {t1, t2}
    Instances = {i1, i2}
    InstanceOf <- OneEach
    AlertPrices = {1, 2}
    Window = 2
    MaxTime = 5
    LastDay = 7
    NewYear = 4
    Weekends <- SomeWeekends
    MaxLapses = 1
    Offerings = {o1, o2}
    LastRun = 4
    MaxAborts = 2
    Readers = {r1, r2}
    DayHours = 2
    LastHour = 5
    MaxReading = 1
    IndexDays = {1, 2}
    MaxRevisions = 1
    MaxRestarts = 1
SPECIFICATION MCSpec
SYMMETRY Symmetry
VIEW View
INVARIANT PendingHasEvent
INVARIANT AtMostTwoEvents
INVARIANT AlertsEscalate
INVARIANT SuppressionIsBacked
INVARIANT DividendsAreForetold
INVARIANT OfferingsAreTold
INVARIANT QuotesLagADayAtMost
INVARIANT IndexIsToldOnce
CHECK_DEADLOCK FALSE
