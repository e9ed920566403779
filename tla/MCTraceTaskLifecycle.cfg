CONSTANTS
    Tickers = {"reconcile"}
    Stoppers = {"driver", "closing"}
    MaxSessions = 2
SPECIFICATION FairSpec
INVARIANTS
    SessionHasTasks
    QuietAfterStop
PROPERTY StopEnds
CHECK_DEADLOCK FALSE
