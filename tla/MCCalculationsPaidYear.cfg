CONSTANTS
  Stocks = {a, b}
  LastDay = 2
  Closers = {x, y}
  MaxRuns = 2
  Years = {1, 2}
  Dividends = {a, b}
  Recalcs = {x, y}
  MaxPay = 1
  MaxCorrections = 1
  Symbols = {a, b}
  LastTradeDay = 3
  Periods = {1, 2}
  Grace = 2
  Tasks = {x, y}
  MaxCalculations = 2
  MaxQuotes = 1
  Horizon = 4
  Base = 1
  End = 3
  BaseShares = 64
  Par = 10
  Events <- SomeEvents
  Splits <- SomeSplits
  MaxEvents = 3
  Prices = {0, 1, 2}
  Grain <- SomeGrain
  Quarters = {a, b}
  WholeYear = whole
  LastYear = 2
  MaxNews = 1
  MaxFlows = 2
  LastQuarter = 2
  MaxNights = 2

SPECIFICATION Spec
CHECK_DEADLOCK FALSE

INVARIANT PaidYearIsActual
