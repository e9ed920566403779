CONSTANTS
    NoPrice = NoPrice  NoSymbol = NoSymbol
    Symbols = {s1}
    Prices = {p1, p2}
    Crawlers = {c1}
    Capacity = 1
    MaxStarts = 1
SPECIFICATION FairSpec
PROPERTY ConsumersEnd
PROPERTY PriceIsEvaluated
PROPERTY ImplementsPriceWatch
