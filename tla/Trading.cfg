SPECIFICATION Spec
CONSTANTS
    Threads = {c1, c2, s}
    Scheduler = s
    Symbols = {"A", "B"}
    Prices = {3600, 7200}
    Quantities = {1, 2}
    Settings <- MCSettings
    Baskets <- MCBaskets
    Caps = {3600}
    MaxHeld = 1
    StopPart = 2
    Cases <- MCCases
INVARIANTS
    BooksBalance
    BrokerTruth
    BotBooks
PROPERTIES
    OpensWithinBudget
SYMMETRY ClientSymmetry
CHECK_DEADLOCK FALSE
