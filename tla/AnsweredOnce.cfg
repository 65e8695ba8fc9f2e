SPECIFICATION ShopSpec
CONSTANTS
    Person = {1, 2, 3}
    Decider = {2, 3}
    Price = 2
    Lags = {0, 3}
    MaxCommands = 2
    Does <- MCDoes
    Stories <- MCStories
INVARIANTS
    AnsweredOnce
CHECK_DEADLOCK FALSE
