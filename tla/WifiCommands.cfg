\* Two direct connections and the broker, three commands; everything may break.
SPECIFICATION FairSpec
CONSTANTS
    Clients = {"A", "B"}
    MaxCommands = 3
INVARIANTS
    WifiTypeOK
    WholeCommands
    AnswerReachesSender
PROPERTIES
    InOrder
    NobodyWaitsForAGhost
