SPECIFICATION Spec
CONSTANTS
    Clients = {"a", "b"}
    MaxDepth = 1
    Sessions = {"s"}
    Setups <- Starts
    Bodies <- SomeBodies
    Usages <- SomeUsages
    MaxBoots = 2
INVARIANTS AnswersAreRecorded LoopIsBroken MeanIsOfTheLedger
PROPERTIES RequestsAreAnswered
CHECK_DEADLOCK FALSE
