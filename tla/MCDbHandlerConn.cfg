\* Two threads inside calls on the one connection.
CONSTANTS
    w1 = w1
    w2 = w2
    Workers <- OneWorker
    Main = Main
    NoThread = NoThread
    Capacity = 2
    PopEnds = {"oldest", "newest"}
    MaxSubmit = 2
SPECIFICATION SafetySpec
INVARIANTS
    NoSharedConnUse
