SPECIFICATION Spec
CONSTANTS
    g1 = g1
    g2 = g2
    Generators = {g1, g2}
    Worker <- MCWorker
    SequenceSize = 3
    Base = 2
    SequenceWidth = 2
    WorkerWidth = 2
    MaxClock = 3
    MaxIds = 6
INVARIANTS TypeOK OnlyFirstRepeats WorkersApart
