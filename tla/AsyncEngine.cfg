\* Two requests with outputs, aborts, cancellations, invalid parameters, and
\* exceptions and timeouts of a step.
CONSTANTS
    c1 = c1
    c2 = c2
    a = a
    b = b
    Clients = {c1, c2}
    IdOf <- MCIdsApart
    MaxOutputs = 2
    Failures = {"step", "timeout", "invalid"}
    EngineYields = TRUE
SPECIFICATION FairSpec
CHECK_DEADLOCK FALSE
INVARIANTS
    TypeOK
    NoOutputLost
    NoZombies
    HeldAreTold
PROPERTIES
    ServicePromise
    EveryoneAnswered
