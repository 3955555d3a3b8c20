\* Two remote workers, the model's loop, a method call before or after it, with
\* workers that die at any moment and a shutdown.
CONSTANTS
    NumWorkers = 2
    KindOf <- MCKindOf
    Tasks <- MCTasks
    WorkerOf <- MCWorkerOf
    Terminate = Terminate
    Endless <- MCEndless
    ControlAnytime = FALSE
    SwapOnlySteps = FALSE
SPECIFICATION FairSpec
CHECK_DEADLOCK FALSE
INVARIANTS
    TypeOK
    NoneForgotten
    LoopReached
PROPERTIES
    EngineReturns
    EveryoneLeaves
