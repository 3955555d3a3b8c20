\* An iteration that only swaps blocks, as when the last group preempts itself.
CONSTANTS
    NumWorkers = 2
    KindOf <- MCKindOf
    Tasks <- MCTasks
    WorkerOf <- MCWorkerOf
    Terminate = Terminate
    Endless <- MCEndless
    ControlAnytime = FALSE
    SwapOnlySteps = TRUE
SPECIFICATION Spec
CHECK_DEADLOCK FALSE
INVARIANTS
    TasksMeanLoop
