----------------------- MODULE MCDistributedExecutor -----------------------
EXTENDS DistributedExecutor

\* The model runs and a method is called on all workers, in either order.
MCKindOf == <<"loop", "control">>
MCTasks == (DOMAIN MCKindOf) \X Workers
MCWorkerOf == [t \in MCTasks |-> t[2]]
MCEndless == {t \in MCTasks : MCKindOf[t[1]] = "loop"}
=============================================================================
