CONSTANTS
    Submitters = 2
    QueueCapacity = 1
    QueueFullPolicy = "Block"
    MaxTasks = 4
    Cancellable = {2, 3}
SPECIFICATION Spec
INVARIANTS NoLostWakeup CancellationDecides CancelledInQueueNeverRuns
PROPERTIES ImplementsTaskDelivery EveryTaskDelivered WaitReturns StopReleasesSubmitters
