CONSTANTS
    Submitters = 1
    QueueCapacity = 1
    QueueFullPolicy = "Block"
    MaxTasks = 3
    Cancellable = {}
    StageQueueCapacity = 1
    MaxBatchSize = 2
SPECIFICATION Spec
INVARIANT SingleProducer
