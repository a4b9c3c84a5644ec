\* A batch of unsendable emails at the head of the queue.
CONSTANTS
    Incidents = {i1}
    None = None
    Configs <- WithEmail
    Batch = 1
    MaxArrivals = 2
    MaxFailures = 0
SPECIFICATION FairSpec
PROPERTY RowsAreProcessed
