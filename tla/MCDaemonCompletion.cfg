CONSTANTS
    t1 = t1
    t2 = t2
    NoTask = NoTask
    Tasks = {t1}
    Interactions = {}
    Adapters <- MCAdapters
    AdapterOf <- MCAdapterOf
    GlobalLimit = 1
    AdapterLimit = 1
    MaxGeneration = 1
SPECIFICATION DaemonSpec
PROPERTY CompletionIsNotCancelled
