CONSTANTS
    t1 = t1
    i1 = i1
    a1 = a1
    NoTask = NoTask
    Tasks = {t1}
    Interactions = {i1}
    OnlyAdapter = a1
    Adapters <- MCAdapters
    AdapterOf <- MCAdapterOf
    GlobalLimit = 1
    AdapterLimit = 1
    MaxGeneration = 1
SPECIFICATION Spec
INVARIANT RecoveryCompletes
