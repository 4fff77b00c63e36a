CONSTANTS
    t1 = t1
    t2 = t2
    i1 = i1
    a1 = a1
    NoTask = NoTask
    Tasks = {t1, t2}
    Interactions = {i1}
    OnlyAdapter = a1
    Adapters <- MCAdapters
    AdapterOf <- MCAdapterOf
    GlobalLimit = 2
    AdapterLimit = 1
    MaxGeneration = 1
SYMMETRY Symmetry
SPECIFICATION Spec
INVARIANTS
    NeverQuarantined
    CancelIsDurable
    SlotsRespectLimits
PROPERTIES
    StartedIsNeverRetried
    AnsweredOnce
