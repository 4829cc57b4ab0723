SPECIFICATION Spec
CONSTANTS
    t1 = t1
    t2 = t2
    t3 = t3
    Threads = {t1, t2, t3}
    NoNode = null
    Nodes = {n1, n2}
    SHOULD_BE_ON_FREELIST = 8
    Consumers = {c1, c2}
    NumBlocks = 3
    initialBlockPoolSize = 2
    BLOCK_SIZE = 2
    IMPLICIT_INITIAL_INDEX_SIZE = 2
    MaxEnqueues = 7
    MaxMisses = 2
    Hash <- MCHash
    INITIAL_IMPLICIT_PRODUCER_HASH_SIZE = 2
    MaxFailures = 1
INVARIANTS
    TypeOK
    NothingLost
    ProducersFound
PROPERTIES
    RefinesPool
    RefinesFifo
    CallsReturn
CHECK_DEADLOCK FALSE
