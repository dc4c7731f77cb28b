CONSTANT MaxHandle = 7
SPECIFICATION AllocatorSpec
INVARIANTS AllocatorTypeOK RangesSorted FreeListsExact
PROPERTY PoolSpec
