CONSTANT Width = 3
SPECIFICATION PathSpec
INVARIANTS MaximalRuns PathExists
PROPERTY PoolSpec
