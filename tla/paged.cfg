\* Two threads, three sequences, three blocks of two tokens. Deadlock is not
\* checked: two copies in opposite directions do wait for each other for ever.
SPECIFICATION Spec
CONSTANTS
  a = a
  b = b
  c = c
  t1 = t1
  t2 = t2
  Threads = {t1, t2}
  Seqs = {a, b, c}
  NumBlocks = 3
  BlockSize = 2
  Shard <- ShardOf
  CowPairs <- Pairs
  MaxRef = 2
SYMMETRY Symm
CONSTRAINT UntilMoved
INVARIANTS TypeOK PlanStaysFeasible NoUseAfterFree ReferencesCovered
PROPERTIES PrivateWrites CompactionKeepsViews
CHECK_DEADLOCK FALSE
