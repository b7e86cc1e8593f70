\* The same pool, and the defragmenter's claim about the blocks it moves.
SPECIFICATION Spec
CONSTANTS
  a = a
  b = b
  c = c
  t1 = t1
  t2 = t2
  Threads = {t1, t2}
  Seqs = {a, b, c}
  NumBlocks = 3
  BlockSize = 2
  Shard <- ShardOf
  CowPairs <- Pairs
  MaxRef = 2
SYMMETRY Symm
PROPERTY MovesOnlyUnshared
CHECK_DEADLOCK FALSE
