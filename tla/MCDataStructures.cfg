SPECIFICATION MCSpec
CONSTANTS
  Tests = {"List", "Queue", "Vector", "Stack", "StaticList", "CMByteArray", "SpinLock"}
  ThreadCount = 3
  Rounds = 2
  m_count = 3
  NodeIds = {n1, n2, n3, n4}
  m_head = m_head
  Null = Null
  Junk = Junk
  MaxSize = 4
SYMMETRY Symmetry
INVARIANTS  MemorySafe MutualExclusion PrintsExactSum
PROPERTIES PopsTheEnds MainPrintsSum
CHECK_DEADLOCK FALSE
