SPECIFICATION Spec
CONSTANTS
  NodeIds = {n1, n2, n3}
  m_head = m_head
  Null = Null
  Values = {a, b}
  m_maxSize = 4
  Calls = {"append", "removeOne"}
  Careful = FALSE
INVARIANTS TailIsDataNode
CHECK_DEADLOCK FALSE
