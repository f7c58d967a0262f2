CONSTANTS
  t1 = t1
  t2 = t2
  n1 = n1
  n2 = n2
  Task = {t1}
  Layers <- OneTask
  Nodes <- OneNode
  Foreign = {}
  MaxCrash = 0
SPECIFICATION Spec
INVARIANTS
  ClosingReceiptsAdmitDo
CHECK_DEADLOCK FALSE
