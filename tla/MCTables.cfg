SPECIFICATION TablesSpec
CONSTANTS
  NULL = NULL
  m = m  n = n  o = o
  t1 = t1  t2 = t2
  p1 = p1  p2 = p2
  Threads = {t1, t2}
  Names = {m, n, o}
  Hash <- ConstHash
  TableSize = 2
  MaxId = 3
  MaxOps = 2
  capacity = 2
  MaxCount = 6
  Proc = {p1, p2}
  Nodes = {m, n, o}
  ProcOf <- ConstProcOf
  NameOf <- ConstNameOf
  MaxStamp = 2
  MaxNodes = 2
  MaxEvents = 2
  Loaders = {m, n}
  Managed = {n}
  MaxCalls = 3
  MaxFailures = 1
CHECK_DEADLOCK FALSE
INVARIANTS ListsWhole LaterNamesDiffer OneOwner ListWhole
  OwnNodes DuplicateIsNoticed AllAgree ObjectsAreMapped InStep
PROPERTIES OperationsEnd
