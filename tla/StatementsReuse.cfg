SPECIFICATION Spec
CONSTANTS
  Sqls <- Texts
  KindOf <- Kinds
  RowsOf <- Rows
  MaxSize = 1
  Tasks = {t1, t2}
  FetchSize = 2
  MaxOps = 4
  MaxDrops = 0
INVARIANT CachedCursorReused
CHECK_DEADLOCK FALSE
SYMMETRY TaskSymmetry
