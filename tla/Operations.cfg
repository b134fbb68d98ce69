CONSTANTS
  Parts = {"lobs", "cursor", "responses", "script", "samples"}
  Samples <- MCSamples
  NoLob = NoLob
  Tasks = {t1, t2}
  l1 = l1
  f1 = f1
  m1 = m1
  KindOf <- MCKindOf
  Contents <- MCContents
  Letters = {"z"}
  MaxLen = 3
  MaxWrites = 1
  ChunkSizes = {0, 1, 2}
  MinChunk = 2
  SrvChunks = {0, 3}
  CursorRows = 2
  Offsets <- MCOffsets
  MaxStray = 1
  Absent = Absent
  NumCols = 9
  CellValues = {"a", "b", "k"}
  Tables <- MCTables
  RowsPerFetch = 2
  BatchSize = 3
  NumParams = 2
  NoDataErrors = FALSE
  MaxUnits = 2
  MaxLines = 3
  MaxCommands = 3
  MaxOutput = 2
  ChunkSize = 256
SPECIFICATION Spec
INVARIANTS
  TypeOK
  ChunkedReadExact
  ReadBfileCleansUp
  RowsExact
  ErrorsExact
  OutBindsExact
  StatementsWhole
  OutputDrained
PROPERTIES
  TextScansExact
  FieldsRoundTrip
  CodecsRoundTrip
  DocumentsRoundTrip
  RequestsConsistent
  OpenByCallerStaysOpen
  ChunkedReadEnds
  ScrollDelivers
CHECK_DEADLOCK FALSE
