SPECIFICATION ViewSpec
CONSTANTS
  Writings = {1, 2, 3, 4}
  WriterOf <- MCWriterOf
  IssueWritings <- MCIssueWritings
  LayerCount = 2
  Codings <- MCCodings
INVARIANT SharedByAll
CHECK_DEADLOCK FALSE
