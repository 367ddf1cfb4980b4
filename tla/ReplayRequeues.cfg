\* Is a replayed dead letter submitted again?
CONSTANTS
  Document = {"d1", "d2"}
  NoRow = NoRow
  RowAttempts = 2
  MaxReplays = 1
  MaxUnwritten = 0
SPECIFICATION TablesFairSpec
PROPERTY ReplayedIsSubmitted
\* The tables come to rest.
CHECK_DEADLOCK FALSE
