SPECIFICATION Spec
CONSTANTS
  Rows = {"a", "b"}
  MaxMutations = 3
  MaxFailures = 1
  MaxBreaks = 1
  MaxUnmapped = 1
\* Everything may have been uploaded, or be stuck behind a row mapEntry refuses.
CHECK_DEADLOCK FALSE
INVARIANTS
  UploadsInOrder
  CallersLearnTheirOutcome
PROPERTY CallersHear
