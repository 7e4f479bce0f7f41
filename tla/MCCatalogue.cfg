CONSTANTS
  b1 = b1
  b2 = b2
  b3 = b3
  None = None
  Ids = {b1, b2, b3}
  Blocked = {"closed"}
  RequireTitleAuthor = TRUE
  RequireTexts = TRUE
  RequireBooks = TRUE
  LibbyTypes = {"ebook", "audiobook"}
  Payloads <- SomePayloads
  Samples <- AllSamples
  Depth = 3
  BatchSize = 2
  AbortAfter = 2
  Tolerated <- HalfTolerated
  Names = {"open"}
  MaxImports = 3
  MaxFaults = 1
  MaxToggles = 1
SPECIFICATION Spec
CHECK_DEADLOCK FALSE
INVARIANT TypeOK OnlyWholeImports FoldFollowsRules IdentifiersSound RowsAreWanted
