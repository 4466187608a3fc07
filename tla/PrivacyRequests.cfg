SPECIFICATION FairSpec
CONSTANTS
  Scripts <- MCScripts
  MaxEdits = 1
  None = None
  Error = Error
INVARIANTS OneRunPerRequest PublishedIsAnonymous PurgeIsDue AssetsAgree
PROPERTIES RequestsServed
CHECK_DEADLOCK FALSE
