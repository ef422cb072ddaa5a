SPECIFICATION Spec
CONSTANTS
  Accounts = {a1, a2}
  Kinds = {platform, connect}
  Platform = platform
  Amounts = {p5, p7}
  MaxHooks = 6
  MaxProducts = 2
  MaxCalls = 2
  None = None
SYMMETRY Interchangeable
INVARIANTS
  NoTwins
  AbortKeepsWhatRuns
  SecretsBelongTogether
  CatalogIsPriced
PROPERTY SourceLast
CHECK_DEADLOCK FALSE
