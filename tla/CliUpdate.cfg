\* An update names some of the fields only.
SPECIFICATION Spec
CONSTANTS
  mcp = mcp  cli = cli  n1 = n1  n2 = n2  n3 = n3  n4 = n4
  NoteIDs = {n1, n2, n3, n4}
  NilID = nil
  Owners = {1, 2}
  RawTags <- MCRawTags
  Norm <- MCNorm
  Bodies = {"", "text"}
  MaxTags = 2
  Clients = {mcp, cli}
  Settings <- MCSettings
  Inputs <- MCInputs
  AuthModes = {"jwt", "dev"}
  Tokens <- MCTokens
  NoToken <- None
  DevToken <- MCDevToken
  DevUser = 1
  LowerTrim <- MCLowerTrim
  Parts <- MCParts
  DefaultLimit = 1
  MaxLimit = 2
  Half = 4
  InitialNotes <- Stores
  MaxCalls = 3
PROPERTIES UpdateKeepsUnnamed
\* The bound on calls ends every run.
CHECK_DEADLOCK FALSE
