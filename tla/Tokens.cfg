SPECIFICATION Spec
CONSTANTS
  Process = {p1, p2}
  Addr = {local, remote}
  Default = local
  MaxTokens = 2
  None = None
  Empty = Empty
  Unknown = Unknown
INVARIANTS LoadFindsTheNewest ForgottenIsGone TokensStayHome
SYMMETRY Processes
