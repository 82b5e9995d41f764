SPECIFICATION MCSpec

CONSTANTS
  c1 = c1
  c2 = c2
  d1 = d1
  d2 = d2
  atuin = atuin
  zsh = zsh
  Clients = {c1, c2}
  Daemons = {d1, d2}
  Atuin = {atuin}
  Files = {zsh}
  MaxSize = 2
  Faults = {"die", "stop", "disconnect", "fail"}
  None = None

INVARIANTS
  ReplyTruthful
  WholeImports
  AtuinOnce

PROPERTIES
  AcceptedIsDone
  ClientReturns

CHECK_DEADLOCK FALSE
