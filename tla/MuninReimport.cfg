SPECIFICATION FairSpec

CONSTANTS
  c1 = c1
  c2 = c2
  d1 = d1
  d2 = d2
  atuin = atuin
  zsh = zsh
  Clients = {c1, c2}
  Daemons = {d1}
  Atuin = {}
  Files = {zsh}
  MaxSize = 1
  Faults = {}
  None = None

INVARIANTS
  ReimportIdempotent

CHECK_DEADLOCK FALSE
