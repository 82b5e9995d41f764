SPECIFICATION FairSpec

CONSTANTS
  c1 = c1
  c2 = c2
  c3 = c3
  d1 = d1
  d2 = d2
  d3 = d3
  Clients = {c1, c2}
  Daemons = {d1, d2}
  Commands = {"restart"}
  Faults = {"die", "kill", "launch", "sigterm", "slow"}
  NoClient = NoClient
  NoDaemon = NoDaemon

INVARIANTS
  LockHeldInsideOnly
  SoleDaemonServes

PROPERTIES
  AcknowledgedShutdownEnds
  CommandsReturn
