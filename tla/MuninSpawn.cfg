SPECIFICATION FairSpec

CONSTANTS
  c1 = c1
  c2 = c2
  c3 = c3
  d1 = d1
  d2 = d2
  d3 = d3
  Clients = {c1, c2, c3}
  Daemons = {d1, d2}
  Commands = {"ensure"}
  Faults = {"die"}
  NoClient = NoClient
  NoDaemon = NoDaemon

INVARIANTS
  TypeOK
  NoDoubleStart

PROPERTIES
  SingletonSpec
  StartFailsOnlyByDeath
