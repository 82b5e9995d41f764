SPECIFICATION MCSpec

CONSTANTS
  regular = regular
  a = a
  b = b
  text = text
  video = video
  hint = hint
  html = html
  png = png
  k = k
  j1 = j1
  j2 = j2
  x = x
  random = random
  headset = headset
  keyboard = keyboard
  Selections = {regular}
  Watched = {regular}
  Values = {a, b}
  Secret = b
  TextMimes = {text}
  BigMimes = {video}
  Hint = hint
  Clips <- HuginClips
  Stored <- HuginStored
  MaxOffers = 2
  MaxCopies = 2
  MaxRemovals = 2
  Chosen = {None}
  MaxEntries = 1
  None = None
  Blank = Blank
  Queries = {any, x}
  Everything = any
  Limit = 2
  PoolLimit = 3
  Bottom = TRUE
  Nothing = nil
  Tables <- ValkyrieTables
  PortOf <- ValkyriePorts
  ProcessQueries <- ValkyrieQueries
  ProcessScore <- ValkyrieScore
  ProcessLimit = 3
  CollapseMin = 2
  DominantPercent = 60
  Signals <- ValkyrieSignals
  MaxKeys = 2
  Snapshots <- GormSnapshots
  DeviceScore <- GormScore
  MaxEdits = 2
  Devices = {headset, keyboard}
  MaxRequests = 3
  MaxActions = 2
  Commands = {a, b, k}
  CommandScore <- MuninScore
  MaxHistory = 4
  Texts = {a, b}
  MimesOf <- HuginMimes
  TextScore <- HuginScore
  MaxCommits = 4
  Shells = {j1, j2}
  Dirs = {a, b}
  Files = {k}
  Parent <- SleipnirParent
  Git = {a}
  Cwd = a
  Ignored = {}
  Tokens <- SleipnirTokens
  PathScore <- SleipnirScore
  RankCap = 2
  Ttl = 1
  Hour = 1
  Day = 2
  Week = 3
  ScanLimit = 1
  WalkCap = 2
  MaxClock = 1
  MaxVisits = 3
  MaxCommands = 1
  Kind <- BragiKind
  CardOf <- BragiCards
  Profiles = {a, b}
  Registry = 0
  Metadata = 20
  Starts = {{1, 10}, {2, 3}}
  MaxVolume = 1
  NodeScore <- BragiScore
  MaxStimuli = 2
  Hosts <- HeimdallHosts
  Vendor <- HeimdallVendors
  MacKind <- HeimdallMacs
  Interfaces <- HeimdallInterfaces
  Width = 4
  MinPrefix = 2
  MaxPrefix = 2
  MaxHosts = 2
  DropAfter = 2
  HostScore <- HeimdallScore
  MaxHostClock = 2
  MaxQueue = 1
  MaxMoves = 1

SYMMETRY Symmetry

INVARIANTS
  NoSelfRead
  EchoOnlyIfReplaced
  SecretsSkipped
  PartsBelong
  CopyIsSeen
  OneKillPerHold
  KillsAimed
  ForgetsAimed
  StrayOnlyAfterGiveUp
  NoSilentWait
  DiscoveryYields
  TreeComplete
  NewestOfEach
  StaleIsNoticed
  VisitsCounted
  ShownIsTrue

PROPERTIES
  HistoryIsKept
  CompleteIsWhole
  OnlySilentDropped

CHECK_DEADLOCK FALSE
