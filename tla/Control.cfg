CONSTANTS
  SegmentBytes = 1
  DiskLimit = 2
  Publishers = {p1, p2}
  Task = task
  Subscribers = {s1}
  Modes = {TRUE, FALSE}
  AppendFails = TRUE
  Capacity = 1
  RingSize = 1
  MaxSeq = 3
  MaxBoots = 1
  Kinds <- AllKinds
  Splits = TRUE
  Reads = FALSE
  Escapes = FALSE
  Mismatched = FALSE
  OutCapacity = 1
  InCapacity = 1
  MaxFrames = 2
  MaxOutput = 1
  Requests = {q1, q2}
  Executions = {"e1", "e2"}
  AdmissionLimits <- AdmissionProfiles
  Procs = {r1, r2}
  ForwardCapacity = 1
  LOOKS_WITHOUT_HOLDER = 3
  ForwardLimits <- ForwardProfiles
  Peers = {"u", "v", "w"}
  MaxConnections = 1
  ListenLimits <- ListenProfiles
  Ages = {"same", "older", "newer"}
  TOKEN_PREFIXES <- TokenPrefixes
  MIN_TOKEN_LEN = 4
  MIN_LITERAL_LEN = 2
  TokenBytes = {"s", "-", "a"}
  Alphabet = {"s", "-", "a", "n"}
  MaxStream = 6
  Secrets <- SecretProfiles
  r1 = r1
  r2 = r2
SPECIFICATION ControlSpec
INVARIANTS
  TypeOK
  NoSilentLoss
  ConnectionHolds
  
  
  WireKeepsMeaning
  RedactsTheSame
CHECK_DEADLOCK FALSE
