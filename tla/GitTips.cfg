CONSTANTS
  Pids = {p1, p2}
  Spawners = {s1, s2}
  MaxProcs = 3
  SessionNames = {s1, s2}
  Channels = {c1}
  Leaders <- LeaderProfiles
  MaxSessions = 1
  Over = {s2}
  Cap = 1
  SegmentRecords = 1
  BatchRecords = 2
  Buffer = 1
  DrainBudget = 1
  Procs = {"p", "q"}
  ProcessLimits <- ProcessProfiles
  ExecutorLimits <- ExecutorProfiles
  GitLimits <- GitProfiles
  UnstagedLimits <- UnstagedProfiles
  Files = {f1, f2}
  Hidden = {f1}
  DetectLimits <- DetectProfiles
  Readers <- Crew
  ReadLimits <- ReadProfiles
  Tracked = {n1, n2}
  Workspace = {n3}
  Bulk = {n4}
  Captures <- RestoreCaptures
  RestoreLimits <- RestoreProfiles
  Tops = {"a", "b"}
  WatchLimits <- WatchProfiles
  MaxPid = 5
  SweepLimits <- SweepProfiles
  Mounts = {"repo", "lib"}
  Subpaths = {"a", "b"}
  BindLimits <- BindProfiles
  Members <- MemberProfiles
  MaxMembers = 3
  PerFile = 4
  Total = 6
  Contents = {1, 2}
  FsLimits <- FsProfiles
  Requests = {r1, r2}
  DotLimits <- DotProfiles
  Launchers = {"a", "b"}
  PERSON_GID = 3
  PERSON_UID_MIN = 4
  PERSON_UID_MAX = 6
  Fds = {3, 4}
  RunLimits <- RunProfiles
  CadenceTable <- CadenceProfiles
  BuildUnits = 2
  Writers = {"a", "b"}
  FlushLimits <- FlushProfiles
  Large = {"p"}
  Small = {"a", "m"}
  UploadLimits <- UploadProfiles
  Flushes = {"f", "g"}
  PassLimits <- PassProfiles
  BootLimits <- BootProfiles
  n1 = n1
  n2 = n2
  n3 = n3
  n4 = n4
  r1 = r1
  r2 = r2
SPECIFICATION UnstagedSpec
INVARIANT OnlyStagedTipsAreNegatives
CHECK_DEADLOCK FALSE
