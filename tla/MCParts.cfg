SPECIFICATION Spec
CONSTANTS
  Runs = {r1, r2}
  Names = {c}
  Requests <- MCRequests
  Hosts = {h1, h2}
  None = None
  Runners = {h2}
  MaxEvents = 1
  Inputs <- MCInputs
  Digests = {d1, d2}
  Machines <- MCMachines
  MaxCount = 2
  Dockerfiles <- MCFiles
  Givens <- MCGivens
  Targets = {"no target", "one", "three"}
  Images <- MCImages
  r1 = r1
  r2 = r2
  c = c
  h1 = h1
  h2 = h2
  d1 = d1
  d2 = d2
INVARIANTS
  HostFilesKept
  CleanRunsLeaveNothing
  AloneLeavesNothing
  NoPayloadInGroup
  OneGuest
  FramesAreWhole
  ListedNamesResolve
  GrantsFollowIds
  NamesMeanDockers

  
CHECK_DEADLOCK FALSE
