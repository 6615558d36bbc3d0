SPECIFICATION Spec
CONSTANTS
  alignment = 4
  block_ = 8
  Requests <- ArenaRequests
  MaxAllocs = 4
  MaxMarks = 2
  MaxBlocks = 3
  Threads = {"t1", "t2"}
  Infos <- ThreeInfos
  MaxWrites = 3
  Owners = {o1, o2, o3}
  Families = {"buffer", "aligned", "box", "gpu"}
  Sizes = {0, 2}
  Alignments = {1, 2, 3, 4}
  Contents <- SomeContents
  Junk = 7
  SizeMax = 3
  MaxScopes = 3
  Kinds = {"map", "each", "reduce", "async"}
  Ns = {0, 1, 2, 3, 4}
  Pools = {0, 1, 2, 3}
  Inputs <- SumInputs
  chunk_size = 2
  MaxCalls = 3
  Items <- StreamItems
  Values = {1, 2}
  Pipelines <- SomePipelines
  MaxSends = 2
  MaxPulls = 4
SYMMETRY AlikeOwners
INVARIANTS
  LiveDisjoint
  RegistryComplete
  OwnedOnce
  GuardsMatchExit
  WaysAgree
  OkIsComplete
  StreamAgrees
CHECK_DEADLOCK FALSE
