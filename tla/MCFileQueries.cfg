SPECIFICATION Spec
CONSTANTS
  Tree <- SmallTree
  Contents <- SmallContents
  NoFile = nofile
  MaxEdits = 1
  WholeFileBytes = 6
  ModelBytes = 9
  Envelope = 1
  Meta = 2
  ReadLines = 3
  ReadBytes = 5
  Headroom = 3
  Reserve = 1
  RepoFileBytes = 6
  RepoTotalBytes = 7
  MaxPaths = 2
  ScanFiles = 6
  ScanBytes = 9
  ListEntries = 3
  FindMatches = 1
  SearchMatches = 2
  SearchBytes = 9
  PathBytes = 2
  IgnoreRules <- SomeRules
  WalkDepths = {1}
  ScanLimits = {3, 6}
  Queries <- SomeQueries
  Cascades <- SomeCascades
  LinkTo <- SmallLinks
  MaxInt = 7
  RepoSearchBytes = 6
  MaxMatches = 3
INVARIANTS PagesCompose PagesFit RepoReadAccounts NothingLostSilently WalkBudgets SearchIsExact
