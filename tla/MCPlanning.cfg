SPECIFICATION AllSpec
CONSTANTS
  Sources <- MCSources
  Desired = 4
  Repos <- MCRepos
  LowerCase <- MCLowerCase
  RankOf <- MCRankOf
  Begins <- MCBegins
  Tails <- MCTails
  EntryPoints <- MCEntryPoints
  MaxFiles = 4
  Options <- MCOptions
  Listings <- MCListings
  Paths <- MCPaths
  NoPath <- MCNoPath
  LowerOf <- MCLowerOf
  MaxSpan = 11
  MaxVerbatim = 5
  MaxSignature = 5
  MaxJoined = 4
  Ids = {"a"}
  Partitions = {"p0", "p1"}
  NoPart = "none"
  ModelFlags = {{"model"}, {"hard", "planner", "model"}, {}}
  Levels0 = {0, 1, 2}
  MaxItems = 3
  MaxStarts = 2
INVARIANTS ChunksAreSound GraphIsSound PartitionIsSound SurfaceIsSound PlanIsSound
PROPERTY LoopsEnd
\* every one of them ends
CHECK_DEADLOCK FALSE
