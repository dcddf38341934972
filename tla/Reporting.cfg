CONSTANTS
  LatencyEdges <- MCLatencyEdges
  ResidualEdges <- MCResidualEdges
  Items <- MCItems
  Slos <- MCSlos
  PolicyResults <- MCResults
  Required = {}
  MinuteTicks = 1
  HourTicks = 2
  MinuteLayerMax = 1
  SeriesPoints = 2
  ForeignLimit = 1
  RetentionTicks = 1
  RunBound = 2
  MaxTick = 2
  MaxTraffic = 2
SPECIFICATION ReportSpec
CHECK_DEADLOCK FALSE
INVARIANT ViewsReconcile
INVARIANT PercentilesHoldTheirRank
INVARIANT OnlySoundRunsAreJudged
