SPECIFICATION FairSpec
CONSTANTS
  Unit = 5
  Padding = 1
  MaxBoxTiles = 6
  Zero <- MCZero
  NodeId <- MCNodeId
  Pos <- MCPos
  Table <- MCTable
  Conf <- MCConf
  AnyTag = "__any__"
  AreaTags = {"landuse"}
  LinearTags = {"highway"}
  LoadAll = FALSE
  Exclude = {}
  Include = {}
  GenTable <- MCGenTable
  SourceName <- MCSourceName
  Where <- MCWhere
  Plans <- LinePlans
PROPERTY LinesExpired
CHECK_DEADLOCK FALSE
