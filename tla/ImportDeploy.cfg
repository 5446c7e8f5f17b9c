CONSTANTS
  roads = roads
  places = places
  roadsGen1 = roadsGen1
  roadsGen2 = roadsGen2
  Base = {roads, places}
  Gen = {roadsGen1, roadsGen2}
  Source <- MCSource
  Commands <- MCCommands
  MaxCommands = 5
  MaxFaults = 1
SPECIFICATION FairSpec
INVARIANTS TypeOK ProductionWhole UpdateReady
PROPERTIES ProductionKept DeployUndone CommandEnds
