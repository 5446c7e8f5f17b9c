CONSTANTS
  roads = roads
  places = places
  roadsGen1 = roadsGen1
  roadsGen2 = roadsGen2
  Base = {roads, places}
  Gen = {roadsGen1, roadsGen2}
  Source <- MCSource
  Commands <- MCFirstImport
  MaxCommands = 1
  MaxFaults = 1
SPECIFICATION Spec
INVARIANT WaitReportsErrors
