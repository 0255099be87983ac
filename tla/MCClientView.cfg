CONSTANTS
  ChunkWidth = 2
  GardenRadius = 1
  EnabledDimensions = {"Overworld", "Nether"}
  Pack <- MCPack
  Players = {p1, p2}
  p1 = p1
  p2 = p2
  InitialRadius = 1
  ServerViewDistance = 3
  ViewDistances = {0, 2}
  Places <- MCPlaces
  SavedPlaces <- MCSavedPlaces
  Changes <- MCChanges
  MobHome <- MCMobHome
  MaxDelta = 2
  PortalCooldownTicks = 1
  MaxMessages = 2
  MaxEvents = 6
  MaxActs = 4
SYMMETRY Symmetric
SPECIFICATION Spec
INVARIANTS TypeOK WindowShown BlocksShown EntitiesShown WindowFollows PositionsAgree
CHECK_DEADLOCK FALSE
