CONSTANTS
  Views = {1, 2, 3}
  Faces <- AllFaces
  WindowRules <- NoRules
  TitleMatches <- NoMatches
  Maximum = 2
  Modes = {TRUE, FALSE}
  InstalledTiles <- AllTiles
  Outputs = {1, 2}
  Deadline = 3
  Retry = 2
  MaxDelay = 1
  MaxUpsets = 4
SPECIFICATION HSpec
INVARIANTS
  TypeOK
  LockFollowsPlan
  ModelMirrorsInventory
  DeadlineHolds
PROPERTIES
  HealthyMeansSettled
  KeepsPromise
  OrderIsStable
