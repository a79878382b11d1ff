CONSTANTS
  Views = {1, 2}
  Faces <- EditorAndDialog
  WindowRules <- NoRules
  TitleMatches <- NoMatches
  Maximum = 2
  Modes = {TRUE}
  InstalledTiles <- AllTiles
  Outputs = {1}
  Deadline = 3
  Retry = 2
  MaxDelay = 1
  MaxUpsets = 3
SPECIFICATION HSpec
PROPERTY HealthyFloatingShown
