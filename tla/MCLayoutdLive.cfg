CONSTANTS
  Views = {1, 2, 3}
  Faces <- EditorAndDialog
  WindowRules <- NoRules
  TitleMatches <- NoMatches
  Maximum = 3
  Modes = {TRUE, FALSE}
  InstalledTiles <- NoThirdTile
  Outputs = {1, 2}
  Deadline = 3
  Retry = 2
  MaxDelay = 2
  MaxUpsets = 3
SPECIFICATION FairSpec
PROPERTIES
  EventuallyHealthy
  ReportSettles
