CONSTANTS
  Word = 4096
  Widths <- MCWidths
  Heights <- MCHeights
  Letters = {a, b}
  Star = Star
  PatternLength = 5
  TitleLength = 4
  DropIns = {1, 2, 3}
  TomlFiles = {1, 3}
  Patches <- MCPatches
  Defaults <- MCDefaults
  Rules <- MCRules
  ValidRules <- MCValidRules
  NoFile = NoFile
  Bad = Bad
  Unset = Unset
  Error = Error
SPECIFICATION FunctionsSpec
INVARIANTS
  PlacementsTileTheOutput
  PlannerMatchesRegions
  AcceptsOnlyMatches
  MissesOnlyRepeatedEndings
  HighestLayerWins
  HighestRuleWins
  RefusedForADefect
  NoDefectIsMasked
