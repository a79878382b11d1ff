CONSTANTS
  Views = {1, 2, 3}
  Faces <- MCFaces
  WindowRules <- MCRules
  TitleMatches <- MCMatches
  Maximum = 2
SPECIFICATION Spec
INVARIANTS
  Typing
  DrainedMirrorsKnown
  AbsorbIsTheDrainedRefresh
PROPERTY OrderIsStable
