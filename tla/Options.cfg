CONSTANTS
  Unset = Unset
  Levels <- MCLevels
  DDValues <- MCDDValues
  CouplingMaps = {"line"}
SPECIFICATION Spec
INVARIANT OptionsTypeOK
INVARIANT LevelsInRange
