CONSTANTS
  Unset = Unset
  Levels <- MCLevels
  DDValues <- MCDDValues
  CouplingMaps = {"line"}
SPECIFICATION Spec
PROPERTY RejectedLeavesUnchanged
