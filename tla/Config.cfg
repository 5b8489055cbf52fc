CONSTANTS
  LedCounts = {0, 60, 144}
  Cycles = {50, 80}
  Names = {lamp}
  NoText = NoText
  Absent = Absent
  ContentLen = 2
SPECIFICATION Spec
INVARIANTS ConfigInv SurvivesPowerLoss AnsweredIsStored SettingsInForce
