SPECIFICATION Spec
CONSTANTS
  Keep <- MCKeep
  OffsiteKeep = 1
  OffsiteEnabled = TRUE
  BackupsEnabled = TRUE
  MaxRemote = 2
  MaxFaults = 2
  MaxChanges = 1
INVARIANTS TypeOK SuccessLeavesGoodBackup SafetyBackupSurvives PristineCopySurvives SilenceMeansCopies
PROPERTIES OffsiteKeepsGood SuccessIsNotForgotten BackedUpAgain
