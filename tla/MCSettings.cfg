CONSTANTS
  Rates <- MCRates
  Words <- MCWords
  Modes <- MCModes
  OutcVal <- MCOutcVal
  Files <- MCFiles
SPECIFICATION Spec
INVARIANTS RateInUse SettingsKept
