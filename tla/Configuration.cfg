CONSTANTS
  dp1 = dp1
  dp2 = dp2
  dp3 = dp3
  Outputs = {dp1, dp2, dp3}
  None = none
  ModesOf <- MCModes
  SyncCapable = {dp1, dp2}
  Deep = {dp1}
  Capacity = 4
  Files <- MCFiles
  Scenes <- PassingScenes
SPECIFICATION Spec
INVARIANTS
  SettingsApplied
  NoBlackout
  RunOnce
PROPERTIES
  NewcomersWait
CHECK_DEADLOCK FALSE
