SPECIFICATION Spec
CONSTANTS
  Systems = {"windows", "macos"}
  UserValues = {"off", "user"}
  MaxSessions = 2
  MaxRecovers = 1
  MaxFails = 1
INVARIANTS Recoverable RecoveredBeforeSetup CleanStopRestores QuietMeansRestored
