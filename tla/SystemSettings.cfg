SPECIFICATION SettingsSpec
CONSTANTS
  Requests = {q1, q2}
  LogKeys <- TwoLogKeys
  LogValues = {"error", "debug"}
  Default = "error"
  ProviderKeys <- TwoProviders
  Configs = {c1, c2}
  MaxEntries = 2
  Unset = Unset
SYMMETRY Symmetry
CONSTRAINT TwoWritten
INVARIANTS
  SettingsTypeOK
  LoggerCurrent
  StrategiesCurrent
PROPERTIES
  PatchKeepsTheRest
CHECK_DEADLOCK FALSE

