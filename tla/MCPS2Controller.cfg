SPECIFICATION Spec
CONSTANTS
  COMMAND_RETRY_COUNT = 3
  Devices <- MCDevices
  Configs <- MCConfigs
  MaxRefusals = 3
  MaxTouches = 1
INVARIANTS
  UsableWhenReady
  InTimeSucceeds
  OnlyKeyboards
PROPERTY InitEnds
CHECK_DEADLOCK FALSE
