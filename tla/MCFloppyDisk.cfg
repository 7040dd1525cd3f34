SPECIFICATION Spec
CONSTANTS
  Drives = {0, 1, 4}
  COMMAND_ATTEMPT_COUNT = 3
  TIMEOUT_TIME = 4
CHECK_DEADLOCK FALSE
INVARIANT InTimeSucceeds
INVARIANT SuccessMeansDone
INVARIANT InStep
INVARIANT ResultsGenuine
INVARIANT SelectedMotorRight
PROPERTY CallsReturn
