SPECIFICATION Spec
CONSTANTS
  Devices = {0, 1, 6, 8, 12, 14}
  Masked = {14}
INVARIANT MasterAcknowledged
PROPERTY RequestsServed
