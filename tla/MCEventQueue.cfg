SPECIFICATION Spec
CONSTANTS
  Keycode = {k1, k2}
  SIZE = 3
  NoElement = NoElement
INVARIANT NoTornRead
PROPERTY ImplementsFifo
