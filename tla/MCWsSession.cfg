\* Browsers that come and go, the three writers and the pump.
SPECIFICATION Spec
CONSTANTS
  Fds <- MCFds
  MaxConns = 3
  QRespCap = 1
  QMonCap = 1
INVARIANTS
  TypeOK
  SlotIsOpen
  LastBrowserKept
PROPERTIES
  PumpReturns
