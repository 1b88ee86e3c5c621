\* README_GITHUB.md:240,249: ClearDTC and RequestTransferExit are supported.
SPECIFICATION Spec
CONSTANTS
  engine = engine
  gearbox = gearbox
  session = session
  clear = clear
  Ecus <- MCEcus
  Sids <- MCSids
  Nrcs <- MCNrcs
  Forms <- MCOneByte
  Pending = 120
  NoAnswer = 255
  BusError = 254
  Requests <- MCRequests
  FlashRequests <- MCFlashRequests
  MaxRequests = 3
  MaxPending = 1
  QRequestCap = 1
  QResponseCap = 1
  QIsotpCap = 1
  TickMod = 4
  P2Star = 2
  LockWait = 0
  MaxHeld = 2
PROPERTIES
  PositiveHeard
