\* Bus-off and recovery.
SPECIFICATION Spec
CONSTANTS
  boot = boot
  ready = ready
  busoff = busoff
  LedStates <- MCLedStates
  LedBoot = boot
  LedBusOff = busoff
  QLedCap = 2
  MaxFrames = 2
  QTxCap = 1
  QRxCap = 1
  QMonCap = 1
  DrvCap = 1
PROPERTIES
  BusRecovers
