\* twai_task, the driver, the bus and led_task; the system never stops.
SPECIFICATION Spec
CONSTANTS
  boot = boot
  ready = ready
  busoff = busoff
  LedStates <- MCLedStates
  LedBoot = boot
  LedBusOff = busoff
  QLedCap = 2
  MaxFrames = 3
  QTxCap = 1
  QRxCap = 1
  QMonCap = 1
  DrvCap = 2
INVARIANTS
  TypeOK
  FramesAccounted
  LedTells
