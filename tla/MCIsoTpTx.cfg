\* Two callers of isotp_send against isotp_task.
SPECIFICATION Spec
CONSTANTS
  uds = uds
  runner = runner
  engine = engine
  gearbox = gearbox
  Callers <- MCCallers
  Ecus <- MCEcus
  Peer <- MCPeer
  NoCaller = NoCaller
  NoEcu = NoEcu
  Lens <- MCLens
  MaxCalls = 2
  FcParams <- MCFcParams
  MaxEcuWaits = 1
  QTxCap = 1
  QRxCap = 1
  SnMod = 3
  NBs = 0
  FcWaitMax = 1
  SendTimeout = 1
INVARIANTS
  TypeOK
  SendTrueUnlessRaced
  EcuIntegrity
  EcuNotOverrun
  OwnResult
PROPERTIES
  SendReturns
