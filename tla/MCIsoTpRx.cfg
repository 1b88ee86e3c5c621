\* The receive path, two ECUs and one broadcasting node.
SPECIFICATION Spec
CONSTANTS
  obd = obd
  body = body
  NoEcu = NoEcu
  Ecus <- MCEcus
  ReqId <- MCReqId
  RespId <- MCRespId
  MsgLens <- MCMsgLens
  MaxMsgs <- MCMaxMsgs
  MaxCalls = 2
  Noise <- MCNoise
  MaxNoise = 1
  MaxPayload = 15
  SnMod = 2
  FrameQueueCap = 2
  MsgQueueCap = 1
  TxQueueCap = 1
  NCr = 0
INVARIANTS
  TypeOK
  CopyInBounds
  NoStaleBytes
  WholeUnlessForeign
PROPERTIES
  FcToPeer
  ReassemblyEnds
