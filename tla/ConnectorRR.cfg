SPECIFICATION LoopSpec
CONSTANTS
  p1 = p1
  c1 = c1
  c2 = c2
  InPins = {p1}
  OutPins = {c1, c2}
  MaxIn = 1
  MaxOut = 2
  BufferNum = 2
  NoPin = NoPin
INVARIANTS
  TypeOK
  PacketOwnership
  NoLostWakeup
PROPERTIES
  ChannelSpec
  GetInputReturns
  Delivered
  CloseIsRelayed
