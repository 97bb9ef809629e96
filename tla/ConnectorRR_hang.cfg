SPECIFICATION FairSpec
CONSTANTS
  p1 = p1
  c1 = c1
  InPins = {p1}
  OutPins = {c1}
  MaxIn = 1
  MaxOut = 1
  BufferNum = 1
  NoPin = NoPin
PROPERTY
  GetOutputReturns
