SPECIFICATION FairSpec
CONSTANTS
  Data = {d1, d2}
  Slots = {s1, s2}
  MaxRef = 2
  Rereads = FALSE
  NoData = NoData
INVARIANTS TypeOK SlotExclusive DestroyedOnce
PROPERTIES Reclaimed SurfaceReturns
