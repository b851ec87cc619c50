SPECIFICATION TableLiveSpec
CONSTANTS
  p1 = p1  p2 = p2  u1 = u1  r1 = r1  r2 = r2
  Pairs = {p1, p2}  Churning = {p1}  Uids = {u1}  Rows = {r1, r2}  NoRow = NoRow
  MaxEmit = 0  MaxWire = 1
INVARIANTS
  SyncIsSound NoRowMissed
PROPERTIES
  SpinnerStops
