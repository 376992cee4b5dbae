SPECIFICATION Spec
CONSTANTS
  a = a  b = b  c = c  s = s  t = t
  Addresses = {a, b, c}
  Sources = {s, t}
  NewBuckets = 2
  TriedBuckets = 2
  BucketSize = 2
  NewBucketsPerAddress = 2
  GetAddrPct = 70
  GetAddrMax = 1
  MaxIds = 4
  Keys <- TwoKeys
INVARIANTS AssertsHold Consistent
PROPERTIES TriedKept OneForOne
