SPECIFICATION Spec
CONSTANTS
  Proc = {p1}
  Field <- MCField
  Tag <- MCTag
  Request <- MCRequest
  Bucket <- MCBucket
  Lists <- MCLists
  NoPolicy = NoPolicy
  MaxTime = 3
INVARIANTS OrderIrrelevant OneCounterPerPolicy SlotHasRelease SurfacesAgree
