SPECIFICATION BFairSpec
CONSTANTS
  r1 = r1
  r2 = r2
  seller = seller
  shop = shop
  ReviewIds = {r1, r2}
  Targets = {1, 2}
  Keys = {seller, shop}
  NoOwner = NoOwner
  Raises = Raises
  Unwritten = Unwritten
  Erased = Erased
  Options <- AllRuns
  limit = 0
  MaxKills = 1
INVARIANTS
  BTypeOK
PROPERTIES
  StampedStays
  AskedOnce
  NothingSkipped
  EveryRowStamped
