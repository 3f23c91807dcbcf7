SPECIFICATION BSpec
CONSTANTS
  r1 = r1
  r2 = r2
  seller = seller
  shop = shop
  ReviewIds = {r1, r2}
  Targets = {1, 2}
  Keys = {seller}
  NoOwner = NoOwner
  Raises = Raises
  Unwritten = Unwritten
  Erased = Erased
  Options <- OneRun
  limit = 1
  MaxKills = 1
INVARIANTS
  LimitKept
