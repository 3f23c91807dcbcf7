SPECIFICATION SFairSpec
CONSTANTS
  guest = guest
  seller = seller
  staff = staff
  shop = shop
  listing = listing
  review = review
  lamp = lamp
  r1 = r1
  r2 = r2
  Users = {guest, seller, staff}
  Targets = {lamp}
  Types = {listing}
  TypeOf <- ListingType
  OwnerKeys = {seller, shop, NoOwner}
  NoOwner = NoOwner
  None = None
  RawPolicies <- ThePolicies
  TARGET_TYPES <- ModeratedListing
  Registrations <- Removal
  MODERATION_DEFAULT = "post"
  RESPONSES = TRUE
  HostReviewers <- BuyersReview
  HostModerators <- StaffModerates
  HostResponders <- StaffModerates
  HostOwners <- SellerOrShop
  HostRaises <- ResolverMayFail
  Raises = Raises
  ReviewIds = {r1}
  KeyOf <- TheKey
  AnyType = AnyType
  Anonymous = Anonymous
  Staff = {staff}
  Unwritten = Unwritten
  Erased = Erased
  RATING_MIN = 5
  RATING_MAX = 5
  Guests = {guest}
  Ratings = {5, 6}
  Verbs = {"hide", "publish", "delete"}
  Events <- SomeEvents
  MODERATION_TARGET_TYPE = review
  MaxInbox = 2
INVARIANTS
  ServerErrorsAreTheHosts
  VerdictStands
  ClosedAccountsEmpty
PROPERTIES
  KeepsStore
  EveryEventHandled
