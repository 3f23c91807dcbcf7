SPECIFICATION RSpec
CONSTANTS
  guest = guest
  seller = seller
  staff = staff
  shop = shop
  listing = listing
  lamp = lamp
  desk = desk
  r1 = r1
  r2 = r2
  r3 = r3
  q1 = q1
  q2 = q2
  q3 = q3
  q4 = q4
  Users = {guest, seller, staff}
  Targets = {lamp}
  Types = {listing}
  TypeOf <- ListingType
  OwnerKeys = {seller, shop, NoOwner}
  NoOwner = NoOwner
  None = None
  RawPolicies <- ThePolicies
  TARGET_TYPES <- ModeratedListing
  Registrations = {}
  MODERATION_DEFAULT = "post"
  RESPONSES = TRUE
  HostReviewers <- AnyoneReviews
  HostModerators <- StaffModerates
  HostResponders <- StaffModerates
  HostOwners <- ShopOwns
  HostRaises <- HostMayFail
  Raises = Raises
  ReviewIds = {r1, r2, r3}
  Unwritten = Unwritten
  Erased = Erased
  RATING_MIN = 4
  RATING_MAX = 5
  Requests = {q1, q2, q3}
  Inputs <- ErasureAndVerdict
  Late = {}
INVARIANTS
  FactsTellVisibility
