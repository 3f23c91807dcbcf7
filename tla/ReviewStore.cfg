SPECIFICATION Spec
CONSTANTS
  guest = guest
  seller = seller
  staff = staff
  shop = shop
  listing = listing
  service = service
  lamp = lamp
  sofa = sofa
  r1 = r1
  r2 = r2
  r3 = r3
  Users = {guest, seller, staff}
  Targets <- OneTarget
  Types = {listing}
  TypeOf <- ListingType
  OwnerKeys = {seller, shop, NoOwner}
  NoOwner = NoOwner
  None = None
  RawPolicies <- StrictAndLenient
  TARGET_TYPES <- StrictTypes
  Registrations <- AnyRegistration
  MODERATION_DEFAULT = "post"
  RESPONSES = TRUE
  HostReviewers <- SellerReviews
  HostModerators <- StaffModerates
  HostResponders <- StaffModerates
  HostOwners <- SellerOwnsLamp
  HostRaises <- StaffMayFail
  Raises = Raises
  ReviewIds = {r1, r2}
  KeyOf <- SameKey
  AnyType = AnyType
  Anonymous = Anonymous
  Staff = {staff}
  Unwritten = Unwritten
  Erased = Erased
  RATING_MIN = 4
  RATING_MAX = 5
SYMMETRY Interchangeable
INVARIANTS
  TypeOK
  FactsMatchAggregate
  FactsTellVisibility
  OneFlaggedReview
  RowsAttached
  PublicListsAreTold
PROPERTIES
  SettledColumns
