SPECIFICATION Spec
CONSTANTS
  None = None
  l1 = l1
  l2 = l2
  m1 = m1
  s1 = s1
  s2 = s2
  t1 = t1
  t2 = t2
  home = home
  feed = feed
  b1 = b1
  b2 = b2
  c1 = c1
  c2 = c2
  u1 = u1
  u2 = u2
  x1 = x1
  x2 = x2
  FaultSets <- AllFaults
  ListingRows <- ListingIds
  Makers <- MakerIds
  Slugs <- SlugIds
  Shapes <- PricingShapes
  Quota = 1
  Tasks <- TaskIds
  Sections <- SectionIds
  Feeds = {feed}
  Buyers <- BuyerIds
  Watched = {b1}
  Ratings = {2, 5}
  ReviewCalls <- CallIds
  MaxTold = 2
  Ids <- IdsListed
  Keys = {0, 1, 2}
  PageLimit = 1
  FTS_FALLBACK_THRESHOLD = 2
  Users <- UserIds
  Admins = {}
  Uploads <- UploadIds
  Days = {1, 2}
  Claims = {"image/png", "image/svg+xml", "text/plain"}
  Purposes = {"image", "text"}
INVARIANTS
  ModerationAgrees
  SectionsAreFresh
  RatingsAgree
PROPERTIES
  ModerationHolds
  VisitorsSeeAll
  FilesAgree
CHECK_DEADLOCK FALSE
