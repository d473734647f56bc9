SPECIFICATION Spec
CONSTANTS
  MaxKeys = 6
  kPage = 3
  KindOf <- MCKindOf
INVARIANTS
  ListedInOrder ListingComplete
