SPECIFICATION TwinSpec
CONSTANTS
  SeedCount = 2
  Capacity = 3
  Statuses = {"available", "pending"}
  SeedStatus <- MCSeedStatus
  MaxPetId = 5
  MaxOrderId = 4
  Texts = {"a", "b"}
  Described = {1}
  Listings <- MCListings
CHECK_DEADLOCK FALSE
INVARIANT Bounded
INVARIANT PagesCoverTheCatalogue
INVARIANT NoStaleBody
PROPERTY CatalogueKept
