SPECIFICATION FairSpec
CONSTANTS
  hms = hms
  glue = glue
  sales = sales
  staff = staff
  orders = orders
  people = people
  Calls = {c1, c2}
  Catalogs = {hms, glue}
  Paged <- PagedCatalogs
  Schemas = {sales, staff}
  Tables = {orders, people}
  Commands <- SomeCommands
  DefaultCatalog = hms
  DefaultSchema = sales
  Start <- SomeContent
  Volatile <- SomeChanges
  None = None
INVARIANTS
  ListingTrue
  TicketsRedeemable
  ConnectedOnce
PROPERTIES
  EveryCallEnds
