SPECIFICATION ListingsSpec
CONSTANTS
  a1 = a1
  a2 = a2
  b1 = b1
  x1 = x1
  x2 = x2
  y1 = y1
  Instance = {1, 2}
  Conn = {a1, a2, b1}
  Job = {x1, x2, y1}
  PoolOf <- MCPoolOf
  HomeOf <- MCHomeOf
  Nobody = Nobody
  MaxDepth = 2
  MaxDrops = 1
  Listing = {first, second}
  Account = {"seller"}
  Animal = {"animal"}
  SellerOf <- MCSellerOf
  AnimalOf <- MCAnimalOf
  TypeOf <- MCTypeOf
  Client = {c1, c2}
  Stored <- MCStored
  Written <- MCWritten
  MaxWrites = 2
  MaxFaults = 1
SYMMETRY Symmetry
INVARIANTS
  ListingsTypeOK
  OneInstanceWorks
  ExpiryReportedOnce
PROPERTIES
  CascadeMissesNewcomersOnly
