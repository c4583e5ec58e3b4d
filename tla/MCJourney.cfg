SPECIFICATION Spec
CONSTANTS
  c5551212 = c5551212
  cAC010000 = cAC010000
  cAB010000 = cAB010000
  docJoe = docJoe
  drBrown = drBrown
  mortyDr = mortyDr
  xD316 = xD316
  x5213 = x5213
  clocktower = clocktower
  Customers = {c5551212, cAC010000, cAB010000}
  Personas = {docJoe, drBrown, mortyDr}
  PersonaOwner <- ShippedOwner
  PersonaShard <- ShippedShard
  PossibleShards = {clocktower, twinPinesMall}
  ActiveShards = {clocktower}
  ReplyPersona = drBrown
  MappedCustomers = {cAB010000, c5551212}
  Contexts = {xD316, x5213}
  ContextCustomer <- ShippedContext
  AuthTicket = xD316
  SignedCustomers = {c5551212}
  Clients = {p1, p2, p3}
  Keys = {k1, k2, short}
  UsableKeys = {k1, k2}
  None = None
INVARIANTS TypeOK LoggedInIsServed PlayersShareKeys PlayersAreDistinct OffersAreComplete ChosenIsOnShard NamedIsOwn
PROPERTIES ImplementsServices
SYMMETRY Alike
