SPECIFICATION Spec
CONSTANTS
  repl = repl
  flight = flight
  c1 = c1
  c2 = c2
  s1 = s1
  s2 = s2
  Clients = {repl, flight}
  Repl = {repl}
  Catalogs = {c1, c2}
  UnknownCatalog = nowhere
  SchemaNames = {s1, s2}
  None = None
  Inputs <- SmallInputs
  Headers <- AllStart
INVARIANTS
  PlanUsesOwnResolution
  ClientKnowsScope
  RequestUsesHeaders
PROPERTIES
  SchemaMovesOnSuccess
