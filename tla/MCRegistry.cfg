SPECIFICATION Spec
CONSTANTS
  Nil = Nil
  Colon = Colon
  h1 = h1
  h2 = h2
  low = low
  high = high
  s = s
  c = c
  e1 = e1
  e2 = e2
  e3 = e3
  Letter <- MCLetter
  Kinds <- MCKinds
  Handlers <- MCHandlers
  Recoverers = {e1, e2, e3}
  TypeOf <- MCTypeOf
  Asks <- MCAsks
INVARIANTS
  DispatchMatchesTypes
  RegisteredIsServed
CHECK_DEADLOCK FALSE
