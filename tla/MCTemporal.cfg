SPECIFICATION Spec
CONSTANTS
  Nil = Nil
  r = r
  kid = kid
  c1 = c1
  c2 = c2
  m1 = m1
  m2 = m2
  m3 = m3
  Fuel = 2
  Again = TRUE
  MaxRuns = 2
  MaxNow = 1
  MaxOps = 3
  Ids <- MCIds
  Clients <- MCClients
  Keys <- MCKeys
  Names <- MCNames
  Inputs <- MCInputs
  Messages <- MCMessages
  Results <- MCResults
  Registered <- MCKeys
  Recovery <- MCRecovery
  GivesUp <- MCGivesUp
  Runner <- MCRunner
  Script <- MCScript
INVARIANTS
  TypeOK
  SignalsInOrder
  NoSignalWaitsInSelect
  CallOwnership
  ClosedRunOwesNothing
PROPERTIES
  QueryResultsSurvive
  ImplementsContract
CHECK_DEADLOCK FALSE
