SPECIFICATION Spec
CONSTANTS
  Nil = Nil
  NoClient = NoClient
  r = r
  c1 = c1
  c2 = c2
  m1 = m1
  m2 = m2
  m3 = m3
  poison = poison
  Fuel = 3
  Late = 1
  CallKeys = {"ask"}
  SendCap = 2
  MaxNow = 2
  MaxOps = 3
  Ids <- MCIds
  Clients <- MCClients
  Keys <- MCKeys
  Names <- MCNames
  Inputs <- MCInputs
  Messages <- MCMessages
  Results <- MCResults
  Registered <- MCRegistered
  Recovery <- MCRecovery
  Runner <- MCRunner
  Script <- MCScript
INVARIANTS
  TypeOK
  SendsInOnePlace
  SendsInOrder
  NothingSetAsideIsWanted
  CallOwnership
  NoAnswerOwedWhileWaiting
  FailedAttemptLeavesNoTrace
PROPERTY ImplementsContract
CHECK_DEADLOCK FALSE
