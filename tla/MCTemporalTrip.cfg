SPECIFICATION MCSpec
CONSTANTS
  Nil = Nil
  Consumer = Consumer
  producer = producer
  Parent = Parent
  i1 = i1
  i2 = i2
  auction = auction
  batch = batch
  trip = trip
  c1 = c1
  c2 = c2
  message = message
  DoneMsg = DoneMsg
  Items = 2
  ChunkSize = 2
  MaxRuns = 1
  MaxNow = 3
  MaxOps = 3
  Programs <- OneTrip
  Work <- MCWork
  Bidders <- MCClients
  Amounts <- MCAmounts
  Deadlines <- MCDeadlines
  Sizes <- MCSizes
  Ids <- MCIds
  Clients <- MCClients
  Keys <- MCKeys
  Names <- MCNames
  Inputs <- MCInputs
  Messages <- MCMessages
  Results <- MCResults
  Registered <- MCKeys
  Recovery <- MCRecovery
  GivesUp <- MCGivesUp
  Runner <- MCRunner
  Script <- MCScript
INVARIANTS
  FailedTripCancelsFlight
CHECK_DEADLOCK FALSE
