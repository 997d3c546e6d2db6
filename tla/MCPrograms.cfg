SPECIFICATION MCSpec
CONSTANTS
  Nil = Nil
  NoClient = NoClient
  booking = booking
  Consumer = Consumer
  producer = producer
  order = order
  batch = batch
  trip = trip
  reminder = reminder
  c1 = c1
  c2 = c2
  message = message
  DoneMsg = DoneMsg
  ReservationTimeout = 1
  ShippingTimeout = 1
  ExpireTimeout = 1
  ShipTimeout = 1
  InitialDelay = 1
  FollowUpDelay = 1
  Items = 2
  ChunkSize = 2
  SendCap = 1
  MaxNow = 2
  MaxOps = 3
  Sizes <- MCSizes
  Ids <- MCIds
  Clients <- MCClients
  Keys <- MCKeys
  Names <- MCNames
  Inputs <- MCInputs
  Messages <- MCMessages
  Results <- MCResults
  Registered <- MCKeys
  Recovery <- MCRecovery
  Runner <- MCRunner
  Script <- MCScript
INVARIANTS
  CancelledForGood
  OutcomeFitsStatus
  AllItemsInOrder
  BatchHeedsCancel
  TripAllOrNothing
PROPERTIES
  EarlyCancelWins
  StartedChildIsReached
  RoutinesEnd
  ResultArrives
CHECK_DEADLOCK FALSE
