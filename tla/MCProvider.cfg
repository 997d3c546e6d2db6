SPECIFICATION FairSpec
CONSTANTS
  Nil = Nil
  NoClient = NoClient
  provider = provider
  timer = timer
  alice = alice
  bob = bob
  slot = slot
  ReservationTimeout = 1
  SendCap = 1
  MaxNow = 1
  MaxOps = 3
  Users <- MCUsers
  Slots <- MCSlots
  Routines <- MCRoutines
  TimerId <- MCTimerId
  Ids <- MCRoutines
  Clients <- MCUsers
  Keys <- ProviderKeys
  Names <- MCNames
  Inputs <- MCInputs
  Messages <- MCMessages
  Results <- MCResults
  Registered <- ProviderKeys
  Recovery <- ProviderRecovery
  Runner <- MCRunner
  Script <- MCScript
INVARIANTS
  ConfirmedStaysBooked
  ReservedOrBooked
  ReservationIsHeld
PROPERTIES
  ExpiryIsHandled
CHECK_DEADLOCK FALSE
